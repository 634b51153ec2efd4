-------------------------- MODULE VoiceCommandProofs --------------------------
(***************************************************************************)
(* From an utterance to its commands, proved for every desktop, utterance, *)
(* gaze ring, set of switches and wait budget: the runner never leaves its *)
(* plan, the executor's safety contract, the wait's budget, that what it   *)
(* does is a run of a plan as PlanRun promises, and that the action was    *)
(* meant: what it is about is there, was named or looked at, and was the   *)
(* only one to fit; and that nothing else is changed.                      *)
(*                                                                         *)
(* The contract speaks of what has run; that it is inductive takes the     *)
(* plan that is still to run (GoodPlan, from ActionProofs: allowed by the  *)
(* switches and about the snapshot), the validation between step and run,  *)
(* and that neither the snapshot nor the switches change while the plan is *)
(* run.                                                                    *)
(*                                                                         *)
(* What was meant is ActionProofs' (ActionsAreGrounded) for any snapshot;  *)
(* the second invariant (Grounded) says that the snapshot is one: whatever *)
(* happens to the desktop between the queries, the replies are lists of a  *)
(* desktop's, no two monitors alike, and parse joins them.                 *)
(*                                                                         *)
(* Most commands act on whatever has the focus or is selected.  That they  *)
(* change only what the action is about takes a third (Aimed): what the    *)
(* plan's first command chose is still chosen, as long as nobody meddled.  *)
(***************************************************************************)
EXTENDS VoiceCommand, ActionProofs

\* Where process() stands, and what its loops count.
Placed ==
  /\ cfg \in Config /\ Len(now.says) \in Nat
  /\ phase \in {"monitors", "clients", "status", "resolve", "step", "wait", "run", "over"}
  /\ turn \in 1 .. Len(now.says)
  /\ meddled \in BOOLEAN
  /\ changes \in 0 .. Changes
  /\ slept \in 0 .. WaitMonitor

\* The plan is a sequence, and the runner stands in it.
Planned ==
  /\ plan.ok \in BOOLEAN
  /\ \E S : plan.steps \in Seq(S)
  /\ at \in 1 .. Len(plan.steps) + 1
  /\ phase \in {"wait", "run"} => at <= Len(plan.steps)

\* What is to run is allowed, what is about to run is validated.
Vetted ==
  /\ Resolved => GoodPlan(plan, ctx, cfg)
  /\ phase \in {"wait", "run"} => validateStep(step) /\ ~cfg.dryRun

\* What has run for this utterance was permitted.
Permitted ==
  \E S : ran \in Seq(S) /\ (Resolved => \A s \in S : permitted(s.step))

Inv == Placed /\ Planned /\ Vetted /\ Permitted /\ Acts(action)
-----------------------------------------------------------------------------
\* The first invariant holds at the start.
LEMMA InitInv == Init => Inv
<1> SUFFICES ASSUME Init PROVE Inv
  OBVIOUS
<1>0. PICK s \in Situations : now = [cfg |-> s.cfg, says |-> s.says]
  BY DEF Init
<1>a. phase = "monitors" /\ turn = 1 /\ at = 1 /\ slept = 0 /\ changes = 0
  BY DEF Init
<1>b. plan = Refuse("")
  BY DEF Init
<1>c. ran = <<>> /\ meddled = FALSE
  BY DEF Init
<1>1. Placed
  <2>1. cfg \in Config /\ Len(now.says) \in Nat \ {0}
    BY <1>0, SituationsAssumption DEF cfg
  <2>2. turn \in 1 .. Len(now.says)
    BY <1>a, <2>1
  <2>3. meddled \in BOOLEAN
    BY <1>c
  <2>4. changes \in 0 .. Changes /\ slept \in 0 .. WaitMonitor
    BY <1>a, BudgetAssumption
  <2> QED BY <1>a, <2>1, <2>2, <2>3, <2>4 DEF Placed
<1> DEFINE none == <<>>
           S == {}
<1>2. none \in Seq(S)
  BY EmptySeq
<1>3. plan.steps = none /\ plan.ok = FALSE /\ ran = none /\ Len(none) = 0
  BY <1>b, <1>c DEF Refuse
<1> HIDE DEF none, S
<1>4. Planned
  <2>1. plan.ok \in BOOLEAN
    BY <1>3
  <2>2. \E T : plan.steps \in Seq(T)
    BY <1>2, <1>3, Zenon
  <2>3. at \in 1 .. Len(plan.steps) + 1
    BY <1>a, <1>3
  <2> QED BY <1>a, <2>1, <2>2, <2>3 DEF Planned
<1>5. Vetted
  BY <1>a DEF Vetted, Resolved
<1>6. Permitted
  BY <1>2, <1>3, <1>a DEF Permitted, Resolved
<1>7. Acts(action)
  <2>1. action = Unresolved(Raw)
    BY DEF Init, NoAction
  <2> QED BY <2>1 DEF Unresolved, Raw, Acts, Verbs, Sources
<1> QED BY <1>1, <1>4, <1>5, <1>6, <1>7 DEF Inv
-----------------------------------------------------------------------------
(* The steps.                                                              *)

\* While neither the snapshot nor the switches change, neither does what is
\* permitted.
LEMMA StillPermitted ==
  ASSUME NEW s, UNCHANGED <<now, ctx>>, permitted(s)
  PROVE  permitted(s)'
BY DEF permitted, cfg

\* A sleep ends within the budget.
LEMMA NapWithinBudget ==
  ASSUME NEW soFar \in 0 .. WaitMonitor
  PROVE  nap(soFar) \in 0 .. WaitMonitor
<1>1. poll \in Nat
  BY BudgetAssumption DEF poll
<1> QED BY <1>1, BudgetAssumption DEF nap, smaller

\* A query counts against the bound only when it fails.
LEMMA AnswerCounts ==
  ASSUME changes \in 0 .. Changes, NEW got, NEW answer, Answer(got, answer)
  PROVE  changes' \in 0 .. Changes
BY BudgetAssumption DEF Answer

\* The desktop lives on beside the utterance.
LEMMA DesktopApart ==
  ASSUME Placed, Desktop \/ UNCHANGED vars
  PROVE  /\ UNCHANGED <<now, turn, phase, ctx, plan, at, slept, ran>>
         /\ changes' \in 0 .. Changes
         /\ meddled' \in BOOLEAN
<1>1. ASSUME NEW d, Meddle(d)
      PROVE  /\ UNCHANGED <<now, turn, phase, ctx, plan, at, slept, ran>>
             /\ changes' \in 0 .. Changes
             /\ meddled' \in BOOLEAN
  BY <1>1, BudgetAssumption DEF Meddle, Placed
<1>2. CASE WindowCloses
  BY <1>1, <1>2 DEF WindowCloses
<1>3. CASE FocusMoves
  BY <1>1, <1>3 DEF FocusMoves
<1>4. CASE SelectionMoves
  BY <1>1, <1>4 DEF SelectionMoves
<1>5. CASE MonitorGoes
  BY <1>1, <1>5 DEF MonitorGoes
<1>6. CASE MonitorRegisters
  BY <1>6 DEF MonitorRegisters, Placed
<1>7. CASE UNCHANGED vars
  BY <1>7 DEF vars, Placed
<1> QED BY <1>2, <1>3, <1>4, <1>5, <1>6, <1>7 DEF Desktop

\* Every step keeps process() at one of its places, within its bounds.
LEMMA NextPlaced ==
  ASSUME Inv, [Next]_vars PROVE Placed'
<1> USE DEF Inv
<1> DEFINE Counted == changes' \in 0 .. Changes
<1>1. CASE QueryMonitors
  <2>1. Counted
    BY <1>1, AnswerCounts DEF QueryMonitors, Placed
  <2> QED BY <1>1, <2>1 DEF QueryMonitors, Placed, cfg
<1>2. CASE QueryClients
  <2>1. Counted
    BY <1>2, AnswerCounts DEF QueryClients, Placed
  <2> QED BY <1>2, <2>1 DEF QueryClients, Placed, cfg
<1>3. CASE QueryStatus
  <2>1. Counted
    BY <1>3, AnswerCounts DEF QueryStatus, Placed
  <2> QED BY <1>3, <2>1 DEF QueryStatus, Placed, cfg
<1>4. CASE Resolve
  BY <1>4, BudgetAssumption DEF Resolve, Placed, cfg
<1>5. CASE NextStep
  BY <1>5, BudgetAssumption DEF NextStep, Placed, cfg
<1>6. CASE AwaitMonitor
  <2>1. Counted
    BY <1>6, AnswerCounts DEF AwaitMonitor, Placed
  <2>2. slept' \in 0 .. WaitMonitor
    BY <1>6, NapWithinBudget DEF AwaitMonitor, Placed
  <2>3. phase' \in {"run", "over", "wait"}
    BY <1>6 DEF AwaitMonitor
  <2> QED BY <1>6, <2>1, <2>2, <2>3 DEF AwaitMonitor, Placed, cfg
<1>7. CASE RunStep
  <2>1. phase' \in {"step", "over"}
    BY <1>7 DEF RunStep, afterStep
  <2> QED BY <1>7, <2>1 DEF RunStep, Placed, cfg
<1>8. CASE Hear
  BY <1>8 DEF Hear, Placed, cfg
<1>9. CASE Desktop \/ UNCHANGED vars
  BY <1>9, DesktopApart DEF Placed, cfg
<1> QED BY <1>1, <1>2, <1>3, <1>4, <1>5, <1>6, <1>7, <1>8, <1>9
        DEF Next, Asking, Running

\* Only resolving an utterance makes a plan; a good one is a sequence.
LEMMA GoodPlanIsPlanned ==
  ASSUME NEW p, NEW c, NEW sw, GoodPlan(p, c, sw)
  PROVE  p.ok \in BOOLEAN /\ \E S : p.steps \in Seq(S)
BY Zenon DEF GoodPlan, AllAllowed

\* What was resolved in this step was planned by planFor.
LEMMA ResolveVets ==
  ASSUME Inv, Resolve
  PROVE  /\ GoodPlan(plan', ctx', cfg')
         /\ phase' = IF plan'.ok THEN "step" ELSE "over"
         /\ at' = 1
<1>1. GoodPlan(plan', ctx, cfg)
  BY PlansAreGood DEF Resolve
<1> QED BY <1>1 DEF Resolve, cfg

\* Every step keeps the runner in its plan.
LEMMA NextPlanned ==
  ASSUME Inv, [Next]_vars PROVE Planned'
<1> USE DEF Inv
<1>1. CASE Resolve
  <2>1. plan'.ok \in BOOLEAN /\ \E S : plan'.steps \in Seq(S)
    BY <1>1, ResolveVets, GoodPlanIsPlanned
  <2>2. PICK S : plan'.steps \in Seq(S)
    BY <2>1
  <2>3. Len(plan'.steps) \in Nat
    BY <2>2
  <2>4. at' \in 1 .. Len(plan'.steps) + 1
    BY <1>1, <2>3, ResolveVets
  <2>5. phase' \notin {"wait", "run"}
    BY <1>1 DEF Resolve
  <2> QED BY <2>1, <2>4, <2>5 DEF Planned
<1>2. CASE Asking \/ Hear
  <2>1. UNCHANGED <<plan, at>> /\ phase' \notin {"wait", "run"}
    BY <1>2 DEF Asking, QueryMonitors, QueryClients, QueryStatus, Hear
  <2> QED BY <2>1 DEF Planned
<1>3. CASE NextStep
  <2>1. PICK S : plan.steps \in Seq(S)
    BY DEF Planned
  <2>2. Len(plan.steps) \in Nat
    BY <2>1
  <2>3. /\ at' \in 1 .. Len(plan.steps) + 1
        /\ phase' \in {"wait", "run"} => at' <= Len(plan.steps)
    BY <1>3, <2>2 DEF NextStep, Planned
  <2> QED BY <1>3, <2>3 DEF NextStep, Planned
<1>4. CASE AwaitMonitor
  <2>1. UNCHANGED <<plan, at>> /\ phase = "wait"
    BY <1>4 DEF AwaitMonitor
  <2> QED BY <2>1 DEF Planned
<1>5. CASE RunStep
  <2>1. /\ UNCHANGED plan /\ at' = at + 1 /\ phase = "run"
        /\ phase' \notin {"wait", "run"}
    BY <1>5 DEF RunStep, afterStep
  <2>2. PICK S : plan.steps \in Seq(S)
    BY DEF Planned
  <2>3. Len(plan.steps) \in Nat
    BY <2>2
  <2>4. at' \in 1 .. Len(plan.steps) + 1
    BY <2>1, <2>3 DEF Planned
  <2> QED BY <2>1, <2>4 DEF Planned
<1>6. CASE Desktop \/ UNCHANGED vars
  <2>1. UNCHANGED <<plan, at, phase>>
    BY <1>6, DesktopApart
  <2> QED BY <2>1 DEF Planned
<1> QED BY <1>1, <1>2, <1>3, <1>4, <1>5, <1>6 DEF Next, Running

\* Nothing becomes due that is not allowed and validated.
LEMMA NextVetted ==
  ASSUME Inv, [Next]_vars PROVE Vetted'
<1> USE DEF Inv
<1>1. CASE Resolve
  <2>1. GoodPlan(plan', ctx', cfg')
    BY <1>1, ResolveVets
  <2>2. phase' \notin {"wait", "run"}
    BY <1>1 DEF Resolve
  <2> QED BY <2>1, <2>2 DEF Vetted
<1>2. CASE Asking \/ Hear
  <2>1. ~Resolved' /\ phase' \notin {"wait", "run"}
    BY <1>2 DEF Asking, QueryMonitors, QueryClients, QueryStatus, Hear, Resolved
  <2> QED BY <2>1 DEF Vetted
<1>3. CASE NextStep
  <2>1. UNCHANGED <<plan, ctx, now>> /\ Resolved
    BY <1>3 DEF NextStep, Resolved
  <2>2. phase' \in {"wait", "run"} => validateStep(step) /\ ~cfg.dryRun /\ at' = at
    BY <1>3 DEF NextStep
  <2>3. phase' \in {"wait", "run"} => (validateStep(step) /\ ~cfg.dryRun)'
    BY <2>1, <2>2 DEF step, cfg
  <2> QED BY <2>1, <2>3 DEF Vetted, cfg
<1>4. CASE AwaitMonitor
  <2>1. UNCHANGED <<plan, ctx, now, at>> /\ phase = "wait" /\ Resolved
    BY <1>4 DEF AwaitMonitor, Resolved
  <2> QED BY <2>1 DEF Vetted, cfg, step
<1>5. CASE RunStep
  <2>1. UNCHANGED <<plan, ctx, now>> /\ Resolved /\ phase' \notin {"wait", "run"}
    BY <1>5 DEF RunStep, afterStep, Resolved
  <2> QED BY <2>1 DEF Vetted, cfg
<1>6. CASE Desktop \/ UNCHANGED vars
  <2>1. UNCHANGED <<plan, ctx, now, at, phase>>
    BY <1>6, DesktopApart
  <2> QED BY <2>1 DEF Vetted, Resolved, cfg, step
<1> QED BY <1>1, <1>2, <1>3, <1>4, <1>5, <1>6 DEF Next, Running

\* The command about to run is one that was planned from the snapshot, and it has
\* been validated.
LEMMA StepAllowed ==
  ASSUME Inv, phase = "run" PROVE Allowed(step, ctx, cfg) /\ validateStep(step)
<1> USE DEF Inv
<1>1. GoodPlan(plan, ctx, cfg)
  BY DEF Vetted, Resolved
<1>2. PICK S : plan.steps \in Seq(S) /\ \A s \in S : Allowed(s, ctx, cfg)
  BY <1>1 DEF GoodPlan, AllAllowed
<1>3. at \in 1 .. Len(plan.steps)
  BY <1>2 DEF Planned
<1>4. step \in S
  BY <1>2, <1>3, ElementOfSeq DEF step
<1>5. Allowed(step, ctx, cfg)
  BY <1>2, <1>4
<1> QED BY <1>5 DEF Vetted


\* So the contract permits it.
LEMMA StepPermitted ==
  ASSUME Inv, phase = "run" PROVE permitted(step)
<1>1. Allowed(step, ctx, cfg) /\ validateStep(step)
  BY StepAllowed
<1>2. ~cfg.dryRun
  BY DEF Inv, Vetted
<1> QED BY <1>1, <1>2 DEF permitted, Allowed

\* A step that runs succeeds or does not, and the runner remembers which.
LEMMA StepOutcome ==
  ASSUME RunStep
  PROVE  \E ok \in BOOLEAN :
           phase' = afterStep(ok) /\ ran' = Append(ran, [step |-> step, ok |-> ok])
<1>1. possible(step) \in BOOLEAN
  BY Zenon DEF possible
<1>2. PICK ok \in {possible(step), FALSE} :
        phase' = afterStep(ok) /\ ran' = Append(ran, [step |-> step, ok |-> ok])
  BY Zenon DEF RunStep
<1>3. ok \in BOOLEAN
  BY <1>1, <1>2
<1> QED BY <1>2, <1>3, Zenon

\* What runs was permitted, and stays so.
LEMMA NextPermitted ==
  ASSUME Inv, [Next]_vars PROVE Permitted'
<1> USE DEF Inv
<1>1. CASE Resolve
  <2> DEFINE none == <<>>
             S == {}
  <2>1. none \in Seq(S)
    BY EmptySeq
  <2>2. ran' = none
    BY <1>1 DEF Resolve
  <2> HIDE DEF none
  <2> QED BY <2>1, <2>2 DEF Permitted
<1>2. CASE RunStep
  <2>1. /\ UNCHANGED <<ctx, now>> /\ Resolved
        /\ phase = "run"
    BY <1>2 DEF RunStep, Resolved
  <2>a. PICK ok \in BOOLEAN : ran' = Append(ran, [step |-> step, ok |-> ok])
    BY <1>2, StepOutcome
  <2>2. PICK S : ran \in Seq(S) /\ \A s \in S : permitted(s.step)
    BY <2>1 DEF Permitted
  <2> DEFINE T == S \cup {[step |-> step, ok |-> ok]}
  <2>3. ran' \in Seq(T)
    BY <2>a, <2>2, SeqMonotonic, AppendProperties
  <2>4. \A s \in T : permitted(s.step)'
    BY <2>1, <2>2, StepPermitted, StillPermitted
  <2> HIDE DEF T
  <2> QED BY <2>3, <2>4, Zenon DEF Permitted
<1>3. CASE Asking \/ Hear
  <2>1. UNCHANGED ran /\ ~Resolved'
    BY <1>3 DEF Asking, QueryMonitors, QueryClients, QueryStatus, Hear, Resolved
  <2> QED BY <2>1 DEF Permitted
<1>4. CASE NextStep \/ AwaitMonitor
  <2>1. UNCHANGED <<ctx, now, ran>> /\ Resolved
    BY <1>4 DEF NextStep, AwaitMonitor, Resolved
  <2>2. PICK S : ran \in Seq(S) /\ \A s \in S : permitted(s.step)
    BY <2>1 DEF Permitted
  <2>3. \A s \in S : permitted(s.step)'
    BY <2>1, <2>2, StillPermitted
  <2> QED BY <2>1, <2>2, <2>3, Zenon DEF Permitted
<1>5. CASE Desktop \/ UNCHANGED vars
  <2>1. UNCHANGED <<ctx, now, ran, phase>>
    BY <1>5, DesktopApart
  <2>2. PICK S : ran \in Seq(S) /\ (Resolved => \A s \in S : permitted(s.step))
    BY DEF Permitted
  <2>3. Resolved' => \A s \in S : permitted(s.step)'
    BY <2>1, <2>2, StillPermitted DEF Resolved
  <2> QED BY <2>1, <2>2, <2>3, Zenon DEF Permitted
<1> QED BY <1>1, <1>2, <1>3, <1>4, <1>5 DEF Next, Running

\* Only resolving an utterance makes an action.
LEMMA NextActs ==
  ASSUME Inv, [Next]_vars PROVE Acts(action')
<1>1. CASE Resolve
  BY <1>1, ActionsAct DEF Resolve
<1>2. CASE Asking \/ Running \/ Hear
  <2>1. UNCHANGED action
    BY <1>2 DEF Asking, QueryMonitors, QueryClients, QueryStatus, Running, NextStep,
                AwaitMonitor, RunStep, Hear
  <2> QED BY <2>1 DEF Inv
<1>3. CASE Desktop \/ UNCHANGED vars
  <2>1. UNCHANGED action
    BY <1>3 DEF Desktop, WindowCloses, FocusMoves, SelectionMoves, MonitorGoes, MonitorRegisters,
                Meddle, vars
  <2> QED BY <2>1 DEF Inv
<1> QED BY <1>1, <1>2, <1>3 DEF Next

\* Every step keeps the first invariant.
LEMMA NextInv == Inv /\ [Next]_vars => Inv'
<1> SUFFICES ASSUME Inv, [Next]_vars PROVE Inv'
  OBVIOUS
<1>1. Acts(action)'
  BY NextActs
<1> QED BY <1>1, NextPlaced, NextPlanned, NextVetted, NextPermitted DEF Inv
-----------------------------------------------------------------------------
(* The theorems.                                                           *)

\* Every field keeps its type, the runner stands in its plan and waits or runs
\* at a step of it, for every utterance, desktop and plan.
THEOREM CommandTypeOK == Spec => []TypeOK
<1>1. Inv => TypeOK
  BY BudgetAssumption DEF Inv, Placed, Planned, Acts, TypeOK
<1> QED BY InitInv, NextInv, <1>1, PTL DEF Spec

\* Executor.hpp:14-22, for every utterance and every desktop: what runs has a
\* shape of the closed set, is about the snapshot, and is switched on.
THEOREM CommandContractHolds == Spec => []ContractHolds
<1>1. ASSUME Inv, Resolved, NEW i \in DOMAIN ran PROVE permitted(ran[i].step)
  <2>1. PICK S : ran \in Seq(S) /\ \A s \in S : permitted(s.step)
    BY <1>1 DEF Inv, Permitted
  <2> QED BY <1>1, <2>1, ElementOfSeq
<1>2. Inv => ContractHolds
  BY <1>1 DEF ContractHolds
<1> QED BY InitInv, NextInv, <1>2, PTL DEF Spec

\* awaitMonitor (Executor.cpp:655): no wait outlasts its budget, none is given
\* up before.
THEOREM CommandWaitWithinBudget == Spec => WaitWithinBudget
<1> DEFINE Kept == /\ slept' <= WaitMonitor
                   /\ phase = "wait" /\ phase' = "over" => slept = WaitMonitor
<1>1. ASSUME Inv, [Next]_vars PROVE Kept
  <2>1. slept \in 0 .. WaitMonitor /\ slept' \in 0 .. WaitMonitor
    BY <1>1, NextInv DEF Inv, Placed
  <2>2. ASSUME phase = "wait", phase' = "over" PROVE slept >= WaitMonitor
    <3>1. CASE AwaitMonitor
      BY <2>2, <3>1 DEF AwaitMonitor
    <3>2. CASE Desktop \/ UNCHANGED vars
      BY <1>1, <2>2, <3>2, DesktopApart DEF Inv
    <3>3. CASE Asking \/ Resolve \/ NextStep \/ RunStep \/ Hear
      BY <2>2, <3>3 DEF Asking, QueryMonitors, QueryClients, QueryStatus, Resolve, NextStep,
                        RunStep, Hear
    <3> QED BY <1>1, <3>1, <3>2, <3>3 DEF Next, Running
  <2> QED BY <2>1, <2>2, BudgetAssumption
<1>2. Inv /\ [Next]_vars => [Kept]_vars
  BY <1>1
<1> QED BY InitInv, NextInv, <1>2, PTL DEF Spec, WaitWithinBudget
-----------------------------------------------------------------------------
(* The runner runs a plan, and no more of it than PlanRun promises.        *)

state == IF running THEN "running" ELSE "over"

\* A sequence is one over the set of its elements.
LEMMA SeqOverItsElements ==
  ASSUME NEW S, NEW s \in Seq(S)
  PROVE  s \in Seq({s[i] : i \in DOMAIN s})
<1>1. /\ Len(s) \in Nat /\ DOMAIN s = 1 .. Len(s)
      /\ s = [i \in 1 .. Len(s) |-> s[i]]
  BY LenProperties
<1>2. \A i \in 1 .. Len(s) : s[i] \in {s[j] : j \in DOMAIN s}
  BY <1>1
<1> QED BY <1>1, <1>2, IsASeq

\* At the start no plan is run.
LEMMA InitRuns == Init => Runs!Init
<1> SUFFICES ASSUME Init PROVE Runs!Init
  OBVIOUS
<1>1. phase = "monitors" /\ at = 1
  BY DEF Init
<1>2. ran = <<>>
  BY DEF Init
<1>3. plan.steps = <<>>
  <2>1. plan = Refuse("")
    BY DEF Init
  <2> QED BY <2>1 DEF Refuse
<1>4. todo = <<>>
  BY <1>1, <1>3, SubSeqEmpty DEF todo
<1> QED BY <1>1, <1>2, <1>4 DEF Runs!Init, running

\* A plan is received; of a refusal nothing, and what was left before is dropped.
LEMMA ResolveRuns ==
  ASSUME Inv, Inv', Resolve PROVE Runs!Receive \/ Runs!Drop
<1>1. ~running /\ ran' = <<>> /\ at' = 1
  BY DEF Resolve, running
<1>2. CASE plan'.ok
  <2>1. running'
    BY <1>2, ResolveVets DEF running
  <2>2. PICK S : todo' \in Seq(S)
    <3>1. PICK S : plan'.steps \in Seq(S)
      BY ResolveVets, GoodPlanIsPlanned
    <3>2. SubSeq(plan'.steps, 1, Len(plan'.steps)) = plan'.steps /\ <<>> \in Seq(S)
      BY <3>1, SubSeqFull, EmptySeq
    <3>3. todo' \in Seq(S)
      BY <1>1, <3>1, <3>2 DEF todo
    <3> QED BY <3>3
  <2>3. todo' \in Seq({todo'[i] : i \in DOMAIN todo'})
    BY <2>2, SeqOverItsElements
  <2> QED BY <1>1, <2>1, <2>3 DEF Runs!Receive
<1>3. CASE ~plan'.ok
  <2>1. ~running'
    BY <1>3, ResolveVets DEF running
  <2>2. plan'.steps = <<>>
    BY <1>3, ResolveVets DEF GoodPlan
  <2>3. todo' = <<>>
    BY <1>1, <2>2, SubSeqEmpty DEF todo
  <2> QED BY <1>1, <2>1, <2>3 DEF Runs!Drop
<1> QED BY <1>2, <1>3

\* A command is the head of what is to do, and what it leaves is the tail.
LEMMA RunStepRuns ==
  ASSUME Inv, Inv', RunStep PROVE Runs!Run
<1>1. /\ phase = "run" /\ at' = at + 1 /\ UNCHANGED <<plan, now>>
      /\ ~cfg.dryRun
  BY DEF RunStep, Inv, Vetted
<1>2. PICK S : plan.steps \in Seq(S)
  BY DEF Inv, Planned
<1>3. at \in 1 .. Len(plan.steps) /\ Len(plan.steps) \in at .. Len(plan.steps)
  BY <1>1, <1>2 DEF Inv, Planned
<1>4. todo = SubSeq(plan.steps, at, Len(plan.steps))
  BY <1>1 DEF todo
<1>5. todo' = SubSeq(plan.steps, at + 1, Len(plan.steps))
  BY <1>1 DEF todo, cfg
<1>6. Head(todo) = step /\ Tail(todo) = todo'
  BY <1>2, <1>3, <1>4, <1>5, HeadTailOfSubSeq DEF step
<1>7. todo # <<>>
  <2>1. Len(todo) = Len(plan.steps) - at + 1
    BY <1>2, <1>3, <1>4, SubSeqProperties, ElementOfSeq
  <2> QED BY <1>3, <2>1
<1>8. PICK ok \in BOOLEAN :
        phase' = afterStep(ok) /\ ran' = Append(ran, [step |-> step, ok |-> ok])
  BY StepOutcome
<1>9. running /\ running' = ok
  BY <1>1, <1>8 DEF running, afterStep
<1> QED BY <1>6, <1>7, <1>8, <1>9 DEF Runs!Run

\* Every step is a step of the run of a plan, or none.
LEMMA NextRuns ==
  ASSUME Inv, Inv', [Next]_vars PROVE [Runs!Next]_(Runs!vars)
<1>1. CASE Resolve
  BY <1>1, ResolveRuns DEF Runs!Next
<1>2. CASE RunStep
  BY <1>2, RunStepRuns DEF Runs!Next
<1>3. CASE NextStep
  <2>1. running /\ UNCHANGED <<plan, now, ran>>
    BY <1>3 DEF NextStep, running
  <2>2. CASE phase' = "step"
    <3>1. cfg.dryRun /\ running'
      BY <1>3, <2>2 DEF NextStep, running
    <3>2. UNCHANGED todo
      BY <2>1, <3>1 DEF todo, cfg
    <3> QED BY <2>1, <3>1, <3>2 DEF Runs!vars
  <2>3. CASE phase' # "step"
    <3>1. UNCHANGED todo
      BY <1>3, <2>1, <2>3 DEF NextStep, todo, cfg
    <3> QED BY <2>1, <3>1 DEF Runs!Next, Runs!End, Runs!vars
  <2> QED BY <2>2, <2>3
<1>4. CASE AwaitMonitor
  <2>1. running /\ UNCHANGED <<todo, ran>>
    BY <1>4 DEF AwaitMonitor, running, todo, cfg
  <2> QED BY <2>1 DEF Runs!Next, Runs!End, Runs!vars
<1>5. CASE Asking \/ Hear
  <2>1. ~running /\ ~running' /\ UNCHANGED <<todo, ran>>
    BY <1>5 DEF Asking, QueryMonitors, QueryClients, QueryStatus, Hear, running, todo, cfg
  <2> QED BY <2>1 DEF Runs!vars
<1>6. CASE Desktop \/ UNCHANGED vars
  <2>1. UNCHANGED <<todo, ran, running>>
    BY <1>6, DesktopApart DEF Inv, running, todo, cfg
  <2> QED BY <2>1 DEF Runs!vars
<1> QED BY <1>1, <1>2, <1>3, <1>4, <1>5, <1>6 DEF Next, Running

\* Executor.hpp:108-117: the commands of a plan run in order, each once, and
\* none after one that failed or may not run.
THEOREM CommandImplementsPlanRun == Spec => ImplementsPlanRun
<1>1. Inv /\ Inv' /\ [Next]_vars => [Runs!Next]_(Runs!vars)
  BY NextRuns
<1> QED BY InitInv, NextInv, InitRuns, <1>1, PTL DEF Spec, ImplementsPlanRun, Runs!Spec
-----------------------------------------------------------------------------
(* The desktop as it is and as it was seen.                                *)

Place == DOMAIN NameWords \cup {None, Active}
MonitorsListed == [name : DOMAIN NameWords, x : Int, workspace : STRING \cup {None}]
ClientsListed ==
  [address : DOMAIN ClassWords, monitor : Place, mapped : BOOLEAN, focus : Nat]
OutputsListed == [name : DOMAIN NameWords, hovered : BOOLEAN]

\* A desktop as compositors have them: no two of its monitors are named alike,
\* and none of them has a name that is promised to another.
Ordinary(d) == d \in Desktops /\ distinct(d.mons) /\ unborn(d.mons, d.coming)

\* What the desktop is made of.
LEMMA OrdinaryFields ==
  ASSUME NEW d, d \in Desktops
  PROVE  /\ d.mons \in Seq(MonitorsListed)
         /\ d.clients \in Seq(ClientsListed)
         /\ d.status \in Seq(OutputsListed)
         /\ d.coming \in SUBSET DOMAIN NameWords
         /\ d.chosen \in Place
BY DEF Desktops, MonitorsListed, ClientsListed, OutputsListed, Place

\* One list, or the selection, or the promises may change and the rest stays.
LEMMA OrdinaryWith ==
  ASSUME NEW d, Ordinary(d)
  PROVE  /\ \A clients \in Seq(ClientsListed) : Ordinary([d EXCEPT !.clients = clients])
         /\ \A mon \in Place : Ordinary([d EXCEPT !.chosen = mon])
         /\ \A coming \in SUBSET DOMAIN NameWords :
              unborn(d.mons, coming) => Ordinary([d EXCEPT !.coming = coming])
BY DEF Ordinary, Desktops, ClientsListed, MonitorsListed, OutputsListed, Place

\* Moving the focus keeps a list of windows one.
LEMMA RefocusedListed ==
  ASSUME NEW clients \in Seq(ClientsListed), NEW address
  PROVE  refocused(clients, address) \in Seq(ClientsListed)
<1>1. DOMAIN clients = 1 .. Len(clients) /\ Len(clients) \in Nat
  OBVIOUS
<1>2. ASSUME NEW i \in 1 .. Len(clients)
      PROVE  [clients[i] EXCEPT !.focus = IF clients[i].address = address THEN 0 ELSE @ + 1]
               \in ClientsListed
  <2>1. clients[i] \in ClientsListed
    BY <1>1
  <2> QED BY <2>1 DEF ClientsListed
<1>3. refocused(clients, address)
        = [i \in 1 .. Len(clients) |->
             [clients[i] EXCEPT !.focus = IF clients[i].address = address THEN 0 ELSE @ + 1]]
  BY <1>1 DEF refocused
<1> QED BY <1>1, <1>2, <1>3, IsASeq

\* So does moving the focused one to a place.
LEMMA MovedListed ==
  ASSUME NEW clients \in Seq(ClientsListed), NEW mon \in Place
  PROVE  [i \in DOMAIN clients |-> IF clients[i].focus = 0
                                   THEN [clients[i] EXCEPT !.monitor = mon] ELSE clients[i]]
           \in Seq(ClientsListed)
<1>1. DOMAIN clients = 1 .. Len(clients) /\ Len(clients) \in Nat
  OBVIOUS
<1>2. ASSUME NEW i \in 1 .. Len(clients)
      PROVE  (IF clients[i].focus = 0 THEN [clients[i] EXCEPT !.monitor = mon] ELSE clients[i])
               \in ClientsListed
  <2>1. clients[i] \in ClientsListed
    BY <1>1
  <2> QED BY <2>1 DEF ClientsListed
<1> QED BY <1>1, <1>2, IsASeq

\* Leaving monitors out makes no two of them alike.
LEMMA DistinctLeft ==
  ASSUME NEW T, NEW mons \in Seq(T), distinct(mons), NEW X
  PROVE  distinct(without(mons, X))
<1> DEFINE w == without(mons, X)
<1>1. Left(w, T, mons, X, Len(mons))
  BY WithoutKeeps
<1> HIDE DEF w
<1>2. w \in Seq(T)
  BY <1>1 DEF Left
<1>3. PICK h : Embeds(w, mons, X, h, Len(mons))
  BY <1>1, Zenon DEF Left
<1>4. DOMAIN w = 1 .. Len(w) /\ DOMAIN mons = 1 .. Len(mons) /\ Len(w) \in Nat
  BY <1>2
<1>5. ASSUME NEW i \in DOMAIN w, NEW j \in DOMAIN w, w[i].name = w[j].name PROVE i = j
  <2>1. /\ h[i] \in DOMAIN mons /\ h[j] \in DOMAIN mons
        /\ w[i] = mons[h[i]] /\ w[j] = mons[h[j]]
    BY <1>3, <1>4 DEF Embeds
  <2>2. h[i] = h[j]
    BY <1>5, <2>1 DEF distinct
  <2>3. h[i] \in Int /\ h[j] \in Int /\ i \in Int /\ j \in Int
    BY <1>4, <2>1
  <2>4. ~(i < j) /\ ~(j < i)
    BY <1>3, <1>4, <2>2, <2>3 DEF Embeds
  <2> QED BY <2>3, <2>4
<1> QED BY <1>5 DEF distinct, w

\* A list of two parts: each place of it is one of the first or of the second.
Parts(all, a, n, b, k) ==
  /\ \E T : all \in Seq(T)
  /\ DOMAIN all = 1 .. n + k
  /\ \A i \in 1 .. n + k : \/ i \in 1 .. n /\ all[i] = a[i]
                           \/ i - n \in 1 .. k /\ all[i] = b[i - n]

\* Two lists joined are such a list.
LEMMA PartsOfList ==
  ASSUME NEW n \in Nat, NEW k \in Nat, NEW A, NEW B,
         NEW a \in [1 .. n -> A], NEW b \in [1 .. k -> B]
  PROVE  Parts(a \o b, a, n, b, k)
<1> DEFINE T == A \cup B
           all == a \o b
<1>1. (\A i \in 1 .. n : a[i] \in T) /\ (\A i \in 1 .. k : b[i] \in T)
  OBVIOUS
<1> HIDE DEF T
<1>2. a \in Seq(T) /\ Len(a) = n
  BY <1>1
<1>3. b \in Seq(T) /\ Len(b) = k
  BY <1>1
<1>4. /\ all \in Seq(T) /\ Len(all) = n + k
      /\ \A i \in 1 .. n + k : all[i] = IF i <= n THEN a[i] ELSE b[i - n]
  BY <1>2, <1>3, ConcatProperties
<1> HIDE DEF all
<1>5. DOMAIN all = 1 .. n + k
  BY <1>4
<1>6. ASSUME NEW i \in 1 .. n + k
      PROVE  \/ i \in 1 .. n /\ all[i] = a[i]
             \/ i - n \in 1 .. k /\ all[i] = b[i - n]
  <2>1. CASE i <= n
    BY <1>4, <2>1
  <2>2. CASE ~(i <= n)
    BY <1>4, <2>2
  <2> QED BY <2>1, <2>2
<1> QED BY <1>4, <1>5, <1>6 DEF Parts, all

\* What the three replies are joined to is a snapshot: of the outputs only those
\* that no monitor has the name of are added, and they show nothing.
LEMMA ParsedIsSnapshot ==
  ASSUME NEW mons \in Seq(MonitorsListed), distinct(mons),
         NEW clients \in Seq(ClientsListed), NEW status \in Seq(OutputsListed)
  PROVE  Snapshot(parse(mons, clients, status))
<1> DEFINE listed(s) == \E i \in DOMAIN mons : mons[i].name = s.name
           unseen == {c \in ToSet(clients) : ~c.mapped}
           twice == {s \in ToSet(status) : listed(s)}
           mapped == without(clients, unseen)
           extra == without(status, twice)
           a == [i \in DOMAIN mons |-> joined(mons[i], clients, status)]
           b == [i \in DOMAIN extra |-> onlyInStatus(extra[i])]
           w == [i \in DOMAIN mapped |-> [address |-> mapped[i].address, focus |-> mapped[i].focus]]
           n == Len(mons)
           k == Len(extra)
           m == Len(mapped)
           all == a \o b
<1>1. parse(mons, clients, status).monitors = all /\ parse(mons, clients, status).windows = w
  BY DEF parse
<1> HIDE DEF twice, unseen
<1>2. /\ extra \in Seq(OutputsListed)
      /\ \A j \in DOMAIN extra :
           extra[j] \notin twice /\ \E i \in DOMAIN status : extra[j] = status[i]
  BY WithoutOf
<1>3. mapped \in Seq(ClientsListed)
  BY WithoutOf
<1>4. ASSUME NEW j \in DOMAIN extra, NEW i \in DOMAIN mons PROVE mons[i].name # extra[j].name
  <2>1. extra[j] \in ToSet(status)
    BY <1>2 DEF ToSet
  <2> QED BY <1>2, <2>1 DEF twice
<1> HIDE DEF mapped, extra
<1>5. /\ n \in Nat /\ DOMAIN mons = 1 .. n /\ \A i \in 1 .. n : mons[i] \in MonitorsListed
      /\ k \in Nat /\ DOMAIN extra = 1 .. k /\ \A i \in 1 .. k : extra[i] \in OutputsListed
      /\ m \in Nat /\ DOMAIN mapped = 1 .. m /\ \A i \in 1 .. m : mapped[i] \in ClientsListed
  BY <1>2, <1>3
<1> DEFINE A == {a[i] : i \in 1 .. n}
           B == {b[i] : i \in 1 .. k}
<1>6. a \in [1 .. n -> A] /\ b \in [1 .. k -> B]
  BY <1>5
<1> HIDE DEF A, B
<1>7. ASSUME NEW i \in 1 .. n
      PROVE  a[i].name = mons[i].name /\ a[i].name \in DOMAIN NameWords /\ a[i].x \in Int
  <2>1. mons[i] \in MonitorsListed /\ a[i] = joined(mons[i], clients, status)
    BY <1>5
  <2> HIDE DEF a
  <2> QED BY <2>1 DEF joined, MonitorsListed
<1>8. ASSUME NEW i \in 1 .. k
      PROVE  /\ b[i].name = extra[i].name /\ b[i].content = {}
             /\ b[i].name \in DOMAIN NameWords /\ b[i].x \in Int
  <2>1. extra[i] \in OutputsListed /\ b[i] = onlyInStatus(extra[i])
    BY <1>5
  <2> HIDE DEF b
  <2> QED BY <2>1 DEF onlyInStatus, OutputsListed
<1>9. ASSUME NEW i \in 1 .. n, NEW j \in 1 .. k PROVE a[i].name # b[j].name
  BY <1>4, <1>5, <1>7, <1>8
<1>10. ASSUME NEW i \in 1 .. n, NEW j \in 1 .. n, a[i].name = a[j].name PROVE i = j
  BY <1>5, <1>7, <1>10 DEF distinct
<1> HIDE DEF a, b, n, k, m
<1>d. n \in Nat /\ k \in Nat
  BY <1>5
<1>e. Parts(all, a, n, b, k)
  BY <1>6, <1>d, PartsOfList
<1> HIDE DEF all
<1>11. /\ \E T : all \in Seq(T)
       /\ DOMAIN all = 1 .. n + k
       /\ \A i \in 1 .. n + k : \/ i \in 1 .. n /\ all[i] = a[i]
                                \/ i - n \in 1 .. k /\ all[i] = b[i - n]
  BY <1>e DEF Parts
<1>12. \A i \in DOMAIN all : all[i].name \in DOMAIN NameWords /\ all[i].x \in Int
  BY <1>7, <1>8, <1>11
<1>13. ASSUME NEW i \in DOMAIN all, NEW j \in DOMAIN all, all[i].name = all[j].name
       PROVE  all[i].content = all[j].content
  <2>1. CASE i \in 1 .. n /\ all[i] = a[i]
    <3>1. j \in 1 .. n /\ all[j] = a[j]
      BY <1>9, <1>11, <1>13, <2>1
    <3> QED BY <1>10, <1>13, <2>1, <3>1
  <2>2. CASE i - n \in 1 .. k /\ all[i] = b[i - n]
    <3>1. j - n \in 1 .. k /\ all[j] = b[j - n]
      BY <1>9, <1>11, <1>13, <2>2
    <3> QED BY <1>8, <2>2, <3>1
  <2> QED BY <1>11, <2>1, <2>2
<1>14. /\ DOMAIN w = 1 .. m
       /\ \A i \in 1 .. m : w[i].address \in DOMAIN ClassWords /\ w[i].focus \in Nat
  <2>1. \A i \in 1 .. m : mapped[i].address \in DOMAIN ClassWords /\ mapped[i].focus \in Nat
    BY <1>5 DEF ClientsListed
  <2> QED BY <1>5, <2>1
<1>15. w \in Seq({w[i] : i \in 1 .. m})
  <2>1. w = [i \in 1 .. m |-> w[i]]
    BY <1>5
  <2> HIDE DEF w
  <2> QED BY <1>5, <2>1
<1> HIDE DEF w
<1>16. \E T : w \in Seq(T)
  BY <1>15
<1> QED BY <1>1, <1>11, <1>12, <1>13, <1>14, <1>16 DEF Snapshot
-----------------------------------------------------------------------------
(* What was resolved, it was resolved from this snapshot.                  *)

\* The desktop and the replies are those of a compositor, the snapshot is one
\* of them, and the action and the plan come from it and from what was said.
Grounded ==
  /\ now.says \in Seq(Utterance)
  /\ Ordinary(desk)
  /\ reply \in [mons : Seq(MonitorsListed), clients : Seq(ClientsListed)]
  /\ distinct(reply.mons)
  /\ Snapshot(ctx)
  /\ Resolved => /\ action = resolve(said.t, said.ring, ctx)
                 /\ plan = planFor(action, ctx, cfg)

\* Before any answer the snapshot is empty.
LEMMA NothingIsSnapshot == Snapshot(NoContext)
<1> DEFINE none == <<>>
<1>1. \A T : none \in Seq(T)
  BY NothingOf
<1>2. NoContext = [monitors |-> none, windows |-> none]
  BY DEF NoContext
<1>3. DOMAIN none = {}
  OBVIOUS
<1> HIDE DEF none
<1> QED BY <1>1, <1>2, <1>3 DEF Snapshot

\* A query that failed answers with no two monitors alike.
LEMMA NoneDistinct == distinct(<<>>)
BY DEF distinct

\* The situations are those of a compositor, and nothing is resolved yet.
LEMMA InitGrounded == Init => Grounded
<1> SUFFICES ASSUME Init PROVE Grounded
  OBVIOUS
<1>1. PICK s \in Situations : now = [cfg |-> s.cfg, says |-> s.says] /\ desk = s.desk
  BY DEF Init
<1>2. now.says \in Seq(Utterance) /\ Ordinary(desk)
  BY <1>1, SituationsAssumption DEF Ordinary
<1> DEFINE none == <<>>
<1>a. reply = [mons |-> none, clients |-> none] /\ ctx = NoContext /\ phase = "monitors"
  BY Zenon DEF Init
<1>b. distinct(none) /\ \A T : none \in Seq(T)
  BY NothingOf, NoneDistinct
<1> HIDE DEF none
<1>3. reply.mons = none /\ reply.clients = none
  BY <1>a
<1>4. reply \in [mons : Seq(MonitorsListed), clients : Seq(ClientsListed)]
  BY <1>a, <1>b
<1>5. distinct(reply.mons)
  BY <1>3, <1>b
<1>6. Snapshot(ctx)
  BY <1>a, NothingIsSnapshot
<1>7. ~Resolved
  BY <1>a DEF Resolved
<1> QED BY <1>2, <1>4, <1>5, <1>6, <1>7 DEF Grounded

\* A command moves things to places that are known.
LEMMA StepKnowsPlace ==
  ASSUME Inv, Snapshot(ctx), phase = "run", step.cmd \in {"movewindow", "select"}
  PROVE  step.mon \in Place
<1>1. step.mon \in {None, Active} \/ hasMonitor(ctx, step.mon)
  BY StepAllowed DEF Allowed
<1> QED BY <1>1 DEF Place, Snapshot, hasMonitor

\* A command leaves the desktop an ordinary one.
LEMMA EffectOrdinary ==
  ASSUME Inv, Grounded, phase = "run", possible(step)
  PROVE  Ordinary(effect(step))
<1>1. /\ desk.clients \in Seq(ClientsListed) /\ desk.coming \in SUBSET DOMAIN NameWords
      /\ Ordinary(desk)
  BY OrdinaryFields DEF Grounded, Ordinary
<1>2. \A address : refocused(desk.clients, address) \in Seq(ClientsListed)
  BY <1>1, RefocusedListed
<1>3. CASE step.cmd = "focuswindow"
  BY <1>1, <1>2, <1>3, OrdinaryWith DEF effect
<1>4. CASE step.cmd = "focusmonitor"
  <2> DEFINE address == lastUsed(onMonitor(desk.clients, step.mon))
  <2>1. effect(step) = [desk EXCEPT !.clients = refocused(desk.clients, address)]
    BY <1>4 DEF effect
  <2> HIDE DEF address
  <2> QED BY <1>1, <1>2, <2>1, OrdinaryWith
<1>5. CASE step.cmd = "movewindow"
  <2> DEFINE moved == [i \in DOMAIN desk.clients |->
                         IF desk.clients[i].focus = 0
                         THEN [desk.clients[i] EXCEPT !.monitor = step.mon] ELSE desk.clients[i]]
  <2>1. step.mon \in Place
    BY <1>5, StepKnowsPlace DEF Grounded
  <2>2. moved \in Seq(ClientsListed)
    BY <1>1, <2>1, MovedListed
  <2>3. effect(step) = [desk EXCEPT !.clients = moved]
    BY <1>5 DEF effect
  <2> HIDE DEF moved
  <2> QED BY <1>1, <2>2, <2>3, OrdinaryWith
<1>6. CASE step.cmd = "create"
  <2>1. step.mon \in ToSet(Creatable)
    BY <1>6, StepAllowed DEF validateStep
  <2>2. step.mon \in DOMAIN NameWords
    BY <2>1, NamesAssumption DEF ToSet
  <2>3. step.mon \notin liveMonitors
    BY <1>6 DEF possible
  <2> DEFINE coming == desk.coming \cup {step.mon}
  <2>4. unborn(desk.mons, coming)
    BY <1>1, <2>3 DEF Ordinary, unborn, liveMonitors
  <2>5. effect(step) = [desk EXCEPT !.coming = coming]
    BY <1>6 DEF effect
  <2>6. coming \in SUBSET DOMAIN NameWords
    BY <1>1, <2>2
  <2> HIDE DEF coming
  <2> QED BY <1>1, <2>4, <2>5, <2>6, OrdinaryWith
<1>7. CASE step.cmd = "select"
  <2>1. step.mon \in Place
    BY <1>7, StepKnowsPlace DEF Grounded
  <2>2. effect(step) = [desk EXCEPT !.chosen = step.mon]
    BY <1>7 DEF effect
  <2> QED BY <1>1, <2>1, <2>2, OrdinaryWith
<1>8. CASE step.cmd \notin {"focuswindow", "focusmonitor", "movewindow", "create", "select"}
  <2>1. effect(step) = desk
    BY <1>8 DEF effect
  <2> QED BY <1>1, <2>1
<1> QED BY <1>3, <1>4, <1>5, <1>6, <1>7, <1>8

\* So does everything else that happens to it.
LEMMA DesktopOrdinary ==
  ASSUME Ordinary(desk), Desktop \/ UNCHANGED vars PROVE Ordinary(desk')
<1>1. /\ desk.mons \in Seq(MonitorsListed)
      /\ desk.clients \in Seq(ClientsListed)
      /\ desk.status \in Seq(OutputsListed)
      /\ desk.coming \in SUBSET DOMAIN NameWords
      /\ distinct(desk.mons) /\ unborn(desk.mons, desk.coming)
  BY OrdinaryFields DEF Ordinary
<1>2. CASE WindowCloses
  <2>1. PICK address : desk' = [desk EXCEPT !.clients =
                                  without(@, {c \in ToSet(@) : c.address = address})]
    BY <1>2 DEF WindowCloses, Meddle
  <2> DEFINE kept == without(desk.clients, {c \in ToSet(desk.clients) : c.address = address})
  <2>2. kept \in Seq(ClientsListed)
    BY <1>1, WithoutOf
  <2>3. desk' = [desk EXCEPT !.clients = kept]
    BY <2>1
  <2> HIDE DEF kept
  <2> QED BY <2>2, <2>3, OrdinaryWith
<1>3. CASE FocusMoves
  <2>1. PICK address : desk' = [desk EXCEPT !.clients = refocused(@, address)]
    BY <1>3 DEF FocusMoves, Meddle
  <2>2. refocused(desk.clients, address) \in Seq(ClientsListed)
    BY <1>1, RefocusedListed
  <2>3. desk' = [desk EXCEPT !.clients = refocused(desk.clients, address)]
    BY <2>1
  <2> QED BY <2>2, <2>3, OrdinaryWith
<1>4. CASE SelectionMoves
  <2>1. PICK mon \in liveMonitors : desk' = [desk EXCEPT !.chosen = mon]
    BY <1>4 DEF SelectionMoves, Meddle
  <2>2. PICK i \in DOMAIN desk.mons : mon = desk.mons[i].name
    BY DEF liveMonitors
  <2>3. desk.mons[i] \in MonitorsListed
    BY <1>1
  <2>4. mon \in Place
    BY <2>2, <2>3 DEF Place, MonitorsListed
  <2> QED BY <2>1, <2>4, OrdinaryWith
<1>5. CASE MonitorGoes
  <2>1. PICK mon : desk' = [desk EXCEPT !.mons = without(@, {m \in ToSet(@) : m.name = mon}),
                                        !.status = without(@, {s \in ToSet(@) : s.name = mon})]
    BY <1>5 DEF MonitorGoes, Meddle
  <2> DEFINE gone == {m \in ToSet(desk.mons) : m.name = mon}
             off == {s \in ToSet(desk.status) : s.name = mon}
             mons == without(desk.mons, gone)
             status == without(desk.status, off)
  <2>2. desk' = [desk EXCEPT !.mons = mons, !.status = status]
    BY <2>1
  <2> HIDE DEF gone, off
  <2>3. /\ mons \in Seq(MonitorsListed)
        /\ \A j \in DOMAIN mons : \E i \in DOMAIN desk.mons : mons[j] = desk.mons[i]
    BY <1>1, WithoutOf
  <2>4. status \in Seq(OutputsListed)
    BY <1>1, WithoutOf
  <2>5. distinct(mons)
    BY <1>1, DistinctLeft
  <2> HIDE DEF mons, status
  <2>6. unborn(mons, desk.coming)
    BY <1>1, <2>3 DEF unborn
  <2>7. /\ desk' \in Desktops /\ desk'.mons = mons /\ desk'.coming = desk.coming
    BY <2>2, <2>3, <2>4 DEF Ordinary, Desktops, MonitorsListed, OutputsListed
  <2> QED BY <2>5, <2>6, <2>7 DEF Ordinary
<1>6. CASE MonitorRegisters
  <2>1. PICK mon \in desk.coming :
          desk' = [desk EXCEPT !.coming = @ \ {mon},
                               !.mons = Append(@, [name |-> mon, x |-> 0, workspace |-> None]),
                               !.status = Append(@, [name |-> mon, hovered |-> FALSE])]
    BY <1>6 DEF MonitorRegisters
  <2> DEFINE new == [name |-> mon, x |-> 0, workspace |-> None]
             out == [name |-> mon, hovered |-> FALSE]
             mons == Append(desk.mons, new)
             status == Append(desk.status, out)
             n == Len(desk.mons)
  <2>2. new \in MonitorsListed /\ out \in OutputsListed /\ new.name = mon
    <3>1. mon \in DOMAIN NameWords
      BY <1>1
    <3> QED BY <3>1 DEF MonitorsListed, OutputsListed
  <2>3. desk' = [desk EXCEPT !.coming = desk.coming \ {mon}, !.mons = mons, !.status = status]
    BY <2>1
  <2> HIDE DEF new, out
  <2>4. /\ mons \in Seq(MonitorsListed) /\ status \in Seq(OutputsListed)
        /\ n \in Nat /\ DOMAIN desk.mons = 1 .. n /\ DOMAIN mons = 1 .. n + 1
        /\ mons[n + 1] = new /\ \A i \in 1 .. n : mons[i] = desk.mons[i]
    BY <1>1, <2>2
  <2> HIDE DEF mons, status, n
  <2>5. \A i \in 1 .. n + 1 : i \in 1 .. n \/ i = n + 1
    BY <2>4
  <2>6. \A i \in 1 .. n : mons[i].name # mon
    BY <1>1, <2>4 DEF unborn
  <2>7. distinct(mons)
    BY <1>1, <2>2, <2>4, <2>5, <2>6 DEF distinct
  <2>8. unborn(mons, desk.coming \ {mon})
    BY <1>1, <2>2, <2>4, <2>5 DEF unborn
  <2>9. desk' \in Desktops /\ desk'.mons = mons /\ desk'.coming = desk.coming \ {mon}
    BY <1>1, <2>3, <2>4 DEF Ordinary, Desktops, MonitorsListed, OutputsListed
  <2> QED BY <2>7, <2>8, <2>9 DEF Ordinary
<1>7. CASE UNCHANGED vars
  BY <1>7 DEF vars
<1> QED BY <1>2, <1>3, <1>4, <1>5, <1>6, <1>7 DEF Desktop

\* Only a query of the first two changes a reply, only the third the snapshot.
LEMMA RepliesApart ==
  ASSUME [Next]_vars
  PROVE  /\ UNCHANGED now
         /\ QueryMonitors \/ QueryClients \/ UNCHANGED reply
         /\ QueryStatus \/ UNCHANGED ctx
         /\ RunStep \/ Desktop \/ UNCHANGED vars \/ UNCHANGED desk
<1>1. CASE Asking
  BY <1>1 DEF Asking, QueryMonitors, QueryClients, QueryStatus
<1>2. CASE Resolve \/ Running \/ Hear
  BY <1>2 DEF Resolve, Running, NextStep, AwaitMonitor, RunStep, Hear
<1>3. CASE Desktop
  <2>1. UNCHANGED <<now, reply, ctx>>
    BY <1>3 DEF Desktop, WindowCloses, FocusMoves, SelectionMoves, MonitorGoes, MonitorRegisters,
                Meddle
  <2> QED BY <1>3, <2>1
<1>4. CASE UNCHANGED vars
  BY <1>4 DEF vars
<1> QED BY <1>1, <1>2, <1>3, <1>4 DEF Next

\* A step keeps the desktop ordinary and the replies its lists; the third query joins
\* them, and resolving uses what was joined.
LEMMA NextGrounded ==
  ASSUME Inv, Grounded, [Next]_vars PROVE Grounded'
<1>1. now' = now
  BY RepliesApart
<1>2. Ordinary(desk')
  <2>1. CASE RunStep
    <3>1. phase = "run" /\ Ordinary(desk)
      BY <2>1 DEF RunStep, Grounded
    <3>2. desk' = desk \/ (possible(step) /\ desk' = effect(step))
      BY <2>1, Zenon DEF RunStep
    <3> QED BY <3>1, <3>2, EffectOrdinary
  <2>2. CASE Desktop \/ UNCHANGED vars
    BY <2>2, DesktopOrdinary DEF Grounded
  <2>3. CASE UNCHANGED desk
    BY <2>3 DEF Grounded
  <2> QED BY <2>1, <2>2, <2>3, RepliesApart
<1>3. /\ reply.mons \in Seq(MonitorsListed) /\ distinct(reply.mons)
      /\ reply.clients \in Seq(ClientsListed)
      /\ desk.mons \in Seq(MonitorsListed) /\ distinct(desk.mons)
      /\ desk.clients \in Seq(ClientsListed)
  BY OrdinaryFields DEF Grounded, Ordinary
<1>4. reply' \in [mons : Seq(MonitorsListed), clients : Seq(ClientsListed)] /\ distinct(reply'.mons)
  <2>1. CASE QueryMonitors
    <3> DEFINE none == <<>>
    <3>1. none \in Seq(MonitorsListed) /\ distinct(none)
      BY NothingOf, NoneDistinct
    <3>2. PICK got \in {desk.mons, none} : reply' = [reply EXCEPT !.mons = got]
      BY <2>1, Zenon DEF QueryMonitors
    <3> HIDE DEF none
    <3>3. got \in Seq(MonitorsListed) /\ distinct(got)
      BY <1>3, <3>1, <3>2
    <3> QED BY <3>2, <3>3 DEF Grounded
  <2>2. CASE QueryClients
    <3> DEFINE none == <<>>
    <3>1. none \in Seq(ClientsListed)
      BY NothingOf
    <3>2. PICK got \in {desk.clients, none} : reply' = [reply EXCEPT !.clients = got]
      BY <2>2, Zenon DEF QueryClients
    <3> HIDE DEF none
    <3>3. got \in Seq(ClientsListed)
      BY <1>3, <3>1, <3>2
    <3> QED BY <3>2, <3>3 DEF Grounded
  <2>3. CASE UNCHANGED reply
    BY <2>3 DEF Grounded
  <2> QED BY <2>1, <2>2, <2>3, RepliesApart
<1>5. Snapshot(ctx')
  <2>1. CASE QueryStatus
    <3> DEFINE none == <<>>
    <3>1. none \in Seq(OutputsListed)
      BY NothingOf
    <3>2. desk.status \in Seq(OutputsListed)
      BY OrdinaryFields DEF Grounded, Ordinary
    <3>3. PICK got \in {desk.status, none} : ctx' = parse(reply.mons, reply.clients, got)
      BY <2>1, Zenon DEF QueryStatus
    <3> HIDE DEF none
    <3>4. got \in Seq(OutputsListed)
      BY <3>1, <3>2, <3>3
    <3> QED BY <1>3, <3>3, <3>4, ParsedIsSnapshot
  <2>2. CASE UNCHANGED ctx
    BY <2>2 DEF Grounded
  <2> QED BY <2>1, <2>2, RepliesApart
<1>6. Resolved' => /\ action' = resolve(said.t, said.ring, ctx)'
                   /\ plan' = planFor(action, ctx, cfg)'
  <2>1. CASE Resolve
    BY <2>1 DEF Resolve, said, cfg
  <2>2. CASE Running \/ Desktop \/ UNCHANGED vars
    <3>1. UNCHANGED <<now, turn, ctx, action, plan>> /\ (Resolved' => Resolved)
      <4>1. CASE Running
        BY <4>1 DEF Running, NextStep, AwaitMonitor, RunStep, Resolved
      <4>2. CASE Desktop
        BY <4>2 DEF Desktop, WindowCloses, FocusMoves, SelectionMoves, MonitorGoes,
                    MonitorRegisters, Meddle, Resolved
      <4>3. CASE UNCHANGED vars
        BY <4>3 DEF vars, Resolved
      <4> QED BY <2>2, <4>1, <4>2, <4>3
    <3> QED BY <3>1 DEF Grounded, said, cfg
  <2>3. CASE Asking \/ Hear
    <3>1. ~Resolved'
      BY <2>3 DEF Asking, QueryMonitors, QueryClients, QueryStatus, Hear, Resolved
    <3> QED BY <3>1
  <2> QED BY <2>1, <2>2, <2>3 DEF Next
<1> QED BY <1>1, <1>2, <1>4, <1>5, <1>6 DEF Grounded

\* Both invariants hold throughout.
LEMMA AlwaysGrounded == Spec => [](Inv /\ Grounded)
<1>1. Inv /\ Grounded /\ [Next]_vars => Inv' /\ Grounded'
  BY NextInv, NextGrounded
<1> QED BY InitInv, InitGrounded, <1>1, PTL DEF Spec

\* What holds of any resolution against any snapshot holds of this one.
LEMMA WhatWasResolved ==
  ASSUME Inv, Grounded, Resolved
  PROVE  /\ said.t.words \in Seq(STRING)
         /\ said.ring \in Seq(Look) \ {<<>>}
         /\ Outcome(action, detect(said.t), said.ring, ctx)
<1>1. said \in Utterance
  BY DEF Inv, Placed, Grounded, said
<1>2. said.t.words \in Seq(STRING)
  BY <1>1 DEF Utterance
<1>3. said.ring \in Seq(Look) \ {<<>>}
  BY <1>1 DEF Utterance
<1>4. Snapshot(ctx) /\ action = resolve(said.t, said.ring, ctx)
  BY DEF Grounded
<1> QED BY <1>2, <1>3, <1>4, ActionsAreGrounded

\* What the intent tier found, the executor finds: both look at one snapshot
\* (Intent.cpp:804-1183, Executor.cpp:49-55, 131-459).  What is refused as gone
\* is what the gaze named when it had selected nothing.
THEOREM CommandResolvedIsLive == Spec => []ResolvedIsLive
<1>1. ASSUME Inv, Grounded, Resolved, plan.why = "not live"
      PROVE  action.source = "deixis" /\ vote(gazeAt(said.ring, action.gaze.at)) < 0
  <2>1. /\ action.verb \in Verbs
        /\ Reachable(action, ctx) \/ Unselected(action, said.ring)
    BY <1>1, WhatWasResolved DEF Inv, Acts, Outcome
  <2>2. plan = planFor(action, ctx, cfg)
    BY <1>1 DEF Grounded
  <2>3. ~Reachable(action, ctx)
    BY <1>1, <2>1, <2>2, NotRefusedAsGone
  <2> QED BY <2>1, <2>3 DEF Unselected
<1>2. Inv /\ Grounded => ResolvedIsLive
  BY <1>1 DEF ResolvedIsLive
<1> QED BY AlwaysGrounded, <1>2, PTL

\* "the active one" takes one of these words; "focus" is a command's.
LEMMA ActiveWasSaid ==
  ASSUME NEW T, NEW u \in Seq(T), namesActiveTarget(content(u))
  PROVE  says(u, {"active", "focused", "current", "selected"})
<1> DEFINE w == content(u)
<1>1. /\ w \in Seq(T)
      /\ \A j \in DOMAIN w : w[j] \notin CommandWords /\ \E i \in DOMAIN u : w[j] = u[i]
  BY WithoutOf DEF content
<1>2. PICK j \in DOMAIN w : w[j] \in {"active", "focused", "focus", "current", "selected"}
  BY DEF namesActiveTarget, says, ToSet
<1>3. w[j] # "focus"
  <2>1. "focus" \in CommandWords
    BY DEF CommandWords
  <2> QED BY <1>1, <2>1
<1>4. PICK i \in DOMAIN u : w[j] = u[i]
  BY <1>1
<1> HIDE DEF w
<1>5. u[i] \in {"active", "focused", "current", "selected"}
  BY <1>2, <1>3, <1>4
<1> QED BY <1>5 DEF says, ToSet

\* finalizeAction (Intent.cpp:1095-1183): "this" is never answered by the pointer or
\* the selection, whatever else was said and wherever the user looked.
THEOREM CommandPointedOrAsked == Spec => []PointedOrAsked
<1>1. ASSUME Inv, Grounded, Resolved, action.verb \in MonitorVerbs, points(said.t.words)
      PROVE  \/ action.source = "deixis"
                  /\ action.target \in namedAt(detect(said.t).wordAt, said.ring)
             \/ action.source = "semantic" /\ fitted(action.target, detect(said.t).target, ctx)
             \/ says(said.t.words, {"active", "focused", "current", "selected"})
  <2> DEFINE r == detect(said.t)
  <2>1. Outcome(action, r, said.ring, ctx) /\ said.t.words \in Seq(STRING)
    BY <1>1, WhatWasResolved
  <2>2. /\ r.verb \in Subjects => r.target = content(said.t.words)
        /\ says(said.t.words, MonitorWords) /\ ~says(said.t.words, PlaceWords) =>
             r.deictic /\ ~r.isPlace
    BY <2>1, DetectNotes
  <2> HIDE DEF r
  <2>3. action.verb = r.verb /\ r.verb \in Subjects
    BY <1>1, <2>1 DEF Outcome, MonitorVerbs, Subjects
  <2>4. deixisIsSubject(r)
    BY <1>1, <2>2 DEF points, deixisIsSubject
  <2>5. WasMeant(action, r, said.ring, ctx)
    BY <2>1 DEF Outcome
  <2>7. Fits(action.target, r.target, ctx) => fitted(action.target, r.target, ctx)
    BY DEF Fits, fitted, ToSet
  <2>8. LookedAt(action.target, r.wordAt, said.ring)
          => action.target \in namedAt(r.wordAt, said.ring)
    BY DEF LookedAt, namedAt
  <2>6. namesActiveTarget(r.target) =>
          says(said.t.words, {"active", "focused", "current", "selected"})
    BY <2>1, <2>2, <2>3, ActiveWasSaid
  <2> QED BY <2>3, <2>4, <2>5, <2>6, <2>7, <2>8 DEF WasMeant, r
<1>2. Inv /\ Grounded => PointedOrAsked
  BY <1>1 DEF PointedOrAsked
<1> QED BY AlwaysGrounded, <1>2, PTL

\* resolveMonitor (DesktopContext.cpp:263-373): of monitors that fit a phrase
\* equally well none is picked, for any names, windows and words.
THEOREM CommandNothingPickedAmongEquals == Spec => []NothingPickedAmongEquals
<1>1. ASSUME Inv, Grounded, Resolved, action.verb \in {"move_window", "move_workspace"},
             action.source = "named",
             NEW m \in ToSet(ctx.monitors), NEW n \in ToSet(ctx.monitors),
             m.name = action.target, n.name # action.target
      PROVE  monitorScore(meaning(detect(said.t).monitor), m, ctx)
               > monitorScore(meaning(detect(said.t).monitor), n, ctx)
  <2> DEFINE r == detect(said.t)
             phrase == r.monitor
             mon == resolveMonitor(ctx, phrase)
  <2>1. Outcome(action, r, said.ring, ctx) /\ said.t.words \in Seq(STRING)
    BY <1>1, WhatWasResolved
  <2>2. phrase \in Seq(STRING)
    BY <2>1, DetectNotes DEF Noted
  <2> HIDE DEF r
  <2>3. mon.matched /\ mon.candidates = {} /\ mon.name = action.target
    BY <1>1, <2>1 DEF Outcome, SingledOut
  <2> HIDE DEF mon
  <2>4. PICK i \in DOMAIN ctx.monitors : m = ctx.monitors[i]
    BY DEF ToSet
  <2>5. PICK j \in DOMAIN ctx.monitors : n = ctx.monitors[j]
    BY DEF ToSet
  <2>6. Snapshot(ctx)
    BY <1>1 DEF Grounded
  <2> HIDE DEF phrase
  <2>7. ctx.monitors[i].name = mon.name /\ ctx.monitors[j].name # mon.name
    BY <1>1, <2>3, <2>4, <2>5
  <2>8. monitorScore(meaning(phrase), ctx.monitors[i], ctx)
          > monitorScore(meaning(phrase), ctx.monitors[j], ctx)
    BY <2>2, <2>3, <2>6, <2>7, PickedFitsBest DEF mon
  <2> QED BY <2>4, <2>5, <2>8 DEF phrase, r
<1>2. Inv /\ Grounded => NothingPickedAmongEquals
  BY <1>1 DEF NothingPickedAmongEquals
<1> QED BY AlwaysGrounded, <1>2, PTL

\* What resolveDeixis decided from the answers is backed by them.
LEMMA DecidedIsBacked ==
  ASSUME NEW word \in Int, said.ring \in Seq(Look) \ {<<>>}, NEW gaze, gaze.valid,
         gaze = resolveDeixis(word, said.ring, ctx)
  PROVE  backed(gaze, answers(word, said.ring)) /\ gaze.place >= PlaceFloor
<1> DEFINE got == answers(word, said.ring)
<1>1. Decided(gaze, ctx, said.ring, got)
  BY GazeIsDecided
<1>2. PICK n \in Nat : Answered(got, said.ring, n)
  BY AnswersAre
<1> HIDE DEF got
<1>3. PICK m : /\ vote(gazeAt(said.ring, gaze.at)) = m
               /\ \A i \in votesFor(m, got) : got[i].at <= gaze.at
               /\ \A i \in DOMAIN got :
                    Cardinality(votesFor(vote(got[i].look), got)) <= Cardinality(votesFor(m, got))
               /\ gaze.stable <=> Cardinality(votesFor(m, got)) * 2 > Cardinality(DOMAIN got)
               /\ gaze.place >= PlaceFloor
  BY <1>1 DEF Decided
<1>4. Cardinality(votesFor(m, got)) \in Nat /\ Cardinality(DOMAIN got) \in Nat
  BY <1>2, VotesCount
<1>5. gaze.stable <=>
        Cardinality(votesFor(m, got)) > Cardinality(DOMAIN got) - Cardinality(votesFor(m, got))
  BY <1>3, <1>4
<1>6. backed(gaze, got)
  BY <1>3, <1>5 DEF backed
<1> QED BY <1>3, <1>6 DEF got

\* resolveDeixis (GazeResolver.cpp:151-258): the pose that a plan places by is the
\* latest of the majority's, for every ring of poses and every word.
THEOREM CommandGazeIsFresh == Spec => []GazeIsFresh
<1>1. ASSUME Inv, Grounded, Resolved, action.gaze.valid
      PROVE  /\ \A r \in {detect(said.t)} :
                  backed(action.gaze, answers(IF r.deictic THEN r.wordAt ELSE 1, said.ring))
             /\ action.gaze.place >= PlaceFloor
  <2> DEFINE r == detect(said.t)
             word == IF r.deictic THEN r.wordAt ELSE 1
  <2>1. /\ Outcome(action, r, said.ring, ctx)
        /\ said.t.words \in Seq(STRING) /\ said.ring \in Seq(Look) \ {<<>>}
    BY <1>1, WhatWasResolved
  <2>2. r.wordAt \in Int
    BY <2>1, DetectNotes DEF Noted
  <2> HIDE DEF r
  <2>3. word \in Int
    BY <2>2
  <2>4. action.gaze # NoGaze
    BY <1>1 DEF NoGaze
  <2>5. action.gaze = resolveDeixis(word, said.ring, ctx)
    BY <2>1, <2>4 DEF Outcome, SeenAtTheWord
  <2> HIDE DEF word
  <2>6. backed(action.gaze, answers(word, said.ring)) /\ action.gaze.place >= PlaceFloor
    BY <1>1, <2>1, <2>3, <2>5, DecidedIsBacked
  <2> QED BY <2>6 DEF word, r
<1>2. Inv /\ Grounded => GazeIsFresh
  BY <1>1 DEF GazeIsFresh
<1> QED BY AlwaysGrounded, <1>2, PTL
-----------------------------------------------------------------------------
(* What the commands act on.                                               *)

\* What the first command chose is still chosen while the plan is run, unless
\* somebody else changed the desktop: the focus and the selection are the
\* program's until then.
Aimed ==
  running /\ ~meddled /\ ~cfg.dryRun /\ at > 1 =>
    /\ plan.steps[1].cmd = "focuswindow" => \A c \in focused : c.address = plan.steps[1].win
    /\ plan.steps[1].cmd = "focusmonitor" =>
         \A c \in focused : \E d \in ToSet(desk.clients) :
           d.address = c.address /\ d.monitor = plan.steps[1].mon
    /\ plan.steps[1].cmd = "select" => desk.chosen = plan.steps[1].mon

\* What was resolved is carried out on what it is about.
LEMMA PlanAimsAt ==
  ASSUME Inv, Grounded, Resolved PROVE Aims(plan.steps, action)
<1>1. action = resolve(said.t, said.ring, ctx) /\ plan = planFor(action, ctx, cfg)
  BY DEF Grounded
<1>2. OneSubject(action, ctx)
  BY <1>1, ActionsHaveOneSubject
<1> QED BY <1>1, <1>2, PlanAims

\* Each window stays the one it was, where it was, and only those of the address
\* have the focus.
LEMMA RefocusedAre ==
  ASSUME NEW clients \in Seq(ClientsListed), NEW address,
         NEW c \in ToSet(refocused(clients, address))
  PROVE  /\ c.focus = 0 => c.address = address
         /\ \E d \in ToSet(clients) : d.address = c.address /\ d.monitor = c.monitor
<1>1. PICK i \in DOMAIN clients :
        c = [clients[i] EXCEPT !.focus = IF clients[i].address = address THEN 0 ELSE @ + 1]
  BY DEF refocused, ToSet
<1>2. clients[i] \in ClientsListed /\ clients[i] \in ToSet(clients)
  BY DEF ToSet
<1>3. c.address = clients[i].address /\ c.monitor = clients[i].monitor
  BY <1>1, <1>2 DEF ClientsListed
<1>4. c.focus = 0 => clients[i].address = address
  BY <1>1, <1>2 DEF ClientsListed
<1> QED BY <1>2, <1>3, <1>4

\* None is lost.
LEMMA RefocusedKeeps ==
  ASSUME NEW clients \in Seq(ClientsListed), NEW address, NEW d \in ToSet(clients)
  PROVE  \E c \in ToSet(refocused(clients, address)) :
           c.address = d.address /\ c.monitor = d.monitor
<1>1. PICK i \in DOMAIN clients : d = clients[i] /\ clients[i] \in ClientsListed
  BY DEF ToSet
<1> DEFINE c == [clients[i] EXCEPT !.focus = IF clients[i].address = address THEN 0 ELSE @ + 1]
<1>2. c.address = d.address /\ c.monitor = d.monitor
  BY <1>1 DEF ClientsListed
<1>3. c \in ToSet(refocused(clients, address))
  BY DEF refocused, ToSet
<1> HIDE DEF c
<1> QED BY <1>2, <1>3

\* The window last used on a monitor is on it.
LEMMA LastUsedIsThere ==
  ASSUME NEW clients \in Seq(ClientsListed), NEW mon
  PROVE  \/ lastUsed(onMonitor(clients, mon)) = None
         \/ \E d \in ToSet(clients) :
              d.address = lastUsed(onMonitor(clients, mon)) /\ d.monitor = mon
<1> DEFINE X == {c \in ToSet(clients) : c.monitor # mon}
           w == onMonitor(clients, mon)
<1>1. /\ w \in Seq(ClientsListed)
      /\ \A j \in DOMAIN w : w[j] \notin X /\ \E i \in DOMAIN clients : w[j] = clients[i]
  <2>1. w = without(clients, X)
    BY DEF onMonitor
  <2> HIDE DEF w, X
  <2> QED BY <2>1, WithoutOf
<1> HIDE DEF w
<1>2. ASSUME NEW j \in DOMAIN w PROVE w[j] \in ToSet(clients) /\ w[j].monitor = mon
  <2>1. w[j] \in ToSet(clients)
    BY <1>1 DEF ToSet
  <2>2. w[j] \notin X
    BY <1>1
  <2> HIDE DEF w
  <2> QED BY <2>1, <2>2
<1> HIDE DEF X
<1>a. \A j \in DOMAIN w : w[j].focus \in Nat
  <2>1. \A j \in DOMAIN w : w[j] \in ClientsListed
    BY <1>1
  <2> QED BY <2>1 DEF ClientsListed
<1>3. CASE w = <<>>
  BY <1>3 DEF lastUsed, w
<1>4. CASE w # <<>>
  <2> DEFINE g == [i \in DOMAIN w |-> w[i].focus]
  <2>1. DOMAIN w = 1 .. Len(w) /\ Len(w) \in Nat /\ DOMAIN w # {}
    BY <1>1, <1>4
  <2>2. \A i \in DOMAIN w : g[i] = w[i].focus /\ g[i] \in Int
    BY <1>a
  <2> HIDE DEF g
  <2>3. PICK i \in DOMAIN w : \A j \in DOMAIN w : g[i] <= g[j]
    BY <2>1, <2>2, Least
  <2>4. \E c \in ToSet(w) : \A d \in ToSet(w) : c.focus <= d.focus
    BY <2>2, <2>3 DEF ToSet
  <2> DEFINE o == CHOOSE c \in ToSet(w) : \A d \in ToSet(w) : c.focus <= d.focus
  <2>5. o \in ToSet(w)
    BY <2>4
  <2>6. lastUsed(w) = o.address
    BY <1>4 DEF lastUsed
  <2> HIDE DEF o
  <2>7. o \in ToSet(clients) /\ o.monitor = mon
    BY <1>2, <2>5 DEF ToSet
  <2> QED BY <2>6, <2>7 DEF w
<1> QED BY <1>3, <1>4

\* While the plan is run nothing but a command, or the output of one, changes
\* the desktop unnoticed.
LEMMA DeskAlone ==
  ASSUME Desktop, ~meddled'
  PROVE  /\ desk'.clients = desk.clients /\ desk'.chosen = desk.chosen
         /\ UNCHANGED <<now, turn, phase, ctx, action, plan, at, touched, meddled>>
<1>1. ~(WindowCloses \/ FocusMoves \/ SelectionMoves \/ MonitorGoes)
  BY DEF WindowCloses, FocusMoves, SelectionMoves, MonitorGoes, Meddle
<1>2. MonitorRegisters
  BY <1>1 DEF Desktop
<1> QED BY <1>2 DEF MonitorRegisters

\* A command leaves what the first one chose.
LEMMA RunAimed ==
  ASSUME Inv, Grounded, Aimed, RunStep, phase' = "step", ~meddled
  PROVE  Aimed'
<1> DEFINE f == plan.steps[1]
           s == step
<1>1. /\ UNCHANGED <<plan, now, meddled>> /\ phase = "run" /\ at' = at + 1
      /\ desk' = effect(s)
  <2>1. PICK ok \in {possible(step), FALSE} :
          phase' = afterStep(ok) /\ desk' = IF ok THEN effect(step) ELSE desk
    BY Zenon DEF RunStep
  <2>2. ok
    BY <2>1 DEF afterStep
  <2> QED BY <2>1, <2>2 DEF RunStep
<1>2. /\ Aims(plan.steps, action) /\ desk.clients \in Seq(ClientsListed)
      /\ ~cfg.dryRun /\ at \in DOMAIN plan.steps /\ at \in Nat \ {0}
  <2>1. PICK S : plan.steps \in Seq(S)
    BY DEF Inv, Planned
  <2>2. at \in 1 .. Len(plan.steps)
    BY <1>1, <2>1 DEF Inv, Planned
  <2>3. Resolved
    BY <1>1 DEF Resolved
  <2> QED BY <1>1, <2>1, <2>2, <2>3, PlanAimsAt, OrdinaryFields
          DEF Grounded, Ordinary, Inv, Vetted
<1> DEFINE Kept == /\ f.cmd = "focuswindow" => \A c \in focused' : c.address = f.win
                   /\ f.cmd = "focusmonitor" =>
                        \A c \in focused' : \E d \in ToSet(desk'.clients) :
                          d.address = c.address /\ d.monitor = f.mon
                   /\ f.cmd = "select" => desk'.chosen = f.mon
<1>0. desk \in Desktops
  BY DEF Grounded, Ordinary
<1>3. ASSUME at = 1 PROVE Kept
  <2>1. f = s
    BY <1>3 DEF step
  <2>2. CASE s.cmd = "focuswindow"
    <3>1. desk'.clients = refocused(desk.clients, s.win)
      <4>1. desk' = [desk EXCEPT !.clients = refocused(desk.clients, s.win)]
        BY <1>1, <2>2 DEF effect
      <4> QED BY <1>0, <4>1 DEF Desktops
    <3>2. \A c \in focused' : c.address = s.win
      BY <1>2, <3>1, RefocusedAre DEF focused
    <3> QED BY <2>1, <2>2, <3>2
  <2>3. CASE s.cmd = "focusmonitor"
    <3> DEFINE address == lastUsed(onMonitor(desk.clients, s.mon))
    <3>1. desk'.clients = refocused(desk.clients, address)
      <4>1. desk' = [desk EXCEPT !.clients = refocused(desk.clients, address)]
        BY <1>1, <2>3 DEF effect
      <4> HIDE DEF address
      <4> QED BY <1>0, <4>1 DEF Desktops
    <3>2. \/ address = None
          \/ \E d \in ToSet(desk.clients) : d.address = address /\ d.monitor = s.mon
      BY <1>2, LastUsedIsThere
    <3> HIDE DEF address
    <3>3. ASSUME NEW c \in focused'
          PROVE  \E d \in ToSet(desk'.clients) : d.address = c.address /\ d.monitor = s.mon
      <4>1. c \in ToSet(refocused(desk.clients, address)) /\ c.focus = 0
        BY <3>1 DEF focused
      <4>2. c.address = address /\ \E d \in ToSet(desk.clients) : d.address = c.address
        BY <1>2, <4>1, RefocusedAre
      <4>3. address # None
        <5>1. \A d \in ToSet(desk.clients) : d.address \in DOMAIN ClassWords
          <6>1. \A i \in DOMAIN desk.clients : desk.clients[i] \in ClientsListed
            BY <1>2
          <6> QED BY <6>1 DEF ToSet, ClientsListed
        <5> QED BY <4>2, <5>1, NamesAssumption
      <4>4. PICK d \in ToSet(desk.clients) : d.address = address /\ d.monitor = s.mon
        BY <3>2, <4>3
      <4> QED BY <1>2, <3>1, <4>2, <4>4, RefocusedKeeps
    <3> QED BY <2>1, <2>3, <3>3
  <2>4. CASE s.cmd = "select"
    <3>1. desk'.chosen = s.mon
      <4>1. desk' = [desk EXCEPT !.chosen = s.mon]
        BY <1>1, <2>4 DEF effect
      <4> QED BY <1>0, <4>1 DEF Desktops
    <3> QED BY <2>1, <2>4, <3>1
  <2> QED BY <2>1, <2>2, <2>3, <2>4
<1>4. ASSUME at # 1 PROVE Kept
  <2>1. Follows(s, f, action)
    BY <1>2, <1>4 DEF Aims, step
  <2>2. s.cmd \notin {"focuswindow", "focusmonitor", "select"}
    BY <2>1 DEF Follows, Leads
  <2>3. /\ f.cmd = "focuswindow" => \A c \in focused : c.address = f.win
        /\ f.cmd = "focusmonitor" =>
             \A c \in focused : \E d \in ToSet(desk.clients) :
               d.address = c.address /\ d.monitor = f.mon
        /\ f.cmd = "select" => desk.chosen = f.mon
    BY <1>1, <1>2, <1>4 DEF Aimed, running
  <2>4. CASE s.cmd = "movewindow"
    <3> DEFINE moved == [i \in DOMAIN desk.clients |->
                           IF desk.clients[i].focus = 0
                           THEN [desk.clients[i] EXCEPT !.monitor = s.mon]
                           ELSE desk.clients[i]]
    <3>1. desk'.clients = moved /\ desk'.chosen = desk.chosen
      <4>1. desk' = [desk EXCEPT !.clients = moved]
        BY <1>1, <2>4 DEF effect
      <4> HIDE DEF moved
      <4> QED BY <1>0, <4>1 DEF Desktops
    <3>2. f.cmd # "focusmonitor"
      BY <2>1, <2>4 DEF Follows
    <3>3. ASSUME NEW c \in focused' PROVE \E d \in focused : d.address = c.address
      <4>1. PICK i \in DOMAIN desk.clients : c = moved[i] /\ c.focus = 0
        BY <3>1 DEF focused, ToSet
      <4>2. desk.clients[i] \in ClientsListed
        BY <1>2
      <4>3. desk.clients[i].focus = c.focus /\ desk.clients[i].address = c.address
        BY <4>1, <4>2 DEF ClientsListed
      <4> QED BY <4>1, <4>3 DEF focused, ToSet
    <3> HIDE DEF moved
    <3> QED BY <2>3, <3>1, <3>2, <3>3
  <2>5. CASE s.cmd # "movewindow"
    <3>1. desk'.clients = desk.clients /\ desk'.chosen = desk.chosen
      <4>1. CASE s.cmd = "create"
        <5>1. desk' = [desk EXCEPT !.coming = desk.coming \cup {s.mon}]
          BY <1>1, <4>1 DEF effect
        <5> QED BY <1>0, <5>1 DEF Desktops
      <4>2. CASE s.cmd # "create"
        BY <1>1, <2>2, <2>5, <4>2 DEF effect
      <4> QED BY <4>1, <4>2
    <3> QED BY <2>3, <3>1 DEF focused
  <2> QED BY <2>4, <2>5
<1>5. Kept
  BY <1>3, <1>4
<1> QED BY <1>1, <1>5 DEF Aimed

\* A command changes only what the action is about.
LEMMA RunOnlyTheNamed ==
  ASSUME Inv, Grounded, Aimed, OnlyTheNamed, RunStep, ~meddled PROVE OnlyTheNamed'
<1> DEFINE f == plan.steps[1]
           s == step
           a == action
<1>1. /\ UNCHANGED <<plan, now, meddled, action>> /\ phase = "run" /\ Resolved
  BY DEF RunStep, Resolved
<1>2. /\ Aims(plan.steps, action) /\ desk.clients \in Seq(ClientsListed)
      /\ ~cfg.dryRun /\ at \in DOMAIN plan.steps /\ at \in Nat \ {0}
  <2>1. PICK S : plan.steps \in Seq(S)
    BY DEF Inv, Planned
  <2>2. at \in 1 .. Len(plan.steps)
    BY <1>1, <2>1 DEF Inv, Planned
  <2> QED BY <1>1, <2>1, <2>2, PlanAimsAt, OrdinaryFields
          DEF Grounded, Ordinary, Inv, Vetted
<1> DEFINE There(x, d) == \E c \in ToSet(d.clients) : c.address = x /\ c.monitor = a.target
           Only(x, d) == /\ a.window # None => x = a.window
                         /\ OfMonitor(a) => x = a.target
                         /\ OfLook(a) => There(x, d)
<1>3. \A x \in touched : Only(x, desk)
  BY <1>1 DEF OnlyTheNamed, OfMonitor, OfLook, MonitorVerbs, Subjects
<1>4. PICK ok \in {possible(step), FALSE} :
        /\ desk' = IF ok THEN effect(step) ELSE desk
        /\ touched' = IF ok THEN touched \cup changedBy(step) ELSE touched
  BY Zenon DEF RunStep
<1>5. ASSUME ~ok PROVE \A x \in touched' : Only(x, desk')
  BY <1>3, <1>4, <1>5
<1>6. ASSUME ok PROVE \A x \in touched' : Only(x, desk')
  <2>1. IF at = 1 THEN Alone(s, a) ELSE Follows(s, f, a)
    BY <1>2 DEF Aims, step
  <2>2. at # 1 =>
        /\ f.cmd = "focuswindow" => \A c \in focused : c.address = f.win
        /\ f.cmd = "focusmonitor" =>
             \A c \in focused : \E d \in ToSet(desk.clients) :
               d.address = c.address /\ d.monitor = f.mon
        /\ f.cmd = "select" => desk.chosen = f.mon
    BY <1>1, <1>2 DEF Aimed, running
  <2>3. /\ f = focusWindow(a.window) => f.cmd = "focuswindow" /\ f.win = a.window
        /\ f = doAt("focusmonitor", a.target) => f.cmd = "focusmonitor" /\ f.mon = a.target
        /\ f = doAt("select", a.target) => f.cmd = "select" /\ f.mon = a.target
    BY DEF focusWindow, doAt, do
  <2> HIDE DEF f, s
  <2>4. ASSUME NEW x \in changedBy(s) PROVE Only(x, desk)
    <3>1. CASE s.cmd \in FocusUsers
      <4>1. PICK c \in focused : x = c.address
        BY <3>1 DEF changedBy, FocusUsers
      <4>2. ~OfMonitor(a)
        BY <2>1, <3>1 DEF Alone, Follows
      <4>3. a.window # None => x = a.window
        BY <2>1, <2>2, <2>3, <3>1, <4>1 DEF Alone, Follows
      <4>4. OfLook(a) => There(x, desk)
        BY <2>1, <2>2, <2>3, <3>1, <4>1 DEF Alone, Follows
      <4> QED BY <4>2, <4>3, <4>4
    <3>2. CASE s.cmd \in ChoiceUsers
      <4>1. x = desk.chosen
        BY <3>2 DEF changedBy, ChoiceUsers
      <4> QED BY <2>1, <2>2, <2>3, <3>2, <4>1 DEF Alone, Follows
    <3>3. CASE s.cmd \in Named
      <4>1. x = IF s.mon = Active THEN desk.chosen ELSE s.mon
        BY <3>3 DEF changedBy, Named
      <4>2. OfMonitor(a) => x = a.target
        BY <2>1, <3>3, <4>1 DEF Alone, Follows, OfMonitor, isActive
      <4> QED BY <2>1, <3>3, <4>2 DEF Alone, Follows
    <3> QED BY <3>1, <3>2, <3>3 DEF changedBy, FocusUsers, ChoiceUsers, Named
  <2>5. ASSUME NEW x, Only(x, desk) PROVE Only(x, desk')
    <3>1. SUFFICES ASSUME OfLook(a) PROVE There(x, desk')
      BY <2>5
    <3>2. PICK d \in ToSet(desk.clients) : d.address = x /\ d.monitor = a.target
      BY <2>5, <3>1
    <3>3. s.cmd # "movewindow"
      <4>1. a.verb = "fullscreen"
        BY <3>1 DEF OfLook
      <4>2. f = doAt("focusmonitor", a.target) => s.cmd = "fullscreen" \/ at = 1
        BY <2>1, <2>3 DEF Follows
      <4> QED BY <2>1, <3>1, <4>2 DEF Alone, Follows, FocusUsers
    <3>4. \/ desk'.clients = desk.clients
          \/ \E address : desk'.clients = refocused(desk.clients, address)
      <4>1. desk' = effect(s) /\ desk \in Desktops
        BY <1>4, <1>6 DEF Grounded, Ordinary, s
      <4>2. CASE s.cmd \in {"focuswindow", "focusmonitor"}
        BY <4>1, <4>2 DEF effect, Desktops
      <4>3. CASE s.cmd \in {"create", "select"}
        BY <4>1, <4>3 DEF effect, Desktops
      <4>4. CASE s.cmd \notin {"focuswindow", "focusmonitor", "create", "select"}
        BY <3>3, <4>1, <4>4 DEF effect
      <4> QED BY <4>2, <4>3, <4>4
    <3> QED BY <1>2, <3>2, <3>4, RefocusedKeeps
  <2> HIDE DEF There, Only
  <2>6. \A x \in touched' : Only(x, desk')
    BY <1>3, <1>4, <1>6, <2>4, <2>5 DEF s
  <2> QED BY <2>6
<1>7. \A x \in touched' : Only(x, desk')
  BY <1>5, <1>6
<1> QED BY <1>1, <1>7 DEF OnlyTheNamed, OfMonitor, OfLook, MonitorVerbs, Subjects

\* Both hold after every step.
LEMMA NextOnlyTheNamed ==
  ASSUME Inv, Grounded, Aimed, OnlyTheNamed, [Next]_vars PROVE Aimed' /\ OnlyTheNamed'
<1>1. CASE Resolve
  <2>1. touched' = {} /\ at' = 1
    BY <1>1 DEF Resolve
  <2> QED BY <2>1 DEF Aimed, OnlyTheNamed
<1>2. CASE Asking \/ Hear
  <2>1. ~Resolved' /\ ~running'
    BY <1>2 DEF Asking, QueryMonitors, QueryClients, QueryStatus, Hear, Resolved, running
  <2> QED BY <2>1 DEF Aimed, OnlyTheNamed
<1>3. CASE NextStep \/ AwaitMonitor
  <2>1. /\ UNCHANGED <<now, desk, action, plan, touched, meddled>> /\ Resolved /\ running
        /\ running' => at' = at \/ cfg.dryRun
    BY <1>3 DEF NextStep, AwaitMonitor, Resolved, running
  <2>2. Aimed'
    BY <2>1 DEF Aimed, cfg, focused
  <2>3. OnlyTheNamed'
    BY <2>1 DEF OnlyTheNamed
  <2> QED BY <2>2, <2>3
<1>4. CASE RunStep
  <2>1. meddled' = meddled /\ (running' => phase' = "step")
    BY <1>4 DEF RunStep, afterStep, running
  <2>2. meddled => Aimed' /\ OnlyTheNamed'
    BY <2>1 DEF Aimed, OnlyTheNamed
  <2>3. ~running' => Aimed'
    BY DEF Aimed
  <2> QED BY <1>4, <2>1, <2>2, <2>3, RunAimed, RunOnlyTheNamed
<1>5. CASE Desktop
  <2>1. meddled' => Aimed' /\ OnlyTheNamed'
    BY DEF Aimed, OnlyTheNamed
  <2>2. CASE ~meddled'
    <3>1. /\ desk'.clients = desk.clients /\ desk'.chosen = desk.chosen
          /\ UNCHANGED <<now, phase, action, plan, at, touched, meddled>>
      BY <1>5, <2>2, DeskAlone
    <3>2. Aimed'
      BY <3>1 DEF Aimed, running, cfg, focused
    <3>3. OnlyTheNamed'
      BY <3>1 DEF OnlyTheNamed, Resolved
    <3> QED BY <3>2, <3>3
  <2> QED BY <2>1, <2>2
<1>6. CASE UNCHANGED vars
  <2>1. UNCHANGED <<now, desk, phase, action, plan, at, touched, meddled>>
    BY <1>6 DEF vars
  <2>2. Aimed'
    BY <2>1 DEF Aimed, running, cfg, focused
  <2>3. OnlyTheNamed'
    BY <2>1 DEF OnlyTheNamed, Resolved
  <2> QED BY <2>2, <2>3
<1> QED BY <1>1, <1>2, <1>3, <1>4, <1>5, <1>6 DEF Next, Running

\* run and planFor (Executor.cpp:461-545, 131-459): of the focused window and the
\* selected monitor, which the commands act on, the first command makes the ones
\* that were named or looked at, and no later one changes that.
THEOREM CommandOnlyTheNamed == Spec => []OnlyTheNamed
<1>1. Init => Aimed /\ OnlyTheNamed
  BY DEF Init, Aimed, OnlyTheNamed, running, Resolved
<1>2. Inv /\ Grounded /\ Aimed /\ OnlyTheNamed /\ [Next]_vars => Aimed' /\ OnlyTheNamed'
  BY NextOnlyTheNamed
<1> QED BY AlwaysGrounded, <1>1, <1>2, PTL DEF Spec
=============================================================================
