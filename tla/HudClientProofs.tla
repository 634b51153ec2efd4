--------------------------- MODULE HudClientProofs ---------------------------
(***************************************************************************)
(* The HUD client, proved for any number of restarts, panels and unread    *)
(* signals: its type, that a client which has read its signals believes in *)
(* nothing that is gone, that only a restart can orphan a panel, and that  *)
(* a message is lost only behind an unread signal.                         *)
(*                                                                         *)
(* None of that is inductive by itself, for what the client believes may   *)
(* be wrong while signals wait.  Sound says what the waiting signals owe   *)
(* it: each thing that is gone has left a signal that says so, and the     *)
(* last word on the runtime is the truth.  Every call keeps Sound, and a   *)
(* poll, which is a fold over the inbox, pays the debt: its proof is an    *)
(* induction on how many signals have been dispatched, carried out on the  *)
(* set of the counts for which it holds.                                   *)
(***************************************************************************)
EXTENDS HudClient, WellFoundedInduction, TLAPS

View == [client : Client, service : Service, inbox : Seq(Signal)]

\* Signals that say whether the service is there and what its runtime does.
News(s) == s.kind \in {"state", "owner"}

\* Signals that tell the client its panel is gone.
Excuse(s, panel) == \/ s.kind = "dismissed" /\ s.panel = panel
                    \/ s.kind = "owner" /\ ~s.up

\* No bus, no matches: nothing to read and nothing to believe.
Closed(w) == ~w.client.bus => w.inbox = <<>> /\ ~w.client.owner /\ w.client.panel = 0

\* What a service that is down, or was never up, cannot have.
Dark(w) == /\ ~w.service.up => w.service.panels = {}
           /\ w.service.starts = 0 => ~w.service.up /\ w.inbox = <<>>
           /\ \A p \in w.service.panels : p <= w.service.created

Believes(w) == /\ w.client.owner => w.service.up
               /\ w.client.owner /\ w.client.runtime = "live" => w.service.runtime = "live"

\* With no news to read, what the client believes is so.
Honest(w) == (\A i \in 1 .. Len(w.inbox) : ~News(w.inbox[i])) => Believes(w)

\* The last news, if it is of the runtime, is so.
Latest(w) ==
  \A i \in 1 .. Len(w.inbox) :
    /\ w.inbox[i].kind = "state"
    /\ \A j \in i + 1 .. Len(w.inbox) : ~News(w.inbox[j])
    => w.service.up /\ w.service.runtime = w.inbox[i].runtime

\* A panel that is gone has left a signal that says so.
Excused(w) ==
  w.client.panel # 0 /\ w.client.panel \notin w.service.panels =>
    \E i \in 1 .. Len(w.inbox) : Excuse(w.inbox[i], w.client.panel)

\* Until the service restarts, only the client's own panel is up, and signals
\* tell of panels that went and stay gone.
First(w) ==
  w.service.starts <= 1 =>
    /\ w.service.panels \subseteq {w.client.panel}
    /\ \A i \in 1 .. Len(w.inbox) :
         /\ w.inbox[i].kind = "owner" /\ ~w.inbox[i].up => ~w.service.up
         /\ w.inbox[i].kind = "dismissed" => /\ w.inbox[i].panel \notin w.service.panels
                                             /\ w.inbox[i].panel <= w.service.created

Sound(w) == /\ w \in View /\ Closed(w) /\ Dark(w) /\ Honest(w)
            /\ Latest(w) /\ Excused(w) /\ First(w)
-----------------------------------------------------------------------------
(* Signals.                                                                *)

\* A signal goes to the end of the inbox of a client with an open bus.
Delivers(w, v, s) ==
  /\ v \in View /\ v.client = w.client /\ v.service = w.service
  /\ ~w.client.bus => v.inbox = w.inbox
  /\ w.client.bus => /\ Len(v.inbox) = Len(w.inbox) + 1
                     /\ v.inbox[Len(w.inbox) + 1] = s
                     /\ \A i \in 1 .. Len(w.inbox) : v.inbox[i] = w.inbox[i]

\* A signal is queued for a client that is on the bus, and changes nothing else.
LEMMA SignalDelivers ==
  ASSUME NEW w \in View, NEW s \in Signal
  PROVE  Delivers(w, signal(w, s), s)
<1> DEFINE q == IF w.client.bus THEN Append(w.inbox, s) ELSE w.inbox
           v == [w EXCEPT !.inbox = q]
<1>1. w.inbox \in Seq(Signal) BY DEF View
<1>2. q \in Seq(Signal) BY <1>1
<1>3. signal(w, s) = v BY DEF signal
<1> HIDE DEF q
<1>4. v \in View /\ v.client = w.client /\ v.service = w.service /\ v.inbox = q
  BY <1>2 DEF View
<1> HIDE DEF v
<1>5. Delivers(w, v, s) BY <1>1, <1>4 DEF Delivers, q
<1> QED BY <1>3, <1>5

\* The four signals there are.
LEMMA SignalType ==
  /\ \A r \in {"idle", "live"} : [kind |-> "state", runtime |-> r] \in Signal
  /\ \A p \in Id : [kind |-> "dismissed", panel |-> p] \in Signal
  /\ \A b \in BOOLEAN : [kind |-> "owner", up |-> b] \in Signal
BY DEF Signal

\* News for a client whose panel, if it is gone, is told of keeps it sound.
LEMMA NewsKeeps ==
  ASSUME NEW x, NEW v, NEW s, Delivers(x, v, s), x \in View, News(s),
         Closed(x), Dark(x), x.service.starts # 0,
         s.kind = "state" => x.service.up /\ x.service.runtime = s.runtime,
         Excused(x) \/ Excuse(s, x.client.panel),
         First(x), x.service.starts <= 1 /\ s.kind = "owner" /\ ~s.up => ~x.service.up
  PROVE  Sound(v)
<1> DEFINE n == Len(x.inbox)
<1>1. n \in Nat BY DEF View
<1>2. CASE ~x.client.bus
  <2>1. v.inbox = <<>> /\ Len(v.inbox) = 0 /\ v.client.panel = 0 /\ ~v.client.owner
    BY <1>2 DEF Delivers, Closed
  <2>2. Closed(v) /\ Dark(v) /\ Honest(v) /\ Latest(v) /\ Excused(v) /\ First(v)
    BY <1>2, <2>1 DEF Delivers, Closed, Dark, Honest, Believes, Latest, Excused, First
  <2> QED BY <2>2 DEF Sound, Delivers
<1>3. CASE x.client.bus
  <2>1. /\ v \in View /\ v.client = x.client /\ v.service = x.service
        /\ Len(v.inbox) = n + 1 /\ v.inbox[n + 1] = s
        /\ \A i \in 1 .. n : v.inbox[i] = x.inbox[i]
    BY <1>3 DEF Delivers
  <2> HIDE DEF n
  <2>2. \A i \in 1 .. n + 1 : i \in 1 .. n \/ i = n + 1 BY <1>1
  <2>3. n + 1 \in 1 .. n + 1 /\ \A i \in 1 .. n : n + 1 \in i + 1 .. n + 1
                                                 /\ i \in 1 .. n + 1
    BY <1>1
  <2>4. Closed(v) /\ Dark(v) BY <1>3, <2>1 DEF Closed, Dark
  <2>5. Honest(v) BY <2>1, <2>3 DEF Honest
  <2>6. Latest(v) BY <2>1, <2>2, <2>3 DEF Latest
  <2>7. Excused(v) BY <2>1, <2>3 DEF Excused, n
  <2>8. First(v) BY <2>1, <2>2 DEF First, News, n
  <2> QED BY <2>1, <2>4, <2>5, <2>6, <2>7, <2>8 DEF Sound
<1> QED BY <1>2, <1>3
-----------------------------------------------------------------------------
(* The service.                                                            *)

\* Nothing but signals reaches the client, and no more than n of them.
Outside(w, v, n) == /\ Sound(v) /\ v.client = w.client
                    /\ Len(v.inbox) <= Len(w.inbox) + n

\* How many signals a delivery adds.
LEMMA DeliveredOne ==
  ASSUME NEW x \in View, NEW v, NEW s, Delivers(x, v, s)
  PROVE  Len(v.inbox) <= Len(x.inbox) + 1
<1>1. Len(x.inbox) \in Nat BY DEF View
<1> QED BY <1>1 DEF Delivers, View, Client

\* A service that appears says so.
LEMMA StartsKeeps ==
  ASSUME NEW w, NEW runtime \in {"idle", "live"}, HudBounds,
         Sound(w), ~w.service.up, w.service.starts < MaxStarts
  PROVE  LET v == serviceStarts(w, runtime)
         IN  Outside(w, v, 1) /\ v.service.up /\ v.service.panels = {}
<1> DEFINE new == [up |-> TRUE, starts |-> w.service.starts + 1,
                   runtime |-> runtime, panels |-> {}, created |-> 0]
           x == [w EXCEPT !.service = new]
           s == [kind |-> "owner", up |-> TRUE]
           v == signal(x, s)
<1>1. w \in View BY DEF Sound
<1>2. new \in Service
  <2>1. w.service.starts + 1 \in 0 .. MaxStarts BY <1>1 DEF View, Service, HudBounds
  <2>2. 0 \in 0 .. MaxPanels BY DEF HudBounds
  <2> QED BY <2>1, <2>2 DEF Service
<1>3. serviceStarts(w, runtime) = v
  BY <1>1 DEF serviceStarts, View
<1>4. /\ new.up /\ new.panels = {} /\ new.created = 0 /\ new.starts # 0
      /\ new.starts <= 1 => w.service.starts = 0
  BY <1>1 DEF View, Service
<1> HIDE DEF new
<1>5. x \in View /\ x.client = w.client /\ x.service = new /\ x.inbox = w.inbox
  BY <1>1, <1>2 DEF View
<1>6. s \in Signal /\ News(s) /\ s.kind = "owner" /\ s.up BY SignalType DEF News
<1> HIDE DEF x, s
<1>7. Delivers(x, v, s) BY <1>5, <1>6, SignalDelivers
<1> HIDE DEF v
<1>8. Closed(x) /\ Dark(x) BY <1>4, <1>5 DEF Sound, Closed, Dark
<1>9. Excused(x) BY <1>4, <1>5 DEF Sound, Excused, Dark
<1>10. First(x)
  <2>1. new.starts <= 1 => Len(w.inbox) = 0 BY <1>4 DEF Sound, Dark
  <2> QED BY <1>4, <1>5, <2>1 DEF First
<1>11. Sound(v) BY <1>4, <1>5, <1>6, <1>7, <1>8, <1>9, <1>10, NewsKeeps
<1>12. Outside(w, v, 1) BY <1>5, <1>7, <1>11, DeliveredOne DEF Outside, Delivers
<1>13. v.service.up /\ v.service.panels = {} BY <1>4, <1>5, <1>7 DEF Delivers
<1> QED BY <1>3, <1>12, <1>13

\* A service that dies takes its panels along, and the bus says so.
LEMMA DiesKeeps ==
  ASSUME NEW w, Sound(w), w.service.up
  PROVE  Outside(w, serviceDies(w), 1) /\ ~serviceDies(w).service.up
<1> DEFINE x == [w EXCEPT !.service.up = FALSE, !.service.panels = {}]
           s == [kind |-> "owner", up |-> FALSE]
           v == signal(x, s)
<1>1. w \in View BY DEF Sound
<1>2. serviceDies(w) = v BY DEF serviceDies
<1>3. /\ x \in View /\ x.client = w.client /\ x.inbox = w.inbox
      /\ ~x.service.up /\ x.service.panels = {} /\ x.service.starts = w.service.starts
      /\ x.service.created = w.service.created
  BY <1>1 DEF View, Service
<1>4. s \in Signal /\ News(s) /\ s.kind = "owner" /\ ~s.up BY SignalType DEF News
<1> HIDE DEF x, s
<1>5. Delivers(x, v, s) BY <1>3, <1>4, SignalDelivers
<1> HIDE DEF v
<1>6. Closed(x) /\ Dark(x) BY <1>3 DEF Sound, Closed, Dark
<1>7. Excuse(s, x.client.panel) BY <1>4 DEF Excuse
<1>8. First(x) BY <1>3 DEF Sound, First
<1>9. x.service.starts # 0 BY <1>3 DEF Sound, Dark
<1>10. Sound(v) BY <1>3, <1>4, <1>5, <1>6, <1>7, <1>8, <1>9, NewsKeeps
<1>11. Outside(w, v, 1) BY <1>3, <1>5, <1>10, DeliveredOne DEF Outside, Delivers
<1> QED BY <1>2, <1>3, <1>5, <1>11 DEF Delivers

\* The runtime coming or going says so.
LEMMA RuntimeKeeps ==
  ASSUME NEW w, NEW runtime \in {"idle", "live"}, Sound(w), w.service.up
  PROVE  Outside(w, signal([w EXCEPT !.service.runtime = runtime],
                           [kind |-> "state", runtime |-> runtime]), 1)
<1> DEFINE x == [w EXCEPT !.service.runtime = runtime]
           s == [kind |-> "state", runtime |-> runtime]
           v == signal(x, s)
<1>1. w \in View BY DEF Sound
<1>2. /\ x \in View /\ x.client = w.client /\ x.inbox = w.inbox
      /\ x.service.up = w.service.up /\ x.service.panels = w.service.panels
      /\ x.service.starts = w.service.starts /\ x.service.runtime = runtime
      /\ x.service.created = w.service.created
  BY <1>1 DEF View, Service
<1>3. s \in Signal /\ News(s) /\ s.kind = "state" /\ s.runtime = runtime
  BY SignalType DEF News
<1> HIDE DEF x, s
<1>4. Delivers(x, v, s) BY <1>2, <1>3, SignalDelivers
<1> HIDE DEF v
<1>5. Closed(x) /\ Dark(x) /\ Excused(x) /\ First(x)
  BY <1>2 DEF Sound, Closed, Dark, Excused, First
<1>6. x.service.starts # 0 BY <1>2 DEF Sound, Dark
<1>7. Sound(v) BY <1>2, <1>3, <1>4, <1>5, <1>6, NewsKeeps
<1>8. Outside(w, v, 1) BY <1>2, <1>4, <1>7, DeliveredOne DEF Outside, Delivers
<1> QED BY <1>8 DEF v, x, s

\* So does a panel that goes: no news, but an excuse.
LEMMA GoesKeeps ==
  ASSUME NEW w, NEW id \in w.service.panels, Sound(w)
  PROVE  LET v == panelGoes(w, id)
         IN  Outside(w, v, 1) /\ v.service.panels = w.service.panels \ {id}
             /\ v.service.starts = w.service.starts
<1> DEFINE x == [w EXCEPT !.service.panels = @ \ {id}]
           s == [kind |-> "dismissed", panel |-> id]
           v == signal(x, s)
           n == Len(w.inbox)
<1>1. w \in View /\ id \in Id /\ n \in Nat BY DEF Sound, View, Service
<1>2. panelGoes(w, id) = v BY DEF panelGoes
<1>3. /\ x \in View /\ x.client = w.client /\ x.inbox = w.inbox
      /\ x.service.up = w.service.up /\ x.service.panels = w.service.panels \ {id}
      /\ x.service.starts = w.service.starts /\ x.service.runtime = w.service.runtime
      /\ x.service.created = w.service.created
  BY <1>1 DEF View, Service
<1>4. s \in Signal /\ ~News(s) /\ s.kind = "dismissed" /\ s.panel = id
  BY <1>1, SignalType DEF News
<1> HIDE DEF x, s
<1>5. Delivers(x, v, s) BY <1>3, <1>4, SignalDelivers
<1> HIDE DEF v
<1>6. w.service.up /\ id <= w.service.created BY DEF Sound, Dark
<1>7. Sound(v)
  <2>1. CASE ~w.client.bus
    <3>1. /\ v.inbox = <<>> /\ Len(v.inbox) = 0 /\ v.client = w.client
          /\ v.client.panel = 0 /\ ~v.client.owner /\ v.service = x.service /\ v \in View
      BY <1>3, <1>5, <2>1 DEF Delivers, Sound, Closed
    <3>2. Closed(v) /\ Dark(v) /\ Honest(v) /\ Latest(v) /\ Excused(v) /\ First(v)
      BY <1>3, <2>1, <3>1
         DEF Sound, Closed, Dark, Honest, Believes, Latest, Excused, First
    <3> QED BY <3>1, <3>2 DEF Sound
  <2>2. CASE w.client.bus
    <3>1. /\ v \in View /\ v.client = w.client /\ v.service = x.service
          /\ Len(v.inbox) = n + 1 /\ v.inbox[n + 1] = s
          /\ \A i \in 1 .. n : v.inbox[i] = w.inbox[i]
      BY <1>3, <1>5, <2>2 DEF Delivers
    <3>2. /\ \A i \in 1 .. n + 1 : i \in 1 .. n \/ i = n + 1
          /\ \A i \in 1 .. n : i \in 1 .. n + 1
          /\ \A i \in 1 .. n : \A j \in i + 1 .. n : j \in i + 1 .. n + 1 /\ j \in 1 .. n
          /\ n + 1 \in 1 .. n + 1
      BY <1>1
    <3> HIDE DEF n
    <3>3. Closed(v) BY <2>2, <3>1 DEF Sound, Closed
    <3>4. Dark(v) BY <1>3, <1>6, <3>1 DEF Sound, Dark
    <3>5. Honest(v)
      BY <1>3, <3>1, <3>2 DEF Sound, Honest, Believes, n
    <3>6. Latest(v)
      <4> SUFFICES ASSUME NEW i \in 1 .. n + 1, v.inbox[i].kind = "state",
                          \A j \in i + 1 .. n + 1 : ~News(v.inbox[j])
                   PROVE  v.service.up /\ v.service.runtime = v.inbox[i].runtime
        BY <3>1 DEF Latest
      <4>1. i \in 1 .. n BY <1>4, <3>1, <3>2
      <4>2. \A j \in i + 1 .. n : ~News(w.inbox[j]) BY <3>1, <3>2, <4>1
      <4> QED BY <1>3, <3>1, <4>1, <4>2 DEF Sound, Latest, n
    <3>7. Excused(v)
      <4>1. CASE v.client.panel = id
        BY <1>4, <3>1, <3>2, <4>1 DEF Excused, Excuse
      <4>2. CASE v.client.panel # id
        BY <1>3, <3>1, <3>2, <4>2 DEF Sound, Excused, n
      <4> QED BY <4>1, <4>2
    <3>8. First(v)
      BY <1>3, <1>4, <1>6, <3>1, <3>2 DEF Sound, First, n
    <3> QED BY <3>1, <3>3, <3>4, <3>5, <3>6, <3>7, <3>8 DEF Sound
  <2> QED BY <2>1, <2>2
<1>8. Outside(w, v, 1) BY <1>3, <1>5, <1>7, DeliveredOne DEF Outside, Delivers
<1> QED BY <1>2, <1>3, <1>5, <1>8 DEF Delivers

\* A call may start the service, and says no more than that.
LEMMA ActivateKeeps ==
  ASSUME NEW w, NEW can \in BOOLEAN, NEW runtime \in {"idle", "live"}, HudBounds, Sound(w)
  PROVE  LET v == activate(w, can, runtime)
         IN  /\ Outside(w, v, 1)
             /\ w.service.up => v = w
             /\ v = w \/ v.service.panels = {}
<1>1. w \in View /\ Outside(w, w, 1)
  <2>1. w \in View /\ Len(w.inbox) \in Nat BY DEF Sound, View
  <2> QED BY <2>1 DEF Outside
<1> QED BY <1>1, StartsKeeps DEF activate
-----------------------------------------------------------------------------
(* The client.                                                             *)

\* Changing what the client thinks of the service, to nothing it lacks.
LEMMA OpinionKeeps ==
  ASSUME NEW w, NEW v \in View, Sound(w), v.service = w.service, v.inbox = w.inbox,
         v.client.bus = w.client.bus, v.client.enabled = w.client.enabled,
         v.client.panel = w.client.panel, w.client.bus \/ ~v.client.owner, Believes(v)
  PROVE  Sound(v)
BY DEF Sound, Closed, Dark, Honest, Latest, Excused, First

\* Asking the bus and the service makes the client believe what is so.
LEMMA RefreshDoes ==
  ASSUME NEW w \in View
  PROVE  LET v == refreshOwnerAndState(w)
         IN  /\ v \in View /\ v.service = w.service /\ v.inbox = w.inbox
             /\ v.client.bus = w.client.bus /\ v.client.enabled = w.client.enabled
             /\ v.client.panel = w.client.panel
             /\ v.client.owner = w.service.up
             /\ v.client.runtime = IF w.service.up THEN w.service.runtime ELSE "absent"
             /\ Believes(v)
<1> DEFINE runtime == IF w.service.up THEN w.service.runtime ELSE "absent"
           v == [w EXCEPT !.client.owner = w.service.up, !.client.runtime = runtime]
<1>1. runtime \in {"absent", "idle", "live"} /\ w.service.up \in BOOLEAN
  BY DEF View, Service
<1>2. refreshOwnerAndState(w) = v BY DEF refreshOwnerAndState
<1>3. w.service.up => runtime = w.service.runtime OBVIOUS
<1>4. runtime = IF w.service.up THEN w.service.runtime ELSE "absent" OBVIOUS
<1> HIDE DEF runtime
<1>5. /\ v \in View /\ v.service = w.service /\ v.inbox = w.inbox
      /\ v.client.bus = w.client.bus /\ v.client.enabled = w.client.enabled
      /\ v.client.panel = w.client.panel
      /\ v.client.owner = w.service.up /\ v.client.runtime = runtime
  BY <1>1 DEF View, Client
<1> HIDE DEF v
<1>6. Believes(v) BY <1>3, <1>5 DEF Believes
<1> QED BY <1>2, <1>4, <1>5, <1>6

\* An open bus is asked once, when it opens.
LEMMA EnsureBusKeeps ==
  ASSUME NEW w, NEW opens \in BOOLEAN, Sound(w), w.client.enabled
  PROVE  LET v == ensureBus(w, opens)
         IN  /\ Sound(v) /\ v.service = w.service /\ v.inbox = w.inbox
             /\ v.client.panel = w.client.panel /\ v.client.enabled
             /\ w.client.bus => v = w
<1> DEFINE o == [w EXCEPT !.client.bus = TRUE]
           v == refreshOwnerAndState(o)
<1>1. w \in View BY DEF Sound
<1>2. CASE w.client.bus \/ ~opens
  BY <1>2 DEF ensureBus
<1>3. CASE ~w.client.bus /\ opens
  <2>1. ensureBus(w, opens) = v BY <1>3 DEF ensureBus
  <2>2. /\ o \in View /\ o.service = w.service /\ o.inbox = w.inbox
        /\ o.client.bus /\ o.client.enabled = w.client.enabled
        /\ o.client.panel = w.client.panel
    BY <1>1 DEF View, Client
  <2> HIDE DEF o
  <2>3. /\ v \in View /\ v.service = o.service /\ v.inbox = o.inbox
        /\ v.client.bus = o.client.bus /\ v.client.enabled = o.client.enabled
        /\ v.client.panel = o.client.panel /\ Believes(v)
    BY <2>2, RefreshDoes
  <2> HIDE DEF v
  <2>4. Sound(v)
    BY <1>3, <2>2, <2>3 DEF Sound, Closed, Dark, Honest, Latest, Excused, First
  <2> QED BY <1>3, <2>1, <2>2, <2>3, <2>4
<1> QED BY <1>2, <1>3

\* A panel is created by a client that has none, on a service that answers.
LEMMA CreateKeeps ==
  ASSUME NEW w, NEW can \in BOOLEAN, NEW runtime \in {"idle", "live"},
         NEW accepts \in BOOLEAN, NEW dies \in BOOLEAN, HudBounds,
         Sound(w), w.client.bus, w.client.panel = 0
  PROVE  LET v == createPanel(w, can, runtime, accepts, dies)
         IN  /\ Sound(v) /\ Len(v.inbox) <= Len(w.inbox) + 2
             /\ v.client.enabled = w.client.enabled
             /\ available(v.client) => onDisplay(v)
<1> DEFINE a == activate(w, can, runtime)
           id == a.service.created + 1
           c  == [a EXCEPT !.service.panels = @ \cup {id}, !.service.created = id,
                           !.client.panel = id]
           e  == IF dies THEN serviceDies(c) ELSE c
           r  == refreshOwnerAndState(e)
           f  == [a EXCEPT !.client.owner = FALSE]
           v  == createPanel(w, can, runtime, accepts, dies)
<1>1. Outside(w, a, 1) BY ActivateKeeps
<1>2. v = IF ~a.service.up \/ ~accepts \/ id > MaxPanels THEN f ELSE r
  BY DEF createPanel
<1> HIDE DEF a
<1>3. /\ Sound(a) /\ a \in View /\ a.client = w.client
      /\ Len(a.inbox) <= Len(w.inbox) + 1 /\ Len(a.inbox) \in Nat /\ Len(w.inbox) \in Nat
  BY <1>1 DEF Outside, Sound, View
<1> HIDE DEF v
<1>4. CASE ~a.service.up \/ ~accepts \/ id > MaxPanels
  <2>1. v = f BY <1>2, <1>4
  <2>2. /\ f \in View /\ f.service = a.service /\ f.inbox = a.inbox
        /\ f.client.bus = a.client.bus /\ f.client.enabled = a.client.enabled
        /\ f.client.panel = a.client.panel /\ ~f.client.owner
    BY <1>3 DEF View, Client
  <2> HIDE DEF f
  <2>3. Believes(f) BY <2>2 DEF Believes
  <2>4. Sound(f) BY <1>3, <2>2, <2>3, OpinionKeeps
  <2>5. ~available(f.client) BY <2>2 DEF available
  <2> QED BY <1>3, <2>1, <2>2, <2>4, <2>5 DEF v
<1>5. CASE a.service.up /\ accepts /\ ~(id > MaxPanels)
  <2>1. v = r BY <1>2, <1>5
  <2>2. id \in Id /\ id \in 0 .. MaxPanels /\ id # 0 /\ a.service.created \in Nat
    BY <1>3, <1>5 DEF View, Service, Id, HudBounds
  <2>3. id > a.service.created BY <2>2
  <2> HIDE DEF id
  <2>4. /\ c \in View /\ c.inbox = a.inbox
        /\ c.service.panels = a.service.panels \cup {id} /\ c.service.created = id
        /\ c.service.up /\ c.service.starts = a.service.starts
        /\ c.service.runtime = a.service.runtime
        /\ c.client.panel = id /\ c.client.bus = a.client.bus
        /\ c.client.enabled = a.client.enabled
        /\ c.client.owner = a.client.owner /\ c.client.runtime = a.client.runtime
    BY <1>3, <1>5, <2>2 DEF View, Client, Service
  <2> HIDE DEF c
  <2>5. Sound(c)
    <3>1. Closed(c) BY <1>3, <2>4 DEF Sound, Closed
    <3>2. Dark(c)
      <4>1. \A p \in a.service.panels : p \in Nat /\ p <= a.service.created
        BY <1>3 DEF Sound, Dark, View, Service, Id
      <4>2. \A p \in a.service.panels : p <= id BY <2>2, <2>3, <4>1 DEF Id
      <4>3. id <= id BY <2>2 DEF Id
      <4>4. a.service.starts # 0 BY <1>3, <1>5 DEF Sound, Dark
      <4> QED BY <1>5, <2>4, <4>2, <4>3, <4>4 DEF Dark
    <3>3. Honest(c) /\ Latest(c) BY <1>3, <2>4 DEF Sound, Honest, Latest, Believes
    <3>4. Excused(c) BY <2>4 DEF Excused
    <3>5. First(c)
      <4> SUFFICES ASSUME c.service.starts <= 1
                   PROVE  /\ c.service.panels \subseteq {c.client.panel}
                          /\ \A i \in 1 .. Len(c.inbox) :
                               /\ c.inbox[i].kind = "owner" /\ ~c.inbox[i].up
                                    => ~c.service.up
                               /\ c.inbox[i].kind = "dismissed" =>
                                    /\ c.inbox[i].panel \notin c.service.panels
                                    /\ c.inbox[i].panel <= c.service.created
        BY DEF First
      <4>1. a.service.panels = {}
        <5>1. a.service.panels \subseteq {0} BY <1>3, <2>4 DEF Sound, First
        <5>2. 0 \notin a.service.panels BY <1>3 DEF View, Service, Id
        <5> QED BY <5>1, <5>2
      <4>2. ASSUME NEW i \in 1 .. Len(c.inbox), c.inbox[i].kind = "dismissed"
            PROVE  c.inbox[i].panel # id /\ c.inbox[i].panel <= id
        <5>1. c.inbox[i] \in Signal BY <2>4 DEF View
        <5>2. c.inbox[i].panel \in Id BY <4>2, <5>1 DEF Signal
        <5>3. c.inbox[i].panel <= a.service.created BY <1>3, <2>4, <4>2 DEF Sound, First
        <5> QED BY <2>2, <2>3, <5>2, <5>3 DEF Id
      <4> QED BY <1>3, <1>5, <2>4, <4>1, <4>2 DEF Sound, First
    <3> QED BY <2>4, <3>1, <3>2, <3>3, <3>4, <3>5 DEF Sound
  <2>6. /\ Sound(e) /\ e.client = c.client /\ Len(e.inbox) <= Len(c.inbox) + 1
        /\ e = c \/ ~e.service.up
    <3>1. CASE dies
      BY <2>4, <2>5, <3>1, DiesKeeps DEF Outside
    <3>2. CASE ~dies
      <4>1. e = c BY <3>2
      <4> QED BY <1>3, <2>4, <2>5, <4>1
    <3> QED BY <3>1, <3>2
  <2> HIDE DEF e
  <2>7. e \in View BY <2>6 DEF Sound
  <2>8. /\ r \in View /\ r.service = e.service /\ r.inbox = e.inbox
        /\ r.client.bus = e.client.bus /\ r.client.enabled = e.client.enabled
        /\ r.client.panel = e.client.panel
        /\ r.client.owner = e.service.up
        /\ r.client.runtime = IF e.service.up THEN e.service.runtime ELSE "absent"
        /\ Believes(r)
    BY <2>7, RefreshDoes
  <2> HIDE DEF r
  <2>9. Sound(r)
    <3>1. e.client.bus BY <1>3, <2>4, <2>6
    <3> QED BY <2>6, <2>8, <3>1, OpinionKeeps
  <2>10. available(r.client) => onDisplay(r)
    BY <2>4, <2>6, <2>8 DEF available, onDisplay
  <2>11. Len(r.inbox) <= Len(w.inbox) + 2
    <3>1. Len(e.inbox) \in Nat BY <2>7 DEF View
    <3> QED BY <1>3, <2>4, <2>6, <2>8, <3>1
  <2> QED BY <1>3, <2>1, <2>4, <2>6, <2>8, <2>9, <2>10, <2>11 DEF v
<1>6. a.service.up \in BOOLEAN BY <1>3 DEF View, Service
<1> QED BY <1>4, <1>5, <1>6

\* With nothing to read, a message goes to a panel someone sees or is said
\* otherwise.
LEMMA ShowKeeps ==
  ASSUME NEW w, NEW opens \in BOOLEAN, NEW can \in BOOLEAN,
         NEW runtime \in {"idle", "live"}, NEW accepts \in BOOLEAN, NEW dies \in BOOLEAN,
         HudBounds, Sound(w), w.client.bus => w.client.enabled
  PROVE  LET v == show(w, opens, can, runtime, accepts, dies)
         IN  /\ Sound(v) /\ Len(v.inbox) <= Len(w.inbox) + 2
             /\ v.client.bus => v.client.enabled
             /\ w.inbox = <<>> /\ available(v.client) => onDisplay(v)
<1> DEFINE b == ensureBus(w, opens)
           c == createPanel(b, can, runtime, accepts, dies)
           a == activate(b, can, runtime)
           v == show(w, opens, can, runtime, accepts, dies)
<1>1. v = IF ~w.client.enabled THEN w
          ELSE IF ~b.client.bus THEN b
          ELSE IF b.client.panel = 0 THEN c ELSE a
  BY DEF show
<1>2. Len(w.inbox) \in Nat BY DEF Sound, View
<1> HIDE DEF v
<1>3. CASE ~w.client.enabled
  <2>1. v = w BY <1>1, <1>3
  <2> QED BY <1>2, <1>3, <2>1 DEF available, v
<1>4. CASE w.client.enabled
  <2>1. /\ Sound(b) /\ b.service = w.service /\ b.inbox = w.inbox
        /\ b.client.panel = w.client.panel /\ b.client.enabled
        /\ w.client.bus => b = w
    BY <1>4, EnsureBusKeeps
  <2> HIDE DEF b
  <2>2. CASE ~b.client.bus
    <3>1. v = b BY <1>1, <1>4, <2>2
    <3> QED BY <1>2, <2>1, <2>2, <3>1 DEF available, v
  <2>3. CASE b.client.bus /\ b.client.panel = 0
    <3>1. v = c BY <1>1, <1>4, <2>3
    <3>2. /\ Sound(c) /\ Len(c.inbox) <= Len(b.inbox) + 2
          /\ c.client.enabled = b.client.enabled
          /\ available(c.client) => onDisplay(c)
      <4>1. Sound(b) /\ b.client.bus /\ b.client.panel = 0 BY <2>1, <2>3
      <4>2. Sound(c) BY <4>1, CreateKeeps
      <4>3. Len(c.inbox) <= Len(b.inbox) + 2 BY <4>1, CreateKeeps
      <4>4. c.client.enabled = b.client.enabled BY <4>1, CreateKeeps
      <4>5. available(c.client) => onDisplay(c) BY <4>1, CreateKeeps
      <4> QED BY <4>2, <4>3, <4>4, <4>5
    <3> HIDE DEF c
    <3> QED BY <2>1, <3>1, <3>2 DEF v
  <2>4. CASE b.client.bus /\ b.client.panel # 0
    <3>1. v = a BY <1>1, <1>4, <2>4
    <3>2. b = w BY <2>1, <2>4 DEF Sound, Closed
    <3>3. Outside(b, a, 1) /\ (b.service.up => a = b) BY <2>1, ActivateKeeps
    <3> HIDE DEF a
    <3>4. Len(a.inbox) \in Nat BY <3>3 DEF Outside, Sound, View
    <3>5. ASSUME w.inbox = <<>>, available(a.client) PROVE onDisplay(a)
      <4>1. Len(w.inbox) = 0 BY <3>5
      <4>2. Believes(w) BY <4>1 DEF Sound, Honest
      <4>3. w.client.panel \in w.service.panels BY <2>4, <3>2, <4>1 DEF Sound, Excused
      <4>4. w.client.owner /\ w.client.runtime = "live"
        BY <3>2, <3>3, <3>5 DEF available, Outside
      <4> QED BY <3>2, <3>3, <4>2, <4>3, <4>4 DEF Believes, onDisplay
    <3> QED BY <1>2, <2>1, <3>1, <3>2, <3>3, <3>4, <3>5 DEF Outside, v
  <2>5. b.client.bus \in BOOLEAN BY <2>1 DEF Sound, View, Client
  <2> QED BY <2>2, <2>3, <2>4, <2>5
<1>5. w.client.enabled \in BOOLEAN BY DEF Sound, View, Client
<1> QED BY <1>3, <1>4, <1>5

\* A panel that is down may be forgotten.
LEMMA ForgetKeeps ==
  ASSUME NEW w, Sound(w), w.client.panel \notin w.service.panels
  PROVE  LET v == [w EXCEPT !.client.panel = 0]
         IN  /\ Sound(v) /\ v.service = w.service /\ v.inbox = w.inbox
             /\ v.client.bus = w.client.bus /\ v.client.enabled = w.client.enabled
             /\ v.client.panel = 0
<1> DEFINE v == [w EXCEPT !.client.panel = 0]
<1>1. w \in View BY DEF Sound
<1>2. /\ v \in View /\ v.service = w.service /\ v.inbox = w.inbox
      /\ v.client.bus = w.client.bus /\ v.client.enabled = w.client.enabled
      /\ v.client.owner = w.client.owner /\ v.client.runtime = w.client.runtime
      /\ v.client.panel = 0
  BY <1>1 DEF View, Client
<1> HIDE DEF v
<1>3. Closed(v) /\ Dark(v) /\ Excused(v) BY <1>2 DEF Sound, Closed, Dark, Excused
<1>4. Honest(v) /\ Latest(v) BY <1>2 DEF Sound, Honest, Latest, Believes
<1>5. First(v) BY <1>2 DEF Sound, First
<1>6. Sound(v) BY <1>2, <1>3, <1>4, <1>5 DEF Sound
<1> QED BY <1>2, <1>6 DEF v

\* The panel is taken down before it is forgotten.
LEMMA HideKeeps ==
  ASSUME NEW w, NEW can \in BOOLEAN, NEW runtime \in {"idle", "live"}, HudBounds, Sound(w)
  PROVE  LET v == hide(w, can, runtime)
         IN  /\ Sound(v) /\ Len(v.inbox) <= Len(w.inbox) + 2
             /\ v.client.bus = w.client.bus /\ v.client.enabled = w.client.enabled
             /\ v.client.panel = 0
<1> DEFINE a == activate(w, can, runtime)
           g == panelGoes(a, a.client.panel)
           d == IF a.client.panel \in a.service.panels THEN g ELSE a
           e == [d EXCEPT !.client.panel = 0]
           v == hide(w, can, runtime)
<1>1. v = IF ~w.client.bus \/ w.client.panel = 0 THEN w ELSE e BY DEF hide
<1>2. Outside(w, a, 1) BY ActivateKeeps
<1>3. Len(w.inbox) \in Nat BY DEF Sound, View
<1> HIDE DEF a, v
<1>4. Sound(a) /\ a.client = w.client /\ Len(a.inbox) <= Len(w.inbox) + 1
      /\ Len(a.inbox) \in Nat
  BY <1>2 DEF Outside, Sound, View
<1>5. CASE ~w.client.bus \/ w.client.panel = 0
  <2>1. v = w BY <1>1, <1>5
  <2> QED BY <1>3, <1>5, <2>1 DEF Sound, Closed, v
<1>6. CASE w.client.bus /\ w.client.panel # 0
  <2>1. v = e BY <1>1, <1>6
  <2>2. /\ Sound(d) /\ d.client = w.client /\ Len(d.inbox) <= Len(w.inbox) + 2
        /\ d.client.panel \notin d.service.panels
    <3>1. CASE a.client.panel \in a.service.panels
      <4>1. Outside(a, g, 1) /\ g.service.panels = a.service.panels \ {a.client.panel}
        BY <1>4, <3>1, GoesKeeps
      <4>2. d = g BY <3>1
      <4> HIDE DEF d, g
      <4>3. Len(g.inbox) \in Nat BY <4>1 DEF Outside, Sound, View
      <4> QED BY <1>3, <1>4, <4>1, <4>2, <4>3 DEF Outside
    <3>2. CASE a.client.panel \notin a.service.panels
      <4>1. d = a BY <3>2
      <4> QED BY <1>3, <1>4, <3>2, <4>1
    <3> QED BY <3>1, <3>2
  <2> HIDE DEF d
  <2>3. /\ Sound(e) /\ e.inbox = d.inbox /\ e.client.panel = 0
        /\ e.client.bus = d.client.bus /\ e.client.enabled = d.client.enabled
    BY <2>2, ForgetKeeps
  <2> HIDE DEF e
  <2> QED BY <2>1, <2>2, <2>3 DEF v
<1>7. w.client.bus \in BOOLEAN BY DEF Sound, View, Client
<1> QED BY <1>5, <1>6, <1>7

\* A client that stops has hidden its panel, reads no more and believes nothing.
LEMMA StopKeeps ==
  ASSUME NEW w, NEW can \in BOOLEAN, NEW runtime \in {"idle", "live"}, HudBounds, Sound(w)
  PROVE  LET v == stop(w, can, runtime)
         IN  Sound(v) /\ v.inbox = <<>> /\ ~v.client.bus
<1> DEFINE h == hide(w, can, runtime)
           off == [enabled |-> w.client.enabled, bus |-> FALSE, panel |-> 0,
                   owner |-> FALSE, runtime |-> "absent"]
           v == [h EXCEPT !.client = off, !.inbox = <<>>]
<1>1. stop(w, can, runtime) = v BY DEF stop
<1>2. Sound(h) /\ h.client.panel = 0 BY HideKeeps
<1> HIDE DEF h
<1>3. off \in Client /\ ~off.bus /\ off.panel = 0 /\ ~off.owner
  BY DEF Sound, View, Client
<1> HIDE DEF off
<1>4. <<>> \in Seq(Signal) /\ Len(<<>>) = 0 OBVIOUS
<1>5. v \in View /\ v.client = off /\ v.inbox = <<>> /\ v.service = h.service
  BY <1>2, <1>3, <1>4 DEF Sound, View
<1> HIDE DEF v
<1>6. Closed(v) /\ Dark(v) /\ Excused(v)
  BY <1>2, <1>3, <1>5 DEF Sound, Closed, Dark, Excused
<1>7. Honest(v) /\ Latest(v) BY <1>3, <1>4, <1>5 DEF Honest, Latest, Believes
<1>8. First(v) BY <1>2, <1>3, <1>4, <1>5 DEF Sound, First
<1>9. Sound(v) BY <1>5, <1>6, <1>7, <1>8 DEF Sound
<1> QED BY <1>1, <1>3, <1>5, <1>9

\* A reload turns the client on or off.
LEMMA ConfigureKeeps ==
  ASSUME NEW w, NEW hud \in BOOLEAN, NEW opens \in BOOLEAN, NEW can \in BOOLEAN,
         NEW runtime \in {"idle", "live"}, HudBounds, Sound(w)
  PROVE  LET v == configure(w, hud, opens, can, runtime)
         IN  /\ Sound(v) /\ Len(v.inbox) <= Len(w.inbox) + 2
             /\ v.client.bus => v.client.enabled
<1> DEFINE c == [w EXCEPT !.client.enabled = hud]
           e == ensureBus(c, opens)
           s == stop(c, can, runtime)
           v == configure(w, hud, opens, can, runtime)
<1>1. v = IF hud THEN e ELSE s BY DEF configure
<1> HIDE DEF v
<1>2. w \in View /\ Len(w.inbox) \in Nat BY DEF Sound, View
<1>3. /\ c \in View /\ c.service = w.service /\ c.inbox = w.inbox
      /\ c.client.bus = w.client.bus /\ c.client.panel = w.client.panel
      /\ c.client.owner = w.client.owner /\ c.client.runtime = w.client.runtime
      /\ c.client.enabled = hud
  BY <1>2 DEF View, Client
<1> HIDE DEF c
<1>4. Sound(c)
  BY <1>3 DEF Sound, Closed, Dark, Honest, Believes, Latest, Excused, First
<1>5. CASE hud
  <2>1. Sound(e) /\ e.inbox = c.inbox /\ e.client.enabled
    BY <1>3, <1>4, <1>5, EnsureBusKeeps
  <2> HIDE DEF e
  <2> QED BY <1>1, <1>2, <1>3, <1>5, <2>1 DEF v
<1>6. CASE ~hud
  <2>1. Sound(s) /\ s.inbox = <<>> /\ ~s.client.bus BY <1>4, StopKeeps
  <2> HIDE DEF s
  <2>2. Len(s.inbox) = 0 BY <2>1
  <2> QED BY <1>1, <1>2, <1>6, <2>1, <2>2 DEF v
<1> QED BY <1>5, <1>6
-----------------------------------------------------------------------------
(* A poll, signal by signal.                                               *)

\* A set of naturals that holds 0 and every successor of its own holds them all.
LEMMA Counting ==
  ASSUME NEW S, 0 \in S, \A n \in Nat : n \in S => n + 1 \in S
  PROVE  Nat \subseteq S
<1> SUFFICES ASSUME NEW x \in Nat, x \notin S PROVE FALSE OBVIOUS
<1> DEFINE T == Nat \ S
<1>1. PICK m \in T : \A c \in T : ~(<<c, m>> \in OpToRel(<, Nat))
  BY NatLessThanWellFounded, WFMin
<1>2. m # 0 /\ m \in Nat OBVIOUS
<1>3. m - 1 \in T BY <1>2
<1>4. <<m - 1, m>> \in OpToRel(<, Nat) BY <1>2, <1>3 DEF OpToRel
<1> QED BY <1>1, <1>3, <1>4

\* What a fold over the signals of q is when the first n are left, on every set
\* of their places.
Folds(f, b, q, n) ==
  f = [s \in SUBSET (1 .. n) |->
         IF s = {} THEN b ELSE dispatch(f[s \ {Max(s)}], q[Max(s)])]

\* The greatest of the first n + 1 numbers is n + 1 itself.
LEMMA LastIsMax ==
  ASSUME NEW n \in Nat, NEW s \in SUBSET (1 .. n + 1), n + 1 \in s
  PROVE  Max(s) = n + 1 /\ s \ {n + 1} \in SUBSET (1 .. n)
<1>1. \A y \in s : n + 1 >= y OBVIOUS
<1>2. ASSUME NEW x \in s, \A y \in s : x >= y PROVE x = n + 1
  BY <1>2
<1>3. Max(s) = n + 1 BY <1>1, <1>2 DEF Max
<1>4. \A i \in 1 .. n + 1 : i \in 1 .. n \/ i = n + 1 OBVIOUS
<1> QED BY <1>3, <1>4

\* There is such a function, for an inbox of any length.
LEMMA FoldExists ==
  ASSUME NEW b, NEW q, NEW N \in Nat
  PROVE  \E f : Folds(f, b, q, N)
<1> DEFINE S == {n \in Nat : \E f : Folds(f, b, q, n)}
<1>1. 0 \in S
  <2> DEFINE f == [s \in SUBSET (1 .. 0) |-> b]
  <2>1. 1 .. 0 = {} OBVIOUS
  <2>2. \A s \in SUBSET (1 .. 0) : s = {} BY <2>1
  <2>3. Folds(f, b, q, 0) BY <2>2 DEF Folds
  <2> HIDE DEF f
  <2> QED BY <2>3
<1>2. ASSUME NEW n \in Nat, n \in S PROVE n + 1 \in S
  <2>1. PICK f : Folds(f, b, q, n) BY <1>2
  <2> DEFINE g == [s \in SUBSET (1 .. n + 1) |->
                     IF n + 1 \in s THEN dispatch(f[s \ {n + 1}], q[n + 1]) ELSE f[s]]
             step == [s \in SUBSET (1 .. n + 1) |->
                        IF s = {} THEN b ELSE dispatch(g[s \ {Max(s)}], q[Max(s)])]
  <2>2. ASSUME NEW s \in SUBSET (1 .. n + 1)
        PROVE  g[s] = IF s = {} THEN b ELSE dispatch(g[s \ {Max(s)}], q[Max(s)])
    <3>1. CASE n + 1 \in s
      <4>1. Max(s) = n + 1 /\ s \ {n + 1} \in SUBSET (1 .. n) BY <3>1, LastIsMax
      <4>2. SUBSET (1 .. n) \subseteq SUBSET (1 .. n + 1) OBVIOUS
      <4>3. g[s \ {n + 1}] = f[s \ {n + 1}] BY <4>1, <4>2
      <4>4. g[s] = dispatch(f[s \ {n + 1}], q[n + 1]) BY <3>1
      <4> HIDE DEF g
      <4> QED BY <3>1, <4>1, <4>3, <4>4
    <3>2. CASE n + 1 \notin s
      <4>1. s \in SUBSET (1 .. n)
        <5>1. \A i \in 1 .. n + 1 : i \in 1 .. n \/ i = n + 1 OBVIOUS
        <5> QED BY <3>2, <5>1
      <4>2. f[s] = IF s = {} THEN b ELSE dispatch(f[s \ {Max(s)}], q[Max(s)])
        BY <2>1, <4>1 DEF Folds
      <4>3. g[s] = f[s] BY <3>2
      <4>4. g[s \ {Max(s)}] = f[s \ {Max(s)}] BY <3>2
      <4> HIDE DEF g
      <4> QED BY <4>2, <4>3, <4>4
    <3> QED BY <3>1, <3>2
  <2>3. g = [s \in SUBSET (1 .. n + 1) |-> g[s]] OBVIOUS
  <2> HIDE DEF g
  <2>4. g = step BY <2>2, <2>3
  <2>5. Folds(g, b, q, n + 1) BY <2>4 DEF Folds
  <2> QED BY <2>5
<1>3. Nat \subseteq S BY <1>1, <1>2, Counting
<1> QED BY <1>3

\* A poll dispatches the signals one by one, in the order they came.
LEMMA PollSteps ==
  ASSUME NEW w \in View
  PROVE  \E g : /\ g[0] = [w EXCEPT !.inbox = <<>>]
                /\ \A k \in Nat : k < Len(w.inbox) =>
                     g[k + 1] = dispatch(g[k], w.inbox[k + 1])
                /\ poll(w) = g[Len(w.inbox)]
<1> DEFINE b == [w EXCEPT !.inbox = <<>>]
           q == w.inbox
           n == Len(q)
           N == DOMAIN q
           f == CHOOSE h : h = [s \in SUBSET N |->
                  IF s = {} THEN b ELSE dispatch(h[s \ {Max(s)}], q[Max(s)])]
           g == [k \in 0 .. n |-> f[1 .. k]]
<1>1. n \in Nat /\ N = 1 .. n BY DEF View
<1>2. poll(w) = f[N] BY DEF poll, FoldLeft, MapThenFoldSet
<1> HIDE DEF b, q, n
<1>3. f = CHOOSE h : Folds(h, b, q, n) BY <1>1 DEF Folds
<1> HIDE DEF f, N
<1>4. Folds(f, b, q, n) BY <1>1, <1>3, FoldExists
<1>5. g[0] = b
  <2>1. 1 .. 0 = {} OBVIOUS
  <2>2. f[{}] = b BY <1>4 DEF Folds
  <2> QED BY <1>1, <2>1, <2>2
<1>6. ASSUME NEW k \in Nat, k < n PROVE g[k + 1] = dispatch(g[k], q[k + 1])
  <2>1. k \in 0 .. n /\ k + 1 \in 0 .. n BY <1>1, <1>6
  <2>2. 1 .. k + 1 \in SUBSET (1 .. n) /\ k + 1 \in 1 .. k + 1 BY <1>1, <1>6
  <2>3. Max(1 .. k + 1) = k + 1 BY <2>2, LastIsMax
  <2>4. (1 .. k + 1) \ {k + 1} = 1 .. k OBVIOUS
  <2>5. f[1 .. k + 1] = dispatch(f[1 .. k], q[k + 1])
    BY <1>4, <2>2, <2>3, <2>4 DEF Folds
  <2> QED BY <2>1, <2>5
<1>7. poll(w) = g[n] BY <1>1, <1>2
<1> HIDE DEF g
<1> QED BY <1>5, <1>6, <1>7 DEF b, q, n

\* What reading a piece of news leaves the client thinking.
Reported(v, s) == /\ s.kind = "state" => v.client.owner /\ v.client.runtime = s.runtime
                  /\ s.kind = "owner" => Believes(v)

\* One signal changes what it is about.
Dispatched(w, v, s) ==
  /\ v \in View /\ v.service = w.service /\ v.inbox = w.inbox
  /\ v.client.bus = w.client.bus /\ v.client.enabled = w.client.enabled
  /\ v.client.panel = IF Excuse(s, w.client.panel) THEN 0 ELSE w.client.panel
  /\ ~News(s) => v.client.owner = w.client.owner /\ v.client.runtime = w.client.runtime
  /\ News(s) => Reported(v, s)

\* A signal read is believed, and is otherwise without effect.
LEMMA DispatchDoes ==
  ASSUME NEW w \in View, NEW s \in Signal
  PROVE  Dispatched(w, dispatch(w, s), s)
<1> DEFINE v == dispatch(w, s)
<1>1. CASE s \in [kind : {"state"}, runtime : {"idle", "live"}]
  <2> DEFINE x == [w EXCEPT !.client.runtime = s.runtime, !.client.owner = TRUE]
  <2>1. s.kind = "state" /\ s.runtime \in {"idle", "live"} BY <1>1
  <2>2. v = x BY <2>1 DEF dispatch, onRuntimeStateChanged
  <2>3. /\ x \in View /\ x.service = w.service /\ x.inbox = w.inbox
        /\ x.client.bus = w.client.bus /\ x.client.enabled = w.client.enabled
        /\ x.client.panel = w.client.panel /\ x.client.owner
        /\ x.client.runtime = s.runtime
    BY <2>1 DEF View, Client
  <2> HIDE DEF x, v
  <2>4. News(s) /\ ~Excuse(s, w.client.panel) /\ Reported(x, s)
    BY <2>1, <2>3 DEF News, Excuse, Reported
  <2> QED BY <2>2, <2>3, <2>4 DEF Dispatched, v
<1>2. CASE s \in [kind : {"dismissed"}, panel : Id]
  <2> DEFINE p == IF w.client.panel = s.panel THEN 0 ELSE w.client.panel
             x == [w EXCEPT !.client.panel = p]
  <2>1. s.kind = "dismissed" BY <1>2
  <2>2. v = x BY <2>1 DEF dispatch, onPanelDismissed
  <2>3. p \in {0} \cup Id BY DEF View, Client
  <2>4. p = IF Excuse(s, w.client.panel) THEN 0 ELSE w.client.panel
    BY <2>1 DEF Excuse
  <2> HIDE DEF p
  <2>5. /\ x \in View /\ x.service = w.service /\ x.inbox = w.inbox
        /\ x.client.bus = w.client.bus /\ x.client.enabled = w.client.enabled
        /\ x.client.panel = p /\ x.client.owner = w.client.owner
        /\ x.client.runtime = w.client.runtime
    BY <2>3 DEF View, Client
  <2> HIDE DEF x, v
  <2>6. ~News(s) BY <2>1 DEF News
  <2> QED BY <2>2, <2>4, <2>5, <2>6 DEF Dispatched, v
<1>3. CASE s \in [kind : {"owner"}, up : BOOLEAN]
  <2>1. s.kind = "owner" /\ s.up \in BOOLEAN /\ News(s) BY <1>3 DEF News
  <2>2. v = onNameOwnerChanged(w, s.up) BY <2>1 DEF dispatch
  <2> HIDE DEF v
  <2>3. CASE s.up
    <3> DEFINE o == [w EXCEPT !.client.owner = TRUE]
               x == refreshOwnerAndState(o)
    <3>1. v = x BY <2>2, <2>3 DEF onNameOwnerChanged
    <3>2. /\ o \in View /\ o.service = w.service /\ o.inbox = w.inbox
          /\ o.client.bus = w.client.bus /\ o.client.enabled = w.client.enabled
          /\ o.client.panel = w.client.panel
      BY DEF View, Client
    <3> HIDE DEF o
    <3>3. /\ x \in View /\ x.service = o.service /\ x.inbox = o.inbox
          /\ x.client.bus = o.client.bus /\ x.client.enabled = o.client.enabled
          /\ x.client.panel = o.client.panel /\ Believes(x)
      BY <3>2, RefreshDoes
    <3> HIDE DEF x
    <3>4. ~Excuse(s, w.client.panel) BY <2>1, <2>3 DEF Excuse
    <3> QED BY <2>1, <3>1, <3>2, <3>3, <3>4 DEF Dispatched, Reported, v
  <2>4. CASE ~s.up
    <3> DEFINE x == [w EXCEPT !.client.owner = FALSE, !.client.runtime = "absent",
                              !.client.panel = 0]
    <3>1. v = x BY <2>2, <2>4 DEF onNameOwnerChanged
    <3>2. /\ x \in View /\ x.service = w.service /\ x.inbox = w.inbox
          /\ x.client.bus = w.client.bus /\ x.client.enabled = w.client.enabled
          /\ x.client.panel = 0 /\ ~x.client.owner
      BY DEF View, Client
    <3> HIDE DEF x
    <3>3. Excuse(s, w.client.panel) /\ Believes(x)
      BY <2>1, <2>4, <3>2 DEF Excuse, Believes
    <3> QED BY <2>1, <3>1, <3>2, <3>3 DEF Dispatched, Reported, v
  <2> QED BY <2>1, <2>3, <2>4
<1> QED BY <1>1, <1>2, <1>3 DEF Signal

\* What k signals have told the client: its panel is gone only if one excused
\* it, and its opinion is the old one or that of the last news.
Reads(w, v, k) ==
  /\ v \in View /\ v.service = w.service /\ v.inbox = <<>>
  /\ v.client.bus = w.client.bus /\ v.client.enabled = w.client.enabled
  /\ IF \E i \in 1 .. k : Excuse(w.inbox[i], w.client.panel)
     THEN v.client.panel = 0 ELSE v.client.panel = w.client.panel
  /\ \/ /\ \A i \in 1 .. k : ~News(w.inbox[i])
        /\ v.client.owner = w.client.owner /\ v.client.runtime = w.client.runtime
     \/ \E i \in 1 .. k : /\ News(w.inbox[i]) /\ Reported(v, w.inbox[i])
                          /\ \A j \in i + 1 .. k : ~News(w.inbox[j])

\* Having read k signals and then one more is having read k + 1.
LEMMA ReadsOne ==
  ASSUME NEW w \in View, NEW k \in Nat, k < Len(w.inbox), NEW v, Reads(w, v, k)
  PROVE  Reads(w, dispatch(v, w.inbox[k + 1]), k + 1)
<1> DEFINE s == w.inbox[k + 1]
           u == dispatch(v, s)
<1>1. s \in Signal BY DEF View
<1>2. /\ \A i \in 1 .. k + 1 : i \in 1 .. k \/ i = k + 1
      /\ \A i \in 1 .. k : i \in 1 .. k + 1 /\ k + 1 \in i + 1 .. k + 1
      /\ \A i \in 1 .. k : \A j \in i + 1 .. k + 1 : j \in i + 1 .. k \/ j = k + 1
      /\ k + 1 \in 1 .. k + 1 /\ \A j \in k + 2 .. k + 1 : FALSE
  OBVIOUS
<1>3. v \in View BY DEF Reads
<1>4. Dispatched(v, u, s) BY <1>1, <1>3, DispatchDoes
<1> HIDE DEF u
<1>5. IF \E i \in 1 .. k + 1 : Excuse(w.inbox[i], w.client.panel)
      THEN u.client.panel = 0 ELSE u.client.panel = w.client.panel
  <2>1. Excuse(s, 0) => u.client.panel = 0 \/ v.client.panel # 0
    BY <1>4 DEF Dispatched
  <2>2. CASE \E i \in 1 .. k : Excuse(w.inbox[i], w.client.panel)
    BY <1>2, <1>4, <2>2 DEF Reads, Dispatched
  <2>3. CASE ~\E i \in 1 .. k : Excuse(w.inbox[i], w.client.panel)
    <3>1. v.client.panel = w.client.panel BY <2>3 DEF Reads
    <3>2. (\E i \in 1 .. k + 1 : Excuse(w.inbox[i], w.client.panel))
            <=> Excuse(s, w.client.panel)
      BY <1>2, <2>3
    <3> QED BY <1>4, <3>1, <3>2 DEF Dispatched
  <2> QED BY <2>2, <2>3
<1>6. \/ /\ \A i \in 1 .. k + 1 : ~News(w.inbox[i])
         /\ u.client.owner = w.client.owner /\ u.client.runtime = w.client.runtime
      \/ \E i \in 1 .. k + 1 : /\ News(w.inbox[i]) /\ Reported(u, w.inbox[i])
                               /\ \A j \in i + 1 .. k + 1 : ~News(w.inbox[j])
  <2>1. CASE News(s)
    <3>1. Reported(u, s) BY <1>4, <2>1 DEF Dispatched
    <3>2. \A j \in (k + 1) + 1 .. k + 1 : ~News(w.inbox[j]) OBVIOUS
    <3> QED BY <1>2, <2>1, <3>1, <3>2
  <2>2. CASE ~News(s)
    <3>1. /\ u.client.owner = v.client.owner /\ u.client.runtime = v.client.runtime
          /\ u.service = v.service
      BY <1>4, <2>2 DEF Dispatched
    <3>2. CASE \A i \in 1 .. k : ~News(w.inbox[i])
      <4>1. v.client.owner = w.client.owner /\ v.client.runtime = w.client.runtime
        BY <3>2 DEF Reads
      <4> QED BY <1>2, <2>2, <3>1, <3>2, <4>1
    <3>3. CASE ~(\A i \in 1 .. k : ~News(w.inbox[i]))
      <4>1. PICK i \in 1 .. k : /\ News(w.inbox[i]) /\ Reported(v, w.inbox[i])
                                /\ \A j \in i + 1 .. k : ~News(w.inbox[j])
        BY <3>3 DEF Reads
      <4>2. Reported(u, w.inbox[i]) BY <3>1, <4>1 DEF Reported, Believes
      <4>3. \A j \in i + 1 .. k + 1 : ~News(w.inbox[j]) BY <1>2, <2>2, <4>1
      <4> QED BY <1>2, <4>1, <4>2, <4>3
    <3> QED BY <3>2, <3>3
  <2> QED BY <2>1, <2>2
<1> HIDE DEF s
<1> QED BY <1>4, <1>5, <1>6 DEF Reads, Dispatched, u, s

\* A poll reads all that is queued, in order.
LEMMA PollReads ==
  ASSUME NEW w \in View
  PROVE  Reads(w, poll(w), Len(w.inbox))
<1> DEFINE n == Len(w.inbox)
           b == [w EXCEPT !.inbox = <<>>]
<1>1. n \in Nat BY DEF View
<1>2. PICK g : /\ g[0] = b
               /\ \A k \in Nat : k < n => g[k + 1] = dispatch(g[k], w.inbox[k + 1])
               /\ poll(w) = g[n]
  BY PollSteps
<1> HIDE DEF n
<1> DEFINE S == {k \in Nat : k <= n => Reads(w, g[k], k)}
<1>3. 0 \in S
  <2>1. <<>> \in Seq(Signal) OBVIOUS
  <2>2. b \in View /\ b.client = w.client /\ b.service = w.service /\ b.inbox = <<>>
    BY <2>1 DEF View
  <2> HIDE DEF b
  <2>3. \A i \in 1 .. 0 : FALSE OBVIOUS
  <2>4. Reads(w, b, 0) BY <2>2, <2>3 DEF Reads
  <2> QED BY <1>2, <2>4
<1>4. ASSUME NEW k \in Nat, k \in S PROVE k + 1 \in S
  <2> SUFFICES ASSUME k + 1 <= n PROVE Reads(w, g[k + 1], k + 1) OBVIOUS
  <2>1. k <= n /\ k < n BY <1>1
  <2>2. Reads(w, g[k], k) BY <1>4, <2>1
  <2>3. g[k + 1] = dispatch(g[k], w.inbox[k + 1]) BY <1>2, <2>1
  <2> QED BY <2>1, <2>2, <2>3, ReadsOne DEF n
<1>5. Nat \subseteq S BY <1>3, <1>4, Counting
<1>6. Reads(w, g[n], n) BY <1>1, <1>5
<1> QED BY <1>2, <1>6 DEF n

\* A poll pays what the waiting signals owed.
LEMMA PollKeeps ==
  ASSUME NEW w, Sound(w)
  PROVE  LET v == poll(w)
         IN  /\ Sound(v) /\ v.inbox = <<>>
             /\ v.client.bus = w.client.bus /\ v.client.enabled = w.client.enabled
<1> DEFINE v == poll(w)
           n == Len(w.inbox)
<1>1. w \in View /\ n \in Nat BY DEF Sound, View
<1>2. Reads(w, v, n) BY <1>1, PollReads
<1> HIDE DEF v
<1>3. /\ v \in View /\ v.service = w.service /\ v.inbox = <<>> /\ Len(v.inbox) = 0
      /\ v.client.bus = w.client.bus /\ v.client.enabled = w.client.enabled
  BY <1>2 DEF Reads
<1>4. Believes(v)
  <2>1. CASE \A i \in 1 .. n : ~News(w.inbox[i])
    <3>1. v.client.owner = w.client.owner /\ v.client.runtime = w.client.runtime
      BY <1>2, <2>1 DEF Reads
    <3>2. Believes(w) BY <2>1 DEF Sound, Honest
    <3> QED BY <1>3, <3>1, <3>2 DEF Believes
  <2>2. CASE ~(\A i \in 1 .. n : ~News(w.inbox[i]))
    <3>1. PICK i \in 1 .. n : /\ News(w.inbox[i]) /\ Reported(v, w.inbox[i])
                              /\ \A j \in i + 1 .. n : ~News(w.inbox[j])
      BY <1>2, <2>2 DEF Reads
    <3>2. CASE w.inbox[i].kind = "owner" BY <3>1, <3>2 DEF Reported
    <3>3. CASE w.inbox[i].kind = "state"
      <4>1. w.service.up /\ w.service.runtime = w.inbox[i].runtime
        BY <3>1, <3>3 DEF Sound, Latest
      <4> QED BY <1>3, <3>1, <3>3, <4>1 DEF Reported, Believes
    <3> QED BY <3>1, <3>2, <3>3 DEF News
  <2> QED BY <2>1, <2>2
<1>5. Closed(v)
  <2> SUFFICES ASSUME ~w.client.bus PROVE ~v.client.owner /\ v.client.panel = 0
    BY <1>3 DEF Closed
  <2>1. n = 0 /\ ~w.client.owner /\ w.client.panel = 0 BY DEF Sound, Closed
  <2>2. \A i \in 1 .. n : FALSE BY <2>1
  <2> QED BY <1>2, <2>1, <2>2 DEF Reads
<1>6. Dark(v) BY <1>3 DEF Sound, Dark
<1>7. Honest(v) /\ Latest(v) BY <1>3, <1>4 DEF Honest, Latest
<1>8. Excused(v) BY <1>2, <1>3 DEF Sound, Excused, Reads
<1>9. First(v)
  <2> SUFFICES ASSUME w.service.starts <= 1
               PROVE  w.service.panels \subseteq {v.client.panel}
    BY <1>3 DEF First
  <2>1. w.service.panels \subseteq {w.client.panel} BY DEF Sound, First
  <2>2. CASE \E i \in 1 .. n : Excuse(w.inbox[i], w.client.panel)
    <3>1. PICK i \in 1 .. n : Excuse(w.inbox[i], w.client.panel) BY <2>2
    <3>2. w.client.panel \notin w.service.panels
      BY <3>1 DEF Excuse, Sound, First, Dark
    <3> QED BY <2>1, <3>2
  <2>3. CASE ~\E i \in 1 .. n : Excuse(w.inbox[i], w.client.panel)
    BY <1>2, <2>1, <2>3 DEF Reads
  <2> QED BY <2>2, <2>3
<1>10. Sound(v) BY <1>3, <1>5, <1>6, <1>7, <1>8, <1>9 DEF Sound
<1> QED BY <1>3, <1>10 DEF v
-----------------------------------------------------------------------------
(* The theorems.                                                           *)

HInv == /\ Sound(Now) /\ (client.bus => client.enabled)
        /\ Len(inbox) <= MaxUnread /\ told \in Told

\* A step to a sound view keeps the invariant.
LEMMA BecomeKeeps ==
  ASSUME NEW v, Become(v), Sound(v), v.client.bus => v.client.enabled,
         Len(v.inbox) <= MaxUnread, told' \in Told
  PROVE  HInv'
<1>1. v \in View BY DEF Sound
<1>2. v = [client |-> v.client, service |-> v.service, inbox |-> v.inbox] BY <1>1 DEF View
<1>3. Now' = v BY <1>2 DEF Become, Now
<1>4. Sound(Now)' BY <1>3
<1> QED BY <1>4 DEF HInv, Become

\* The invariant holds at the start.
LEMMA InitHInv ==
  ASSUME HudBounds, Init
  PROVE  HInv
<1>1. <<>> \in Seq(Signal) /\ Len(<<>>) = 0 OBVIOUS
<1>2. Now \in View BY <1>1 DEF HudBounds, Init, Now, View, Client, Service
<1>3. Now.client = client /\ Now.service = service /\ Now.inbox = <<>> BY DEF Now, Init
<1>4. Sound(Now)
  BY <1>1, <1>2, <1>3
     DEF Init, Sound, Closed, Dark, Honest, Believes, Latest, Excused, First
<1> QED BY <1>1, <1>4 DEF HInv, Init, Told, HudBounds

\* Every step keeps it.
LEMMA NextHInv ==
  ASSUME HudBounds, HInv, [Next]_vars
  PROVE  HInv'
<1> DEFINE w == Now
<1>1. /\ Sound(w) /\ w.client = client /\ w.service = service /\ w.inbox = inbox
      /\ Len(inbox) \in Nat /\ (w.client.bus => w.client.enabled)
      /\ told \in Told
  BY DEF HInv, Now, Sound, View
<1> HIDE DEF w
<1>2. ASSUME NEW v, Outside(w, v, 1), Room, Become(v), UNCHANGED told PROVE HInv'
  <2>1. Len(v.inbox) \in Nat BY <1>2 DEF Outside, Sound, View
  <2>2. Len(v.inbox) <= MaxUnread BY <1>1, <1>2, <2>1 DEF Outside, Room, HudBounds
  <2> QED BY <1>1, <1>2, <2>2, BecomeKeeps DEF Outside
<1>3. ASSUME NEW v, Sound(v), Len(v.inbox) <= Len(w.inbox) + 2,
             v.client.bus => v.client.enabled, Room, Become(v), told' \in Told
      PROVE  HInv'
  <2>1. Len(v.inbox) \in Nat BY <1>3 DEF Sound, View
  <2>2. Len(v.inbox) <= MaxUnread BY <1>1, <1>3, <2>1 DEF Room, HudBounds
  <2> QED BY <1>3, <2>2, BecomeKeeps
<1>4. CASE Configure
  <2>1. PICK hud \in BOOLEAN, opens \in BOOLEAN, can \in BOOLEAN,
             runtime \in {"idle", "live"} :
          Become(configure(w, hud, opens, can, runtime))
    BY <1>4 DEF Configure, w
  <2> DEFINE v == configure(w, hud, opens, can, runtime)
  <2>2. /\ Sound(v) /\ Len(v.inbox) <= Len(w.inbox) + 2
        /\ v.client.bus => v.client.enabled
    BY <1>1, ConfigureKeeps
  <2> QED BY <1>1, <1>3, <1>4, <2>1, <2>2 DEF Configure
<1>5. CASE Emit
  <2>1. PICK opens \in BOOLEAN, can \in BOOLEAN, accepts \in BOOLEAN, dies \in BOOLEAN,
             runtime \in {"idle", "live"} :
          LET v == show(w, opens, can, runtime, accepts, dies)
          IN  /\ Become(v)
              /\ told' = IF ~available(v.client) THEN "notified"
                         ELSE IF onDisplay(v) THEN "shown" ELSE "lost"
    BY <1>5 DEF Emit, w
  <2> DEFINE v == show(w, opens, can, runtime, accepts, dies)
  <2>2. /\ Sound(v) /\ Len(v.inbox) <= Len(w.inbox) + 2
        /\ v.client.bus => v.client.enabled
    BY <1>1, ShowKeeps
  <2>3. told' \in Told BY <2>1 DEF Told
  <2> QED BY <1>3, <1>5, <2>1, <2>2, <2>3 DEF Emit
<1>6. CASE OnListeningStart
  <2>1. PICK opens \in BOOLEAN, can \in BOOLEAN, accepts \in BOOLEAN, dies \in BOOLEAN,
             runtime \in {"idle", "live"} :
          Become(show(w, opens, can, runtime, accepts, dies))
    BY <1>6 DEF OnListeningStart, w
  <2> DEFINE v == show(w, opens, can, runtime, accepts, dies)
  <2>2. /\ Sound(v) /\ Len(v.inbox) <= Len(w.inbox) + 2
        /\ v.client.bus => v.client.enabled
    BY <1>1, ShowKeeps
  <2> QED BY <1>1, <1>3, <1>6, <2>1, <2>2 DEF OnListeningStart
<1>7. CASE OnListeningStop
  <2>1. PICK can \in BOOLEAN, runtime \in {"idle", "live"} : Become(hide(w, can, runtime))
    BY <1>7 DEF OnListeningStop, w
  <2> DEFINE v == hide(w, can, runtime)
  <2>2. /\ Sound(v) /\ Len(v.inbox) <= Len(w.inbox) + 2
        /\ v.client.bus => v.client.enabled
    BY <1>1, HideKeeps
  <2> QED BY <1>1, <1>3, <1>7, <2>1, <2>2 DEF OnListeningStop
<1>8. CASE Poll
  <2> DEFINE v == poll(w)
  <2>1. Become(v) /\ UNCHANGED told BY <1>8 DEF Poll, w
  <2>2. Sound(v) /\ v.inbox = <<>> /\ (v.client.bus => v.client.enabled)
    BY <1>1, PollKeeps
  <2> HIDE DEF v
  <2>3. Len(v.inbox) = 0 BY <2>2
  <2> QED BY <1>1, <2>1, <2>2, <2>3, BecomeKeeps DEF HudBounds
<1>9. CASE ServiceStarts
  <2>1. PICK runtime \in {"idle", "live"} : Become(serviceStarts(w, runtime))
    BY <1>9 DEF ServiceStarts, w
  <2>2. Outside(w, serviceStarts(w, runtime), 1)
    BY <1>1, <1>9, StartsKeeps DEF ServiceStarts
  <2> QED BY <1>2, <1>9, <2>1, <2>2 DEF ServiceStarts
<1>10. CASE ServiceDies
  <2>1. Outside(w, serviceDies(w), 1) BY <1>1, <1>10, DiesKeeps DEF ServiceDies
  <2> QED BY <1>2, <1>10, <2>1 DEF ServiceDies, w
<1>11. CASE RuntimeChanges
  <2>1. PICK runtime \in {"idle", "live"} :
          Become(signal([w EXCEPT !.service.runtime = runtime],
                        [kind |-> "state", runtime |-> runtime]))
    BY <1>11 DEF RuntimeChanges, w
  <2>2. Outside(w, signal([w EXCEPT !.service.runtime = runtime],
                          [kind |-> "state", runtime |-> runtime]), 1)
    BY <1>1, <1>11, RuntimeKeeps DEF RuntimeChanges
  <2> QED BY <1>2, <1>11, <2>1, <2>2 DEF RuntimeChanges
<1>12. CASE PanelGoes
  <2>1. PICK id \in w.service.panels : Become(panelGoes(w, id))
    BY <1>1, <1>12 DEF PanelGoes, w
  <2>2. Outside(w, panelGoes(w, id), 1) BY <1>1, GoesKeeps
  <2> QED BY <1>2, <1>12, <2>1, <2>2 DEF PanelGoes
<1>13. CASE UNCHANGED vars
  <2>1. Now' = Now BY <1>13 DEF vars, Now
  <2>2. Sound(Now)' BY <1>1, <2>1 DEF w
  <2> QED BY <1>13, <2>2 DEF HInv, vars
<1> QED
  BY <1>4, <1>5, <1>6, <1>7, <1>8, <1>9, <1>10, <1>11, <1>12, <1>13 DEF Next

\* HInv, which says what the waiting signals owe the client, holds always.
THEOREM HudInvariant == Spec => []HInv
BY HudBounds, InitHInv, NextHInv, PTL DEF Spec

\* The client, the service and the inbox keep their types, whatever is called
\* and whatever dies, and the bound on the inbox is kept
\* (HudClient.hpp:100-127).
THEOREM HudTypeOK == Spec => []TypeOK
<1>1. HInv => TypeOK BY DEF HInv, TypeOK, Sound, View, Now
<1> QED BY <1>1, HudInvariant, PTL

\* A client that has read its signals believes in no service, runtime or panel
\* that is gone, however often the service died and came back in between
\* (HudClient.cpp:172-197,287-327).
THEOREM HudReadClientIsNotFooled == Spec => []ReadClientIsNotFooled
<1>1. ASSUME HInv PROVE ReadClientIsNotFooled
  <2> SUFFICES ASSUME inbox = <<>>
               PROVE  /\ client.owner => service.up
                      /\ client.owner /\ client.runtime = "live" => service.runtime = "live"
                      /\ client.panel # 0 => client.panel \in service.panels
    BY DEF ReadClientIsNotFooled
  <2>1. /\ Sound(Now) /\ Now.client = client /\ Now.service = service
        /\ Len(Now.inbox) = 0
    BY <1>1 DEF HInv, Now
  <2> QED BY <2>1 DEF Sound, Honest, Believes, Excused
<1> QED BY <1>1, HudInvariant, PTL

\* Until the service restarts, the panel the client will take down is the only
\* one that is up: a dismissed or refused one leaves no other behind
\* (HudClient.cpp:214-232,255-265,297-304).
THEOREM HudOnlyRestartsOrphan == Spec => []OnlyRestartsOrphan
<1>1. HInv => OnlyRestartsOrphan BY DEF HInv, OnlyRestartsOrphan, Sound, First, Now
<1> QED BY <1>1, HudInvariant, PTL

\* A message is lost, neither shown nor sent as a notification, only by a client
\* with a signal waiting (HudClient.cpp:206-253; Feedback.cpp:54-68).
THEOREM HudLostOnlyUnread == Spec => LostOnlyUnread
<1>1. ASSUME HInv, [Next]_vars
      PROVE  [told' = "lost" /\ told # "lost" => inbox # <<>>]_vars
  <2> SUFFICES ASSUME told' = "lost", told # "lost", inbox = <<>> PROVE FALSE
    OBVIOUS
  <2>1. Emit
    BY <1>1 DEF Next, vars, Configure, OnListeningStart, OnListeningStop, Poll,
                ServiceStarts, ServiceDies, RuntimeChanges, PanelGoes
  <2>2. PICK opens \in BOOLEAN, can \in BOOLEAN, accepts \in BOOLEAN, dies \in BOOLEAN,
             runtime \in {"idle", "live"} :
          LET v == show(Now, opens, can, runtime, accepts, dies)
          IN  told' = IF ~available(v.client) THEN "notified"
                      ELSE IF onDisplay(v) THEN "shown" ELSE "lost"
    BY <2>1 DEF Emit
  <2>3. /\ Sound(Now) /\ Now.inbox = <<>>
        /\ (Now.client.bus => Now.client.enabled)
    BY <1>1 DEF HInv, Now
  <2> DEFINE v == show(Now, opens, can, runtime, accepts, dies)
  <2>4. available(v.client) => onDisplay(v) BY <2>3, HudBounds, ShowKeeps
  <2> QED BY <2>2, <2>4
<1> QED BY <1>1, HudInvariant, PTL DEF Spec, LostOnlyUnread
=============================================================================
