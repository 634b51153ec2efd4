------------------------------ MODULE HudClient ------------------------------
(***************************************************************************)
(* CHudClient and the part of Feedback that decides between the HUD and a  *)
(* notification: a client of hypxrhud, a bus-activated service that owns   *)
(* the panels, may crash, restart, lose its XR runtime or drop a panel at  *)
(* any moment, and says so in signals the client reads only when it polls. *)
(*                                                                         *)
(* The service and the bus are external.  The bus delivers to the client   *)
(* in order; a call waits for its reply, and signals that arrive meanwhile *)
(* stay unread.  A fire-and-forget update takes effect at once or, if the  *)
(* panel it names is not there, not at all.  What a panel says is left     *)
(* out, and feedback.notify is on.                                         *)
(*                                                                         *)
(* Operators no action uses, each before the one it varies, are that one   *)
(* with a plausible bug.                                                   *)
(***************************************************************************)
EXTENDS Naturals, Sequences, SequencesExt

CONSTANTS
  MaxStarts,   \* bound: times the service is started
  MaxPanels,   \* bound: panels one incarnation of the service creates
  MaxUnread    \* bound: signals on their way to the client

ASSUME HudBounds == MaxStarts \in Nat /\ MaxPanels \in Nat /\ MaxUnread \in Nat

VARIABLES
  client,    \* CHudClient's members
  service,   \* hypxrhud
  inbox,     \* signals the client has not processed
  told       \* what became of the last message to the user

vars == <<client, service, inbox, told>>

Id == 1 .. MaxPanels

Client == [enabled : BOOLEAN,         \* m_cfg.feedback.hud
           bus     : BOOLEAN,         \* m_bus
           panel   : {0} \cup Id,     \* m_panelId
           owner   : BOOLEAN,         \* m_ownerPresent
           runtime : {"absent", "idle", "live"}]   \* m_runtimeState

Service == [up      : BOOLEAN,
            starts  : 0 .. MaxStarts,
            runtime : {"idle", "live"},
            panels  : SUBSET Id,      \* this client's panels it displays
            created : 0 .. MaxPanels] \* panels this incarnation has created

Signal == [kind : {"state"}, runtime : {"idle", "live"}]
          \cup [kind : {"dismissed"}, panel : Id]
          \cup [kind : {"owner"}, up : BOOLEAN]

Told == {"shown", "notified", "lost"}

Now == [client |-> client, service |-> service, inbox |-> inbox]

Become(w) == client' = w.client /\ service' = w.service /\ inbox' = w.inbox
-----------------------------------------------------------------------------
(* The service and the bus.                                                *)

\* Only a client with an open bus has its matches installed.
signal(w, s) == [w EXCEPT !.inbox = IF w.client.bus THEN Append(@, s) ELSE @]

serviceStarts(w, runtime) ==
  signal([w EXCEPT !.service = [up |-> TRUE, starts |-> @.starts + 1,
                                runtime |-> runtime, panels |-> {}, created |-> 0]],
         [kind |-> "owner", up |-> TRUE])

serviceDies(w) ==
  signal([w EXCEPT !.service.up = FALSE, !.service.panels = {}],
         [kind |-> "owner", up |-> FALSE])

panelGoes(w, id) ==
  signal([w EXCEPT !.service.panels = @ \ {id}], [kind |-> "dismissed", panel |-> id])

\* A call to a name nobody owns makes the bus start the service, if it can.
activate(w, can, runtime) ==
  IF ~w.service.up /\ can /\ w.service.starts < MaxStarts
  THEN serviceStarts(w, runtime) ELSE w
-----------------------------------------------------------------------------
(* The client.                                                             *)

availableIfOwned(c) == c.bus /\ c.owner
available(c) == c.bus /\ c.owner /\ c.runtime = "live"

refreshOwnerAndState(w) ==
  [w EXCEPT !.client.owner = w.service.up,
            !.client.runtime = IF w.service.up THEN w.service.runtime ELSE "absent"]

ensureBus(w, opens) ==
  IF w.client.bus \/ ~opens THEN w
  ELSE refreshOwnerAndState([w EXCEPT !.client.bus = TRUE])

\* CreatePanel: the service may refuse it, or die as soon as it has answered.
createPanel(w, can, runtime, accepts, dies) ==
  LET a  == activate(w, can, runtime)
      id == a.service.created + 1
      c  == [a EXCEPT !.service.panels = @ \cup {id}, !.service.created = id,
                      !.client.panel = id]
  IN  IF ~a.service.up \/ ~accepts \/ id > MaxPanels
      THEN [a EXCEPT !.client.owner = FALSE]
      ELSE refreshOwnerAndState(IF dies THEN serviceDies(c) ELSE c)

\* UpdatePanel names the panel the client believes in and learns nothing.
show(w, opens, can, runtime, accepts, dies) ==
  LET b == ensureBus(w, opens)
  IN  IF ~w.client.enabled THEN w
      ELSE IF ~b.client.bus THEN b
      ELSE IF b.client.panel = 0 THEN createPanel(b, can, runtime, accepts, dies)
      ELSE activate(b, can, runtime)

\* DismissPanel, and the id is forgotten whatever comes of it.
hideForgetfully(w, can, runtime) == [w EXCEPT !.client.panel = 0]
hideForGood(w, can, runtime) == [w EXCEPT !.client.panel = MaxPanels + 1]
hide(w, can, runtime) ==
  LET a == activate(w, can, runtime)
      d == IF a.client.panel \in a.service.panels THEN panelGoes(a, a.client.panel) ELSE a
  IN  IF ~w.client.bus \/ w.client.panel = 0 THEN w
      ELSE [d EXCEPT !.client.panel = 0]

stop(w, can, runtime) ==
  [hide(w, can, runtime) EXCEPT
     !.client = [enabled |-> w.client.enabled, bus |-> FALSE, panel |-> 0,
                 owner |-> FALSE, runtime |-> "absent"],
     !.inbox = <<>>]

configure(w, hud, opens, can, runtime) ==
  LET c == [w EXCEPT !.client.enabled = hud]
  IN  IF hud THEN ensureBus(c, opens) ELSE stop(c, can, runtime)

onRuntimeStateChanged(w, runtime) ==
  [w EXCEPT !.client.runtime = runtime, !.client.owner = TRUE]

onPanelDismissed(w, id) ==
  [w EXCEPT !.client.panel = IF @ = id THEN 0 ELSE @]

onNameOwnerLost(w, up) ==
  IF up THEN refreshOwnerAndState([w EXCEPT !.client.owner = TRUE])
  ELSE [w EXCEPT !.client.owner = FALSE, !.client.runtime = "absent"]
onNameOwnerChanged(w, up) ==
  IF up THEN refreshOwnerAndState([w EXCEPT !.client.owner = TRUE])
  ELSE [w EXCEPT !.client.owner = FALSE, !.client.runtime = "absent",
                 !.client.panel = 0]

dispatch(w, s) == CASE s.kind = "state"     -> onRuntimeStateChanged(w, s.runtime)
                    [] s.kind = "dismissed" -> onPanelDismissed(w, s.panel)
                    [] s.kind = "owner"     -> onNameOwnerChanged(w, s.up)

poll(w) == FoldLeft(dispatch, [w EXCEPT !.inbox = <<>>], w.inbox)

\* Is a panel of the client's on a HUD someone can see?
onDisplay(w) == /\ w.service.up /\ w.service.runtime = "live"
                /\ w.client.panel \in w.service.panels
-----------------------------------------------------------------------------
(* Actions.                                                                *)

\* Bound: nothing is done that could overfill the inbox.
Room == Len(inbox) + 2 <= MaxUnread

Init == /\ client = [enabled |-> FALSE, bus |-> FALSE, panel |-> 0,
                     owner |-> FALSE, runtime |-> "absent"]
        /\ service = [up |-> FALSE, starts |-> 0, runtime |-> "idle",
                      panels |-> {}, created |-> 0]
        /\ inbox = <<>>
        /\ told = "notified"

\* startRuntime, at start and at every reload.
Configure == /\ Room
             /\ \E hud, opens, can \in BOOLEAN, runtime \in {"idle", "live"} :
                  Become(configure(Now, hud, opens, can, runtime))
             /\ UNCHANGED told

\* A transcript, an action or a rejection: shown, or else a notification.
Emit == /\ Room
        /\ \E opens, can, accepts, dies \in BOOLEAN, runtime \in {"idle", "live"} :
             LET w == show(Now, opens, can, runtime, accepts, dies)
             IN  /\ Become(w)
                 /\ told' = IF ~available(w.client) THEN "notified"
                            ELSE IF onDisplay(w) THEN "shown" ELSE "lost"

\* The listening panel has no notification to stand in for it.
OnListeningStart ==
  /\ Room
  /\ \E opens, can, accepts, dies \in BOOLEAN, runtime \in {"idle", "live"} :
       Become(show(Now, opens, can, runtime, accepts, dies))
  /\ UNCHANGED told

OnListeningStop ==
  /\ Room
  /\ client.enabled
  /\ \E can \in BOOLEAN, runtime \in {"idle", "live"} : Become(hide(Now, can, runtime))
  /\ UNCHANGED told

\* Every tick.
Poll == /\ inbox # <<>>
        /\ Become(poll(Now))
        /\ UNCHANGED told

ServiceStarts == /\ Room /\ ~service.up /\ service.starts < MaxStarts
                 /\ \E runtime \in {"idle", "live"} : Become(serviceStarts(Now, runtime))
                 /\ UNCHANGED told

ServiceDies == /\ Room /\ service.up
               /\ Become(serviceDies(Now))
               /\ UNCHANGED told

\* The headset's runtime comes or goes.
RuntimeChanges ==
  /\ Room /\ service.up
  /\ \E runtime \in {"idle", "live"} \ {service.runtime} :
       Become(signal([Now EXCEPT !.service.runtime = runtime],
                     [kind |-> "state", runtime |-> runtime]))
  /\ UNCHANGED told

\* A panel expires or is preempted.
PanelGoes == /\ Room
             /\ \E id \in service.panels : Become(panelGoes(Now, id))
             /\ UNCHANGED told

Next == \/ Configure \/ Emit \/ OnListeningStart \/ OnListeningStop \/ Poll
        \/ ServiceStarts \/ ServiceDies \/ RuntimeChanges \/ PanelGoes

Spec == Init /\ [][Next]_vars
-----------------------------------------------------------------------------
(* Properties.                                                             *)

TypeOK == /\ client \in Client
          /\ service \in Service
          /\ inbox \in Seq(Signal) /\ Len(inbox) <= MaxUnread
          /\ told \in Told

\* A client that has read its signals believes in nothing that is gone: neither
\* in the service, nor in its runtime, nor in a panel, however the service died
\* and came back between two polls (HudClient.cpp:172-197,287-327).
ReadClientIsNotFooled ==
  inbox = <<>> =>
    /\ client.owner => service.up
    /\ client.owner /\ client.runtime = "live" => service.runtime = "live"
    /\ client.panel # 0 => client.panel \in service.panels

\* While the service has not been restarted, every panel of the client's is the
\* one it will take down: panels are lost across a restart only
\* (HudClient.cpp:214-232,255-265,297-304).
OnlyRestartsOrphan == service.starts <= 1 => service.panels \subseteq {client.panel}

\* A message goes unseen and unsaid only if a signal was waiting to be read that
\* would have told the client so (HudClient.cpp:206-253; Feedback.cpp:54-68).
LostOnlyUnread == [][ told' = "lost" /\ told # "lost" => inbox # <<>> ]_vars

-----------------------------------------------------------------------------
(* What the documentation and comments say, where the code does otherwise. *)

\* "0 = no live voice panel": the client, its signals read, knows of the panel
\* that is up (HudClient.hpp:113).
NoOrphan == inbox = <<>> /\ client.panel = 0 => service.panels = {}
=============================================================================
