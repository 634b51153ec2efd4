------------------------------ MODULE RuleIntent ------------------------------
(***************************************************************************)
(* CRuleIntent::detect: the closed grammar that reads a transcript.  It    *)
(* asks a chain of questions, the specific before the generic, and the     *)
(* first that says yes decides the verb.                                   *)
(*                                                                         *)
(* A transcript is a sequence of lower-case words.  Where the code looks   *)
(* for a substring, the words that contain it stand for it.                *)
(***************************************************************************)
EXTENDS Integers, Sequences, FiniteSets, SequencesExt, Lists

CONSTANT
  Step   \* intent.distance_step, in centimetres

Verbs == {"none", "clarify", "pick", "place", "move_dist", "center", "dock", "undock",
          "follow", "anchor", "hand_input", "monitor_view", "launch_app", "focus",
          "fullscreen", "workspace", "move_window", "move_workspace", "create_monitor"}

\* SRawIntent: what was said, nothing of it resolved.
Raw == [verb |-> "none", target |-> <<>>, app |-> <<>>, window |-> <<>>, monitor |-> <<>>,
        spatial |-> "none", destHere |-> FALSE, workspace |-> 0, toWorkspace |-> FALSE,
        anchor |-> "unset", sub |-> "", delta |-> 0,
        deictic |-> FALSE, isPlace |-> FALSE, wordAt |-> 0]
-----------------------------------------------------------------------------
(* Words.                                                                  *)

says(u, W) == ToSet(u) \cap W # {}
saysPair(u, a, b) == \E i \in 1 .. Len(u) - 1 : u[i] = a /\ u[i + 1] = b
first(S) == CHOOSE i \in S : \A j \in S : i <= j
last(S) == CHOOSE i \in S : \A j \in S : i >= j
slice(u, from, to) == SubSeq(u, from, to)

Determiners == {"the", "a", "my"}
MonitorNouns == {"monitor", "screen", "display"}
Fillers == {"please", "now"}
Prepositions == {"to", "onto", "on", "over", "in", "at"}
PlaceWords == {"here", "there"}
MonitorWords == {"this", "that"}
Numbers == [n \in {"1", "2", "3", "one", "two", "three", "four"} |->
              CASE n \in {"1", "one"} -> 1 [] n \in {"2", "two"} -> 2
                [] n \in {"3", "three"} -> 3 [] n = "four" -> 4]
Homophones == [w \in {"for", "forward", "to", "too", "won", "tree"} |->
                 CASE w \in {"for", "forward"} -> 4 [] w \in {"to", "too"} -> 2
                   [] w = "won" -> 1 [] w = "tree" -> 3]

\* Words of the grammar never name a monitor, a window or an application.
CommandWords ==
  {"pick", "grab", "lift", "carry", "place", "drop", "put", "leave", "set", "move", "bring",
   "push", "pull", "closer", "nearer", "further", "away", "back", "center", "dock", "undock",
   "follow", "anchor", "lock", "hands", "hand", "open", "launch", "start", "up", "down",
   "make", "have", "let", "it", "me", "my", "the", "this", "that", "here", "there", "please",
   "to", "in", "front", "of", "on", "off", "monitor", "screen", "window", "display",
   "fullscreen", "full", "maximize", "workspace", "work", "space", "focus", "switch", "go",
   "and", "one", "two", "three", "four"}

content(u) == without(u, CommandWords)

\* "workspace", or "work space" as the ASR may split it: where it ends, or 0.
compound(u, whole, a, b) ==
  LET at == {i \in DOMAIN u : u[i] = whole \/ (u[i] = a /\ i < Len(u) /\ u[i + 1] = b)}
  IN  IF at = {} THEN 0 ELSE IF u[first(at)] = whole THEN first(at) ELSE first(at) + 1
workspaceAt(u) == compound(u, "workspace", "work", "space")

\* Only the word right after "workspace" may be a homophone of its number.
scanWorkspaceIndex(u, at) ==
  LET named == {i \in at + 1 .. Len(u) : u[i] \in DOMAIN Numbers}
  IN  IF at = 0 THEN 0
      ELSE IF at < Len(u) /\ u[at + 1] \in DOMAIN Homophones THEN Homophones[u[at + 1]]
      ELSE IF named = {} THEN 0 ELSE Numbers[u[first(named)]]

\* A "here" or "there" at the end of what was said, or 0.
trailingPlaceDeictic(u) ==
  LET words == {i \in DOMAIN u : \E j \in i .. Len(u) : u[j] \notin Fillers}
  IN  IF words # {} /\ u[last(words)] \in PlaceWords THEN last(words) ELSE 0

trimmed(u) ==
  LET kept == {i \in DOMAIN u : (\E j \in 1 .. i : u[j] \notin Determiners)
                                /\ (\E j \in i .. Len(u) : u[j] \notin Fillers)}
  IN  IF kept = {} THEN <<>> ELSE slice(u, first(kept), last(kept))
-----------------------------------------------------------------------------
(* Moves: a verb, a subject, and a destination.                            *)

NoSplit == [ok |-> FALSE, subject |-> <<>>, dest |-> <<>>, here |-> FALSE]

\* "to" in the number slot of "workspace to here" is a misheard "two".
isDestination(u, i, here) ==
  u[i] \in Prepositions /\ ~(i > 1 /\ u[i - 1] = "workspace" /\ here = i + 1)

splitMovePhrase(u) ==
  LET verbs == {i \in DOMAIN u : u[i] \in {"move", "put", "send", "throw", "drag", "shift"}}
      v     == first(verbs)
      here  == trailingPlaceDeictic(u)
      preps == {i \in v + 1 .. Len(u) : isDestination(u, i, here)}
      p     == first(preps)
      d     == IF p < Len(u) /\ u[p + 1] = "to" THEN p + 2 ELSE p + 1
      dest  == trimmed(slice(u, d, Len(u)))
      ends  == {i \in v .. here - 1 : i = v \/ u[i] \notin {"right", "over", "in"}}
  IN  IF verbs = {} THEN NoSplit
      ELSE IF preps = {}
      THEN IF here <= v \/ last(ends) = v THEN NoSplit
           ELSE [ok |-> TRUE, subject |-> slice(u, v + 1, last(ends)), dest |-> <<u[here]>>,
                 here |-> TRUE]
      ELSE IF p = v + 1 \/ dest = <<>> THEN NoSplit
      ELSE [ok |-> TRUE, subject |-> slice(u, v + 1, p - 1), dest |-> dest,
            here |-> Len(dest) = 1 /\ dest[1] \in PlaceWords]

\* A destination must say it is an output: by side, by noun, or by "here".
namesMonitor(dest, here) ==
  here \/ dest[1] \in {"left", "leftmost", "right", "rightmost"} \/ says(dest, MonitorNouns)

withMonitor(r, dest, here) ==
  [r EXCEPT !.destHere = here,
            !.spatial = IF here THEN "none"
                        ELSE IF dest[1] \in {"left", "leftmost"} THEN "left"
                        ELSE IF dest[1] \in {"right", "rightmost"} THEN "right" ELSE "none",
            !.monitor = IF here \/ ~says(dest, MonitorNouns)
                           \/ dest[1] \in {"left", "leftmost", "right", "rightmost"}
                        THEN <<>> ELSE dest]

\* Of a phrase that was split, s: is it the move of a workspace?
isWorkspaceMove(s) ==
  s.ok /\ workspaceAt(s.subject) > 0 /\ workspaceAt(s.dest) = 0 /\ namesMonitor(s.dest, s.here)

workspaceMove(r, s) ==
  [withMonitor(r, s.dest, s.here) EXCEPT
     !.verb = "move_workspace",
     !.workspace = scanWorkspaceIndex(s.subject, workspaceAt(s.subject))]

\* "this", "that window": the one in use, and no name.
isDeicticWindowPhrase(phrase) ==
  /\ says(phrase, {"this", "that", "it", "current", "active", "focused", "here", "there"})
  /\ ToSet(phrase) \subseteq {"this", "that", "it", "current", "active", "focused", "here",
                              "there", "the", "a", "my", "window", "one", "thing", "app", "please"}

isWindowMove(s) ==
  /\ s.ok /\ workspaceAt(s.subject) = 0
  /\ s.here => ~isDeicticWindowPhrase(s.subject) /\ ~says(s.subject, MonitorNouns)
  /\ workspaceAt(s.dest) > 0 \/ namesMonitor(s.dest, s.here)

windowMove(r, s) ==
  LET w == [r EXCEPT !.verb = "move_window", !.window = s.subject]
  IN  IF workspaceAt(s.dest) > 0
      THEN [w EXCEPT !.toWorkspace = TRUE,
                     !.workspace = scanWorkspaceIndex(s.dest, workspaceAt(s.dest))]
      ELSE withMonitor(w, s.dest, s.here)

\* Only determiners and "new"-like words between the verb and "monitor".
createsMonitor(u) ==
  \E i \in DOMAIN u : /\ u[i] \in {"create", "add", "spawn", "make", "open"}
                      /\ \E j \in i + 1 .. Len(u) :
                           /\ u[j] \in MonitorNouns
                           /\ \A k \in i + 1 .. j - 1 :
                                u[k] \in Determiners \cup {"new", "another", "second", "me", "up"}

\* A destination left behind by a move whose verb was lost.
destinations(u, from) ==
  {i \in from .. Len(u) :
     /\ u[i] \in Prepositions
     /\ LET d == IF i < Len(u) /\ u[i + 1] = "to" THEN i + 2 ELSE i + 1
            dest == trimmed(slice(u, d, Len(u)))
        IN  dest # <<>> /\ namesMonitor(dest, FALSE)}

isLostMove(u) ==
  /\ ~saysPair(u, "go", "to") /\ ~saysPair(u, "switch", "to")
  /\ trailingPlaceDeictic(u) > workspaceAt(u) \/ destinations(u, workspaceAt(u) + 1) # {}

lostMove(r, u) ==
  LET here == trailingPlaceDeictic(u) > workspaceAt(u)
      i    == first(destinations(u, workspaceAt(u) + 1))
      d    == IF i < Len(u) /\ u[i + 1] = "to" THEN i + 2 ELSE i + 1
      w    == [r EXCEPT !.verb = "move_workspace",
                        !.workspace = scanWorkspaceIndex(u, workspaceAt(u))]
  IN  IF here THEN [w EXCEPT !.destHere = TRUE]
      ELSE withMonitor(w, trimmed(slice(u, d, Len(u))), FALSE)
-----------------------------------------------------------------------------
(* The chain.                                                              *)

\* The last deictic word and when it was said; without word times, whether
\* one was said at all.
findDeictic(t) ==
  LET at == {i \in DOMAIN t.words : t.words[i] \in PlaceWords \cup MonitorWords}
      place == says(t.words, PlaceWords)
  IN  IF at = {} THEN Raw
      ELSE IF t.timed
      THEN [Raw EXCEPT !.deictic = TRUE, !.isPlace = t.words[last(at)] \in PlaceWords,
                       !.wordAt = last(at)]
      ELSE [Raw EXCEPT !.deictic = TRUE, !.isPlace = place,
                       !.wordAt = IF place THEN Len(t.words) ELSE 1]

\* A motion has no place: its "here" designates nothing.
motion(r, sign) ==
  [r EXCEPT !.verb = "move_dist", !.delta = sign * Step,
            !.deictic = @ /\ ~r.isPlace, !.wordAt = IF r.isPlace THEN 0 ELSE @]

withAnchor(r, u, otherwise) ==
  [r EXCEPT !.anchor = IF says(u, {"head"}) THEN "head" ELSE IF says(u, {"body"}) THEN "body"
                       ELSE otherwise]

\* What is said for each kind of command, in the order the kinds are tried.
chain(u, r) ==
  LET wsAt  == workspaceAt(u)
      fsAt  == compound(u, "fullscreen", "full", "screen")
  IN  << <<"monitor_view", /\ saysPair(u, "monitor", "view") \/ says(u, {"monitors"})
                           /\ Cardinality({"hide", "show", "toggle"} \cap ToSet(u)) = 1
                           /\ ~says(u, {"not", "never", "dont"}) /\ ~saysPair(u, "don", "t")>>,
         <<"move_workspace", isWorkspaceMove(splitMovePhrase(u))>>,
         <<"move_window", isWindowMove(splitMovePhrase(u))>>,
         <<"create_monitor", wsAt = 0 /\ fsAt = 0 /\ createsMonitor(u)>>,
         <<"lost_move", wsAt > 0 /\ isLostMove(u)>>,
         <<"workspace", wsAt > 0>>,
         <<"fullscreen", fsAt > 0>>,
         <<"maximize", says(u, {"maximize"})>>,
         <<"focus", says(u, {"focus"}) \/ saysPair(u, "switch", "to")>>,
         <<"hand_input", says(u, {"hand", "hands"})>>,
         <<"launch_app", says(u, {"open", "launch"}) \/ (says(u, {"start"}) /\ ~says(u, {"follow"}))>>,
         <<"undock", says(u, {"pick"}) /\ says(u, {"up"}) /\ says(u, {"follow"})>>,
         <<"pick", \/ says(u, {"pick"}) /\ says(u, {"up"})
                   \/ says(u, {"grab", "lift"})
                   \/ says(u, {"carry"}) /\ ~saysPair(u, "with", "me")>>,
         <<"place", \/ says(u, {"place", "drop"}) \/ saysPair(u, "leave", "it")
                    \/ says(u, {"put"}) /\ r.deictic>>,
         <<"undock", says(u, {"undock"})>>,
         <<"follow", says(u, {"follow"})>>,
         <<"dock", says(u, {"dock"})>>,
         <<"center", says(u, {"center"})>>,
         <<"closer", says(u, {"closer", "nearer"}) \/ saysPair(u, "bring", "it")
                     \/ saysPair(u, "come", "here")>>,
         <<"further", says(u, {"further", "away", "back"}) \/ saysPair(u, "push", "it")>>,
         <<"anchor", says(u, {"anchor"}) \/ saysPair(u, "lock", "it")>>,
         <<"none", TRUE>> >>

\* What else each kind takes from the words.
reading(kind, u, r) ==
  LET is == [r EXCEPT !.verb = kind]
  IN  CASE kind = "monitor_view" ->
             [is EXCEPT !.sub = IF says(u, {"hide"}) THEN "off"
                                ELSE IF says(u, {"show"}) THEN "on" ELSE "toggle"]
        [] kind = "move_workspace" -> workspaceMove(r, splitMovePhrase(u))
        [] kind = "move_window"    -> windowMove(r, splitMovePhrase(u))
        [] kind = "lost_move"      -> lostMove(r, u)
        [] kind = "workspace"      -> [is EXCEPT !.workspace = scanWorkspaceIndex(u, workspaceAt(u))]
        [] kind = "maximize"       -> [is EXCEPT !.verb = "fullscreen", !.sub = "maximize"]
        [] kind = "hand_input"     ->
             [is EXCEPT !.sub = IF says(u, {"off", "disable", "stop"}) THEN "off"
                                ELSE IF says(u, {"on", "enable"}) THEN "on"
                                ELSE IF says(u, {"auto"}) THEN "auto" ELSE "toggle"]
        [] kind = "follow"         -> withAnchor(is, u, "unset")
        [] kind = "anchor"         -> withAnchor(is, u, "local")
        [] kind = "dock"           -> [is EXCEPT !.sub = IF says(u, {"here"}) THEN "here" ELSE ""]
        [] kind = "closer"         -> motion(r, -1)
        [] kind = "further"        -> motion(r, 1)
        [] OTHER                   -> is

\* The first kind whose question says yes.
decided(all) == all[first({i \in DOMAIN all : all[i][2]})][1]

\* Moves have their own phrases already.
withNames(r, u) ==
  IF r.verb \in {"monitor_view", "move_workspace", "move_window", "create_monitor", "none"} THEN r
  ELSE IF r.verb = "launch_app" THEN [r EXCEPT !.app = content(u)]
  ELSE [r EXCEPT !.target = content(u)]

detect(t) ==
  LET u == t.words
      r == findDeictic(t)
  IN  IF u = <<>> THEN Raw ELSE withNames(reading(decided(chain(u, r)), u, r), u)
=============================================================================
