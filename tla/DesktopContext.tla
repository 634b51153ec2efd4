--------------------------- MODULE DesktopContext ---------------------------
(***************************************************************************)
(* SDesktopContext: the snapshot of the compositor an utterance is         *)
(* resolved against, and the matchers that turn spoken words into a live   *)
(* monitor or a live window.                                               *)
(*                                                                         *)
(* A phrase is a sequence of words; how words are cut out of a string and  *)
(* which of them share a stem is the relation Kin.  Scores are in tenths.  *)
(* The confidence of a match is left out but for the one distinction its   *)
(* readers make: a tie, which is a match with candidates, is below 0.6 and *)
(* every other match is not.                                               *)
(*                                                                         *)
(* Operators no one uses, each before the one it varies, are that one with *)
(* a plausible bug.                                                        *)
(***************************************************************************)
EXTENDS Integers, Sequences, FiniteSets, SequencesExt, Lists

CONSTANTS
  NameWords,    \* the words of each monitor name
  ClassWords,   \* the words of each window's class, by address
  TitleWords,   \* the words of each window's title, by address
  ClassOf,      \* each window's class
  Kin,          \* pairs of different words that share a long enough stem
  GenericApps,  \* pairs of a generic noun and a class stem it may mean
  Creatable     \* XR-2, XR-3, ...: the names a new monitor may get, in order

None == ""

\* The empty string is no name.
ASSUME NamesAssumption ==
  /\ None \notin DOMAIN NameWords \cup DOMAIN ClassWords
  /\ Creatable \in Seq(DOMAIN NameWords)

Stop == {"the", "a", "my", "this", "that", "it", "one", "monitor", "screen",
         "display", "window", "over", "there", "here", "please", "to", "of", "on", "app"}
-----------------------------------------------------------------------------
(* The snapshot.                                                           *)

\* Three replies of the compositor, each asked for after the one before it:
\*   mons     monitors: <<[name, x, workspace]>>
\*   clients  windows:  <<[address, monitor, mapped, focus]>>
\*   status   XR outputs: <<[name, hovered]>>, empty without an XR session
clientWords(c) == ClassWords[c.address] \cup TitleWords[c.address]

joined(m, clients, status) ==
  [name    |-> m.name,
   x       |-> m.x,
   content |-> UNION {clientWords(clients[i]) : i \in
                        {j \in DOMAIN clients : clients[j].mapped /\ clients[j].monitor = m.name}}
               \cup {m.workspace},
   hovered |-> \E i \in DOMAIN status : status[i].name = m.name /\ status[i].hovered]

onlyInStatus(s) == [name |-> s.name, x |-> 0, content |-> {}, hovered |-> s.hovered]

parse(mons, clients, status) ==
  LET listed(s) == \E i \in DOMAIN mons : mons[i].name = s.name
      mapped    == without(clients, {c \in ToSet(clients) : ~c.mapped})
      extra     == without(status, {s \in ToSet(status) : listed(s)})
  IN  [monitors |-> [i \in DOMAIN mons |-> joined(mons[i], clients, status)]
                    \o [i \in DOMAIN extra |-> onlyInStatus(extra[i])],
       windows  |-> [i \in DOMAIN mapped |->
                       [address |-> mapped[i].address, focus |-> mapped[i].focus]]]

hasMonitor(ctx, name) == \E i \in DOMAIN ctx.monitors : ctx.monitors[i].name = name
hasWindow(ctx, address) ==
  address # None /\ \E i \in DOMAIN ctx.windows : ctx.windows[i].address = address
-----------------------------------------------------------------------------
(* Matching words.                                                         *)

tokMatch(a, b) == a = b \/ <<a, b>> \in Kin \/ <<b, a>> \in Kin

meaning(phrase) == without(phrase, Stop)

\* The sum over the words of a phrase of each word's best reading.
scored(words, reading(_)) == FoldLeft(LAMBDA sum, w : sum + reading(w), 0, words)

NoMatch == [matched |-> FALSE, name |-> None, candidates |-> {}]

\* Where the best of `things' under `score' are.
ties(things, score(_)) ==
  {i \in DOMAIN things : /\ score(things[i]) > 0
                         /\ \A j \in DOMAIN things : score(things[i]) >= score(things[j])}

isShared(word, m, ctx) ==
  \E i \in DOMAIN ctx.monitors : ctx.monitors[i].name # m.name /\ word \in NameWords[ctx.monitors[i].name]

monitorReading(word, m) ==
  Max({0} \cup {10 : w \in {v \in NameWords[m.name] : v = word}}
          \cup {5 : w \in {v \in NameWords[m.name] : tokMatch(word, v)}}
          \cup {10 : w \in {v \in m.content : tokMatch(word, v)}})

\* The name itself was spoken: all of it, or a word no other monitor's name has.
nameSpoken(words, m, ctx) ==
  \/ NameWords[m.name] # {} /\ NameWords[m.name] \subseteq ToSet(words)
  \/ \E w \in ToSet(words) : w \in NameWords[m.name] /\ ~isShared(w, m, ctx)

monitorScore(words, m, ctx) ==
  scored(words, LAMBDA w : monitorReading(w, m)) + (IF nameSpoken(words, m, ctx) THEN 30 ELSE 0)

\* The i-th monitor matched, and those at `fit' as well as it.
monitorMatch(ctx, i, fit) ==
  [matched    |-> TRUE,
   name       |-> ctx.monitors[i].name,
   candidates |-> IF Cardinality(fit) = 1 THEN {} ELSE {ctx.monitors[j].name : j \in fit}]

resolveFirst(ctx, phrase) ==
  LET best == ties(ctx.monitors, LAMBDA m : monitorScore(meaning(phrase), m, ctx))
  IN  IF best = {} THEN NoMatch ELSE monitorMatch(ctx, Min(best), {Min(best)})
resolveMonitor(ctx, phrase) ==
  LET words == meaning(phrase)
      best  == ties(ctx.monitors, LAMBDA m : monitorScore(words, m, ctx))
  IN  IF words = <<>> \/ best = {} THEN NoMatch ELSE monitorMatch(ctx, Min(best), best)

\* Left and right in the layout: the first of the leftmost, the last of the
\* rightmost (stable_sort keeps the snapshot's order among equals).
resolveSpatialMonitor(ctx, side) ==
  LET xs   == {ctx.monitors[i].x : i \in DOMAIN ctx.monitors}
      edge == CHOOSE x \in xs : \A y \in xs : IF side = "left" THEN x <= y ELSE x >= y
      at   == {i \in DOMAIN ctx.monitors : ctx.monitors[i].x = edge}
  IN  IF Len(ctx.monitors) < 2 THEN NoMatch
      ELSE monitorMatch(ctx, IF side = "left" THEN Min(at) ELSE Max(at), at)

hoveredMonitor(ctx) ==
  LET hovered == {m \in ToSet(ctx.monitors) : m.hovered}
  IN  IF Cardinality(hovered) = 1 THEN (CHOOSE m \in hovered : TRUE).name ELSE None

nextXrMonitorName(ctx) ==
  LET free == {i \in DOMAIN Creatable : ~hasMonitor(ctx, Creatable[i])}
  IN  IF free = {} THEN None ELSE Creatable[Min(free)]
-----------------------------------------------------------------------------
(* Windows.                                                                *)

matchesGeneric(word, address) ==
  \E stem \in {g[2] : g \in {h \in GenericApps : h[1] = word}} :
    \E w \in ClassWords[address] : tokMatch(stem, w)

windowReading(word, win) ==
  LET class == ClassWords[win.address]
  IN  Max({0} \cup {10 : w \in {v \in class : v = word}}
              \cup {8  : w \in {v \in class : tokMatch(word, v)}}
              \cup {9  : w \in {v \in {word} : matchesGeneric(v, win.address)}}
              \cup {6  : w \in {v \in TitleWords[win.address] : tokMatch(word, v)}})

\* Among equals the window used last; different applications are a question.
resolveWindow(ctx, phrase) ==
  LET words == meaning(phrase)
      at    == ties(ctx.windows, LAMBDA w : scored(words, LAMBDA v : windowReading(v, w)))
      best  == {ctx.windows[i] : i \in at}
      label == {ClassOf[w.address] : w \in best}
  IN  IF words = <<>> \/ best = {} THEN NoMatch
      ELSE [matched |-> TRUE,
            name |-> (CHOOSE w \in best : \A v \in best : w.focus <= v.focus).address,
            candidates |-> IF Cardinality(label) = 1 THEN {} ELSE label]
=============================================================================
