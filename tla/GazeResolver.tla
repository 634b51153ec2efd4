----------------------------- MODULE GazeResolver -----------------------------
(***************************************************************************)
(* resolveDeixis: which monitor "this" means, and which point "here".      *)
(* The compositor keeps a ring of head poses and says, for an instant in   *)
(* the past, which monitor was the gaze's candidate then, whether it was   *)
(* selected, for how long, and how far away the ray met it.  The resolver  *)
(* asks for several instants up to a little before the word, and lets the  *)
(* answers vote by the number of the monitor that was selected.            *)
(*                                                                         *)
(* Instants and distances are small integers.  Of the head pose only the   *)
(* instant it belongs to is kept, and of a point only its distance from    *)
(* the head.                                                               *)
(*                                                                         *)
(* Operators no one uses, each before the one it varies, are that one with *)
(* a plausible bug.                                                        *)
(***************************************************************************)
EXTENDS DesktopContext

CONSTANTS
  Lead,            \* intent.deixis_lead_ms
  Window,          \* intent.deixis_window_ms
  Samples,         \* intent.deixis_samples
  PlaceDistance,   \* intent.place_distance_m
  PlaceFloor       \* intent.place_min_distance_m

ASSUME GazeAssumption == {Lead, Window, Samples, PlaceDistance, PlaceFloor} \subseteq Int

\* One answer: was there one, the number and the name of the monitor it is
\* about, was that monitor selected, how long it had been gazed at, and the
\* distance at which the ray met it (0: it did not).  The fields are read one by
\* one: that there is a name says nothing of whether anything was selected.
Sample(ok, id, name, selected, dwell, hit) ==
  [ok |-> ok, id |-> id, name |-> name, selected |-> selected, dwell |-> dwell, hit |-> hit]

Look == [ok : BOOLEAN, id : Int, name : DOMAIN NameWords \cup {None}, selected : BOOLEAN,
         dwell : Nat, hit : Int]

Missed == Sample(FALSE, -1, None, FALSE, 0, 0)
Passthrough == Sample(TRUE, -1, None, FALSE, 0, 0)

NoGaze == [valid |-> FALSE, name |-> None, at |-> 0, place |-> 0, stable |-> FALSE]

\* The instants are asked for over this long; a negative window is none.
span == Max({0, Window})

\* The ring begins Lead + span before the first word, at instant 1, and
\* answers with the pose it holds that is nearest to t.
gazeAt(ring, t) ==
  LET i == t + Lead + span
  IN  ring[IF i < 1 THEN 1 ELSE IF i > Len(ring) THEN Len(ring) ELSE i]

\* A hit wins, else a point along the gaze; never inside the head.
projectPlacePoint(hit) ==
  LET ahead == IF PlaceDistance > 0 THEN PlaceDistance ELSE Max({PlaceFloor, 13})
      p     == IF hit > 0 THEN hit ELSE ahead
  IN  IF p < PlaceFloor THEN PlaceFloor ELSE p

\* The instants asked for, oldest first; the last is the anchor.
askedAt(word) ==
  LET n == Max({1, Samples})
  IN  [i \in 1 .. n |-> IF n = 1 THEN word - Lead
                        ELSE word - Lead - span + (span * (i - 1)) \div (n - 1)]

\* The samples that got an answer, each with the instant it was asked for.
answers(word, ring) ==
  LET asked == askedAt(word)
  IN  [i \in {j \in DOMAIN asked : gazeAt(ring, asked[j]).ok} |->
         [at |-> asked[i], look |-> gazeAt(ring, asked[i])]]

\* An answer about a monitor that was not selected votes for none.
vote(look) == IF look.selected THEN look.id ELSE -1

votesFor(id, got) == {i \in DOMAIN got : vote(got[i].look) = id}
dwellOn(id, got) == Max({0} \cup {got[i].look.dwell : i \in votesFor(id, got)})

\* Most votes; then the longest dwell; then the lowest number (a std::map).
outvotes(a, b, got) ==
  LET va == Cardinality(votesFor(a, got))
      vb == Cardinality(votesFor(b, got))
      da == dwellOn(a, got)
      db == dwellOn(b, got)
  IN  \/ va > vb
      \/ va = vb /\ da > db
      \/ va = vb /\ da = db /\ a <= b

winner(got) ==
  LET seen == {vote(got[i].look) : i \in DOMAIN got}
  IN  CHOOSE id \in seen : \A other \in seen : outvotes(id, other, got)

\* Of the samples that agree, the one nearest to the anchor, then the one
\* with the longer dwell.
representativeByDwell(id, got, anchor) ==
  LET agree == votesFor(id, got)
  IN  CHOOSE i \in agree : \A j \in agree :
        got[i].look.dwell > got[j].look.dwell \/ (got[i].look.dwell = got[j].look.dwell /\ i <= j)
representative(id, got, anchor) ==
  LET agree == votesFor(id, got)
      far(i) == anchor - got[i].at
  IN  CHOOSE i \in agree : \A j \in agree :
        \/ far(i) < far(j)
        \/ far(i) = far(j) /\ got[i].look.dwell > got[j].look.dwell
        \/ far(i) = far(j) /\ got[i].look.dwell = got[j].look.dwell /\ i <= j

\* The pose and the name are the representative's.  Only if the vote was for a
\* monitor is the name of one that has gone dropped: a name that came with
\* nothing selected is kept as it came.
resolveBlindly(word, ring, ctx) ==
  LET got == answers(word, ring)
      won == winner(got)
      rep == got[representative(won, got, word - Lead)]
  IN  IF DOMAIN got = {} THEN NoGaze
      ELSE [valid  |-> TRUE, name |-> rep.look.name, at |-> rep.at,
            place  |-> projectPlacePoint(rep.look.hit),
            stable |-> Cardinality(votesFor(won, got)) * 2 > Cardinality(DOMAIN got)]
resolveDeixis(word, ring, ctx) ==
  LET got  == answers(word, ring)
      won  == winner(got)
      rep  == got[representative(won, got, word - Lead)]
      gone == won >= 0 /\ ~hasMonitor(ctx, rep.look.name)
  IN  IF DOMAIN got = {} THEN NoGaze
      ELSE [valid  |-> TRUE,
            name   |-> IF gone THEN None ELSE rep.look.name,
            at     |-> rep.at,
            place  |-> projectPlacePoint(rep.look.hit),
            stable |-> Cardinality(votesFor(won, got)) * 2 > Cardinality(DOMAIN got)]
=============================================================================
