------------------------ MODULE VoiceDaemonStepProofs ------------------------
(***************************************************************************)
(* What the daemon does with what it hears, proved for every               *)
(* configuration: the buffers a chunk passes through lose nothing of a     *)
(* whole window that fits and repeat none of it, the panel and the stream  *)
(* are taken down again, and what each handler step may never do.          *)
(*                                                                         *)
(* VoiceDaemonProofs establishes the control (Ctl); this module adds what  *)
(* the buffers, the panel, the answers and the stream satisfy (Kept when   *)
(* no handler runs, Carried in mid-handler), again one lemma per call.  A  *)
(* handler is some calls, then applyMicPolicy, then at most the panel and  *)
(* the watchdog, so what a whole handler does is composed once             *)
(* (HandlerHandles) from what the calls before the policy did (Leads),     *)
(* what the policy does (Polices) and what comes after it (Watches).       *)
(***************************************************************************)
EXTENDS VoiceDaemonProofs, FiniteSetTheorems, WellFoundedInduction

PanelOwned(v) == v.hud.panel = "listening" => v.hud.listening

\* What the window noted as its result, the user was told.
Accounted(v) == pttListening(v.machine) /\ v.gate.produced => v.past.told >= 1

\* No wake word opens a listening window: the daemon drives no onWakeDetected.
OnlyPtt(m) == m.state = "LISTENING" => m.activation = "ptt"

\* The queue is the newest audio, the ring what came just before it, and neither
\* has a hole.
Recent(v) ==
  /\ \E a, b \in Nat : /\ 1 <= a /\ a <= b + 1 /\ b <= captured
                      /\ v.audio.ring = a .. b
                      /\ v.audio.queue = b + 1 .. captured
  /\ Cardinality(v.audio.ring) <= PreRollCap

RingShut(v) == v.gate.active => v.audio.ring = {}

\* A whole window still to be heard was given a run of chunks up to the queue,
\* starting no later than the press, and keeps the oldest that fit.
Complete(v) ==
  v.gate.whole /\ ~v.gate.spent =>
    \E a, b \in Nat : /\ 1 <= a /\ a <= b + 1 /\ b <= captured
                     /\ a <= v.past.opened + 1
                     /\ v.audio.queue = b + 1 .. captured
                     /\ v.audio.window = {c \in a .. b : c < a + Retention}

\* What the ASR is to be given of a whole window that ends now.
Due(v) == finish(Oldest(Retention, v.audio.window \cup v.audio.queue))

\* One attempt to connect at most, and none before the retry time has come.
Backed(v) == /\ v.past.attempts <= 1
             /\ v.past.attempts = 0 \/ ~v.stream.retryOk

Carried(v) == /\ PanelOwned(v) /\ Accounted(v) /\ OnlyPtt(v.machine) /\ Backed(v)
              /\ Recent(v) /\ RingShut(v) /\ Complete(v)

Wanted(v) == v.stream.up => v.gate.active \/ captureShouldBeHeld(v.machine)

Kept(v) == Carried(v) /\ Wanted(v)

\* One reply at most: a result is noted, and told if the window is still open.
Replies(v, w) ==
  \/ w.past.told = v.past.told /\ w.gate.produced = v.gate.produced
  \/ /\ w.gate.produced
     /\ w.past.told = IF pttListening(v.machine) THEN OneMore(v.past.told)
                                                 ELSE v.past.told

\* Those chunks go to the ASR, all of them or none.
Hears(v, w, ids) ==
  \/ w.past.heard = v.past.heard /\ w.past.again = v.past.again
  \/ /\ w.past.heard = v.past.heard \cup ids
     /\ w.past.again = v.past.again \cup (v.past.heard \cap ids)

\* A call that works on the audio it has: it leaves the machine, the stream and
\* the gate alone.
Works(v, w) == /\ w \in View
               /\ w.machine = v.machine
               /\ w.stream = v.stream
               /\ w.gate.active = v.gate.active
               /\ w.past.opened = v.past.opened
               /\ w.past.attempts = v.past.attempts
               /\ Replies(v, w)
               /\ PanelOwned(v) => PanelOwned(w)

\* It works, and moves no audio.
Says(v, w) == /\ Works(v, w)
              /\ w.audio = v.audio
              /\ w.gate.whole = v.gate.whole
              /\ w.gate.spent = v.gate.spent
              /\ w.gate.deadline = v.gate.deadline
-----------------------------------------------------------------------------
(* The ring.                                                               *)

\* A set of chunks is finite, and of a smaller set there are no more.
LEMMA ChunksAreFinite ==
  ASSUME NEW S \in SUBSET Chunk, DaemonConstants
  PROVE  /\ IsFiniteSet(S) /\ Cardinality(S) \in Nat
         /\ \A T \in SUBSET S : Cardinality(T) <= Cardinality(S)
<1>1. IsFiniteSet(Chunk)
  BY FS_Interval DEF Chunk, DaemonConstants
<1>2. IsFiniteSet(S) BY <1>1, FS_Subset
<1> QED BY <1>2, FS_Subset, FS_CardinalityType

\* A nonempty set of chunks has an oldest.
LEMMA OldestChunk ==
  ASSUME NEW S \in SUBSET Chunk, S # {}
  PROVE  \E m \in S : \A c \in S : m <= c
<1>0. S \in SUBSET Nat BY DEF Chunk
<1>1. PICK m \in S : \A c \in S : ~(<<c, m>> \in OpToRel(<, Nat))
  BY <1>0, NatLessThanWellFounded, WFMin
<1>2. ASSUME NEW c \in S PROVE m <= c
  <2>1. m \in Nat /\ c \in Nat BY <1>0
  <2>2. CASE c < m
    <3>1. <<c, m>> \in OpToRel(<, Nat) BY <2>1, <2>2 DEF OpToRel
    <3> QED BY <1>1, <3>1
  <2> QED BY <2>1, <2>2
<1> QED BY <1>2

\* Dropping the oldest audio leaves no hole.
LEMMA NewestIsRecent ==
  ASSUME NEW S \in SUBSET Chunk, DaemonConstants,
         \A c \in S : c .. captured \subseteq S
  PROVE  \A c \in Newest(S) : c .. captured \subseteq Newest(S)
<1> SUFFICES ASSUME NEW c \in Newest(S), NEW d \in c .. captured
             PROVE  d \in Newest(S)
  OBVIOUS
<1> DEFINE after(e) == {x \in S : x > e}
<1>1. c \in S /\ Cardinality(after(c)) < PreRollCap BY DEF Newest
<1>2. d \in S BY <1>1
<1>3. c \in Nat /\ d \in Nat /\ c <= d BY <1>1, <1>2 DEF Chunk
<1>4. \A x \in S : x \in Nat BY DEF Chunk
<1>5. after(d) \in SUBSET after(c) BY <1>3, <1>4
<1>6. after(c) \in SUBSET Chunk /\ after(d) \in SUBSET Chunk OBVIOUS
<1>7. /\ Cardinality(after(d)) <= Cardinality(after(c))
      /\ Cardinality(after(d)) \in Nat /\ Cardinality(after(c)) \in Nat
  <2> HIDE DEF after
  <2> QED BY <1>5, <1>6, ChunksAreFinite
<1>8. Cardinality(after(d)) < PreRollCap
  <2> HIDE DEF after
  <2> QED BY <1>1, <1>7 DEF DaemonConstants
<1> QED BY <1>2, <1>8 DEF Newest

\* The ring never outgrows its capacity.
LEMMA NewestFits ==
  ASSUME NEW S \in SUBSET Chunk, DaemonConstants
  PROVE  Cardinality(Newest(S)) <= PreRollCap
<1> DEFINE N == Newest(S)
           after(e) == {x \in S : x > e}
<1>1. N \in SUBSET Chunk /\ N \in SUBSET S BY DEF Newest
<1>2. CASE N = {}
  <2>1. Cardinality(N) = 0 BY <1>2, FS_EmptySet
  <2> QED BY <2>1 DEF DaemonConstants
<1>3. CASE N # {}
  <2>1. PICK m \in N : \A c \in N : m <= c
    <3> HIDE DEF N
    <3> QED BY <1>1, <1>3, OldestChunk
  <2>2. Cardinality(after(m)) < PreRollCap BY DEF Newest
  <2>3. N \ {m} \in SUBSET after(m)
    <3>1. \A c \in N : c \in Nat /\ c \in S BY <1>1 DEF Chunk
    <3> HIDE DEF N
    <3> QED BY <2>1, <3>1
  <2>4. after(m) \in SUBSET Chunk OBVIOUS
  <2> HIDE DEF N, after
  <2>5. Cardinality(N \ {m}) <= Cardinality(after(m)) /\ Cardinality(after(m)) \in Nat
    BY <2>3, <2>4, ChunksAreFinite
  <2>6. IsFiniteSet(N) /\ Cardinality(N) \in Nat BY <1>1, ChunksAreFinite
  <2>7. Cardinality(N \ {m}) = Cardinality(N) - 1 BY <2>1, <2>6, FS_RemoveElement
  <2> QED BY <2>2, <2>5, <2>6, <2>7 DEF DaemonConstants, N
<1> QED BY <1>2, <1>3

\* Audio without a hole up to the newest chunk is a run that ends with it.
LEMMA RunUpToNow ==
  ASSUME NEW S \in SUBSET Chunk, captured \in Nat,
         \A c \in S : c <= captured /\ c .. captured \subseteq S
  PROVE  \E a \in Nat : 1 <= a /\ a <= captured + 1 /\ S = a .. captured
<1>1. CASE S = {}
  <2>1. captured + 1 .. captured = {} OBVIOUS
  <2> QED BY <1>1, <2>1
<1>2. CASE S # {}
  <2>1. PICK a \in S : \A c \in S : a <= c BY <1>2, OldestChunk
  <2>2. a \in Nat /\ 1 <= a /\ a <= captured /\ (\A c \in S : c \in Int) BY DEF Chunk
  <2>3. a .. captured \subseteq S OBVIOUS
  <2>4. \A c \in S : c \in a .. captured BY <2>1, <2>2
  <2>5. S = a .. captured BY <2>3, <2>4
  <2>6. a <= captured + 1 BY <2>2
  <2> QED BY <2>2, <2>5, <2>6
<1> QED BY <1>1, <1>2

\* A ring that is emptied leaves no hole.
LEMMA RingEmptied ==
  ASSUME NEW v, NEW w, Recent(v), w.audio.queue = v.audio.queue, w.audio.ring = {},
         DaemonConstants, captured \in Nat
  PROVE  Recent(w)
<1>1. PICK a \in Nat, b \in Nat : /\ 1 <= a /\ a <= b + 1 /\ b <= captured
                                /\ v.audio.queue = b + 1 .. captured
  BY DEF Recent
<1>2. b + 1 \in Nat /\ w.audio.ring = b + 1 .. b BY <1>1
<1>3. Cardinality({}) <= PreRollCap BY FS_EmptySet DEF DaemonConstants
<1> QED BY <1>1, <1>2, <1>3 DEF Recent

\* Nor does a ring and a queue that are both empty.
LEMMA NothingRecent ==
  ASSUME NEW v, v.audio.queue = {}, v.audio.ring = {}, DaemonConstants, captured \in Nat
  PROVE  Recent(v)
<1>1. /\ captured + 1 \in Nat /\ 1 <= captured + 1 /\ captured <= captured
      /\ {} = captured + 1 .. captured
  OBVIOUS
<1>2. Cardinality({}) <= PreRollCap BY FS_EmptySet DEF DaemonConstants
<1>3. \E a, b \in Nat : /\ 1 <= a /\ a <= b + 1 /\ b <= captured
                      /\ v.audio.ring = a .. b
                      /\ v.audio.queue = b + 1 .. captured
  <2> WITNESS captured + 1 \in Nat, captured \in Nat
  <2> QED BY <1>1
<1> QED BY <1>2, <1>3 DEF Recent
-----------------------------------------------------------------------------
(* What fits of a window.                                                  *)

\* Of audio without a hole, what fits is what comes soon enough after its start.
LEMMA OldestOfRun ==
  ASSUME NEW S \in SUBSET Chunk, NEW a \in Nat, NEW n \in Nat, DaemonConstants,
         \A c \in S : a <= c /\ \A x \in a .. c : x < a + n => x \in S
  PROVE  Oldest(n, S) = {c \in S : c < a + n}
<1> DEFINE before(c) == {d \in S : d < c}
<1> SUFFICES ASSUME NEW c \in S PROVE Cardinality(before(c)) < n <=> c < a + n
  BY DEF Oldest
<1>1. c \in Nat /\ a <= c /\ (\A d \in S : d \in Nat) BY DEF Chunk
<1>2. before(c) \in SUBSET Chunk OBVIOUS
<1>3. IsFiniteSet(before(c)) /\ Cardinality(before(c)) \in Nat
  <2> HIDE DEF before
  <2> QED BY <1>2, ChunksAreFinite
<1>4. CASE c < a + n
  <2>1. \A d \in before(c) : d \in a .. c - 1 BY <1>1
  <2>2. IsFiniteSet(a .. c - 1) /\ Cardinality(a .. c - 1) = c - a
    <3>1. c - 1 \in Int /\ (a > c - 1 => c - a = 0) /\ (c - 1) - a + 1 = c - a BY <1>1
    <3> QED BY <3>1, FS_Interval
  <2> HIDE DEF before
  <2>3. Cardinality(before(c)) <= c - a BY <2>1, <2>2, FS_Subset
  <2> QED BY <1>1, <1>3, <1>4, <2>3
<1>5. CASE ~(c < a + n)
  <2>1. a .. a + n - 1 \subseteq before(c) BY <1>1, <1>5
  <2>2. Cardinality(a .. a + n - 1) = n BY FS_Interval
  <2> HIDE DEF before
  <2>3. Cardinality(a .. a + n - 1) <= Cardinality(before(c)) BY <1>3, <2>1, FS_Subset
  <2> QED BY <1>3, <1>5, <2>2, <2>3
<1> QED BY <1>4, <1>5

\* What a window keeps of a run it is given.
LEMMA KeptOfRun ==
  ASSUME NEW a \in Nat, NEW b \in Nat, 1 <= a, b <= MaxChunks, DaemonConstants
  PROVE  Oldest(Retention, a .. b) = {c \in a .. b : c < a + Retention}
<1>1. a .. b \in SUBSET Chunk BY DEF Chunk
<1>2. Retention \in Nat BY DEF Retention, DaemonConstants
<1> HIDE DEF Retention
<1>3. \A c \in a .. b : a <= c /\ \A x \in a .. c : x < a + Retention => x \in a .. b
  OBVIOUS
<1> QED BY <1>1, <1>2, <1>3, OldestOfRun

\* Keeping what fits of the head and later of the whole is keeping what fits.
LEMMA KeptTogether ==
  ASSUME NEW a \in Nat, NEW b \in Nat, 1 <= a, a <= b + 1, b <= captured,
         captured \in 0 .. MaxChunks, DaemonConstants
  PROVE  Oldest(Retention, {c \in a .. b : c < a + Retention} \cup (b + 1 .. captured))
           = {c \in a .. captured : c < a + Retention}
<1> DEFINE S == {c \in a .. b : c < a + Retention} \cup (b + 1 .. captured)
<1>1. S \in SUBSET Chunk BY DEF Chunk, DaemonConstants
<1>2. Retention \in Nat BY DEF Retention, DaemonConstants
<1> HIDE DEF Retention
<1>3. \A c \in S : a <= c /\ \A x \in a .. c : x < a + Retention => x \in S BY <1>2
<1>4. {c \in S : c < a + Retention} = {c \in a .. captured : c < a + Retention} BY <1>2
<1> HIDE DEF S
<1>5. Oldest(Retention, S) = {c \in S : c < a + Retention}
  BY <1>1, <1>2, <1>3, OldestOfRun
<1> QED BY <1>4, <1>5 DEF S

\* What the ASR is given of it: the head, up to the last audible chunk retained.
LEMMA FinishOfRun ==
  ASSUME NEW a \in Nat, 1 <= a, captured \in 0 .. MaxChunks, DaemonConstants
  PROVE  finish({c \in a .. captured : c < a + Retention})
           = {c \in a .. captured :
                /\ c < a + MaxUtterance
                /\ \E d \in c .. captured : d \in Audible /\ d < a + Retention}
<1> DEFINE W == {c \in a .. captured : c < a + Retention}
           S == {c \in W : \E d \in W \cap Audible : c <= d}
<1>1. S \in SUBSET Chunk BY DEF Chunk, DaemonConstants
<1>2. Retention \in Nat /\ MaxUtterance \in Nat BY DEF Retention, DaemonConstants
<1> HIDE DEF Retention, Audible
<1>3. \A c \in S : a <= c /\ \A x \in a .. c : x < a + MaxUtterance => x \in S
  <2> SUFFICES ASSUME NEW c \in S, NEW x \in a .. c PROVE a <= c /\ x \in S OBVIOUS
  <2>1. PICK d \in W \cap Audible : c <= d OBVIOUS
  <2> QED BY <1>2, <2>1
<1>4. S = {c \in a .. captured :
             \E d \in c .. captured : d \in Audible /\ d < a + Retention}
  BY <1>2
<1>5. finish(W) = Oldest(MaxUtterance, S) BY DEF finish
<1> HIDE DEF S
<1>6. Oldest(MaxUtterance, S) = {c \in S : c < a + MaxUtterance}
  BY <1>1, <1>2, <1>3, OldestOfRun
<1> QED BY <1>4, <1>5, <1>6
-----------------------------------------------------------------------------
(* Talking to the user.                                                    *)

\* One reply counts at most one answer, and none outside a window.
LEMMA RepliesCount ==
  ASSUME NEW v \in View, NEW w \in View, w.machine = v.machine, Replies(v, w)
  PROVE  /\ w.past.told >= v.past.told
         /\ pttListening(v.machine) \/ w.past.told = v.past.told
         /\ Accounted(v) => Accounted(w)
<1>1. v.past.told \in 0 .. 2 /\ w.past.told \in 0 .. 2 BY DEF View, Past
<1>2. \A n \in 0 .. 2 : OneMore(n) >= n /\ OneMore(n) >= 1 BY DEF OneMore
<1> QED BY <1>1, <1>2 DEF Replies, Accounted

\* A result is noted and told at once: one reply, on a panel of its own.
LEMMA ResultSays ==
  ASSUME NEW v \in View, NEW outcome \in Outcome, NEW panel \in Panel,
         panel # "listening"
  PROVE  LET w == Tell(noteWindowResult(v, outcome), panel)
         IN  /\ Says(v, w) /\ w.gate.produced
             /\ w.past.heard = v.past.heard /\ w.past.again = v.past.again
<1> DEFINE n == noteWindowResult(v, outcome)
           told == IF pttListening(n.machine) THEN OneMore(n.past.told) ELSE n.past.told
           w == [n EXCEPT !.hud.panel = panel, !.past.told = told]
<1>1. Tell(n, panel) = w BY DEF Tell
<1>2. /\ n \in View /\ n.machine = v.machine /\ n.stream = v.stream
      /\ n.audio = v.audio /\ n.past = v.past /\ n.gate.active = v.gate.active
      /\ n.gate.whole = v.gate.whole /\ n.gate.spent = v.gate.spent
      /\ n.gate.deadline = v.gate.deadline /\ n.gate.produced
  BY DEF noteWindowResult, View, Hud, Gate
<1> HIDE DEF n
<1>3. told \in 0 .. 2 BY <1>2, OneMoreType DEF View, Past
<1>4. told = IF pttListening(v.machine) THEN OneMore(v.past.told) ELSE v.past.told
  BY <1>2
<1> HIDE DEF told
<1>5. w \in View BY <1>2, <1>3 DEF View, Hud, Past
<1>6. /\ w.machine = n.machine /\ w.stream = n.stream
      /\ w.audio = n.audio /\ w.gate = n.gate
  BY <1>2 DEF View
<1>7. /\ w.past.told = told /\ w.past.opened = n.past.opened
      /\ w.past.attempts = n.past.attempts
      /\ w.past.heard = n.past.heard /\ w.past.again = n.past.again
      /\ w.hud.panel = panel
  BY <1>2, <1>3 DEF View, Hud, Past
<1> HIDE DEF w
<1>8. Works(v, w) BY <1>2, <1>4, <1>5, <1>6, <1>7 DEF Works, Replies, PanelOwned
<1>9. /\ Says(v, w) /\ w.gate.produced
      /\ w.past.heard = v.past.heard /\ w.past.again = v.past.again
  BY <1>2, <1>6, <1>7, <1>8 DEF Says
<1> QED BY <1>1, <1>9 DEF n

\* Raising or dropping the listening panel keeps whatever the panel shows owned.
LEMMA HudSays ==
  ASSUME NEW v \in View
  PROVE  LET w == updateListeningHud(v)
         IN  Says(v, w) /\ w.past = v.past /\ w.gate = v.gate
<1> DEFINE w == updateListeningHud(v)
<1>1. w \in View BY HudTalks DEF OnlyTalks
<1>2. /\ w.machine = v.machine /\ w.stream = v.stream /\ w.audio = v.audio
      /\ w.past = v.past /\ w.gate = v.gate
  BY DEF updateListeningHud, View
<1>3. PanelOwned(v) => PanelOwned(w) BY DEF updateListeningHud, PanelOwned, View, Hud
<1> HIDE DEF w
<1>4. Says(v, w) BY <1>1, <1>2, <1>3 DEF Says, Works, Replies
<1> QED BY <1>2, <1>4 DEF w

\* Doing nothing says nothing.
LEMMA SaysNothing == \A v \in View : Says(v, v)
BY DEF Says, Works, Replies

\* Transcribing a batch of segments: one reply, and all of them heard or none.
LEMMA SegmentsSay ==
  ASSUME NEW v \in View, NEW segs \in SUBSET (SUBSET Chunk), NEW verdict
  PROVE  LET w == handleSegments(v, segs, verdict)
         IN  Says(v, w) /\ Hears(v, w, UNION segs)
<1> DEFINE ids == UNION segs
           t == [v EXCEPT !.past.again = @ \cup (v.past.heard \cap ids),
                          !.past.heard = @ \cup ids]
           Said(u, w) == /\ Says(u, w) /\ w.past.heard = u.past.heard
                         /\ w.past.again = u.past.again
<1>1. ids \in SUBSET Chunk OBVIOUS
<1>2. /\ t \in View /\ t.machine = v.machine /\ t.stream = v.stream
      /\ t.audio = v.audio /\ t.gate = v.gate /\ t.hud = v.hud
      /\ t.past.heard = v.past.heard \cup ids
      /\ t.past.again = v.past.again \cup (v.past.heard \cap ids)
      /\ t.past.opened = v.past.opened /\ t.past.told = v.past.told
      /\ t.past.attempts = v.past.attempts
  <2> HIDE DEF ids
  <2> QED BY <1>1 DEF View, Past
<1> HIDE DEF t
<1>3. {"no-speech", "asr-unavailable", "ok", "unparsed"} \subseteq Outcome BY DEF Outcome
<1>4. {"result", "transcript"} \subseteq Panel BY DEF Panel
<1>5. ASSUME NEW u \in View, NEW outcome \in Outcome PROVE Said(u, Reject(u, outcome))
  BY <1>4, ResultSays, SaysNothing DEF Reject
<1>6. ASSUME NEW u \in View PROVE Said(u, Accept(u, verdict))
  BY <1>3, <1>4, ResultSays DEF Accept
<1>7. ASSUME NEW w, Said(t, w) PROVE Says(v, w) /\ Hears(v, w, ids)
  <2> HIDE DEF ids
  <2>1. Says(v, w) BY <1>2, <1>7 DEF Says, Works, Replies, PanelOwned
  <2> QED BY <1>2, <1>7, <2>1 DEF Hears
<1>8. ASSUME NEW w, Said(v, w) PROVE Says(v, w) /\ Hears(v, w, ids)
  BY <1>8 DEF Hears
<1>9. Said(t, Reject(t, "no-speech")) /\ Said(t, Accept(t, verdict))
  BY <1>2, <1>3, <1>5, <1>6
<1>10. Said(v, Reject(v, "asr-unavailable")) /\ Said(v, v)
  BY <1>3, <1>5, SaysNothing
<1> DEFINE w == handleSegments(v, segs, verdict)
<1>11. \/ w = v \/ w = Reject(v, "asr-unavailable")
       \/ w = Reject(t, "no-speech") \/ w = Accept(t, verdict)
  BY DEF handleSegments, t
<1> HIDE DEF w, ids, Said
<1> QED BY <1>7, <1>8, <1>9, <1>10, <1>11 DEF ids, w
-----------------------------------------------------------------------------
(* The window.                                                             *)

\* Nothing more is heard or said.
Silent(v, w) == /\ w.past.heard = v.past.heard /\ w.past.again = v.past.again
                /\ w.past.told = v.past.told /\ w.gate.produced = v.gate.produced

\* Chunks of a whole window are kept for later as far as they fit, or the ASR is
\* given what is to be heard of them and of all that came before.
Absorbs(v, w, chunks) ==
  LET kept == Oldest(Retention, v.audio.window \cup chunks)
  IN  \/ ~w.gate.spent /\ w.audio.window = kept /\ Silent(v, w)
      \/ w.gate.spent /\ w.audio.window = {} /\ Hears(v, w, finish(kept))

\* A call that moves no audio but the window's and the detector's.
KeepsTheRest(v, w) == /\ w.audio.queue = v.audio.queue
                      /\ w.audio.ring = v.audio.ring

\* Working from a view that differs in its audio only is working.
LEMMA WorksFrom ==
  ASSUME NEW v, NEW d, NEW w, Works(d, w),
         d.machine = v.machine, d.stream = v.stream, d.gate.active = v.gate.active,
         d.gate.produced = v.gate.produced, d.past = v.past, d.hud = v.hud
  PROVE  Works(v, w)
BY DEF Works, Replies, PanelOwned

\* So is raising or dropping the panel after it.
LEMMA WorksThenHud ==
  ASSUME NEW v, NEW w \in View, Works(v, w)
  PROVE  LET u == updateListeningHud(w)
         IN  /\ Works(v, u) /\ u.audio = w.audio /\ u.gate = w.gate /\ u.past = w.past
<1> DEFINE u == updateListeningHud(w)
<1>1. Says(w, u) /\ u.past = w.past /\ u.gate = w.gate BY HudSays
<1> HIDE DEF u
<1>2. Works(v, u) BY <1>1 DEF Works, Says, Replies
<1> QED BY <1>1, <1>2 DEF Says, u

\* Finalizing a whole window hands over what is to be heard of it, once.
LEMMA FinalizeWorks ==
  ASSUME NEW v \in View, NEW verdict, WindowEmptied(v)
  PROVE  LET w == finalizePttUtterance(v, verdict)
         IN  /\ Works(v, w) /\ Hears(v, w, finish(v.audio.window))
             /\ w.gate.whole = v.gate.whole /\ KeepsTheRest(v, w)
             /\ v.gate.whole => w.gate.spent /\ w.audio.window = {}
             /\ v.gate.whole /\ v.gate.spent => Silent(v, w)
<1> DEFINE f == [v EXCEPT !.gate.spent = TRUE, !.audio.window = {}]
           kept == finish(v.audio.window)
           h == handleSegments(f, {kept}, verdict)
           l == [h EXCEPT !.gate.deadline = "linger", !.gate.due = FALSE]
           w == finalizePttUtterance(v, verdict)
           Done(x) == /\ Works(v, x) /\ Hears(v, x, kept)
                      /\ x.gate.whole = v.gate.whole /\ KeepsTheRest(v, x)
                      /\ x.gate.spent /\ x.audio.window = {}
<1>1. /\ f \in View /\ f.machine = v.machine /\ f.stream = v.stream
      /\ f.hud = v.hud /\ f.past = v.past
      /\ f.gate.active = v.gate.active /\ f.gate.whole = v.gate.whole
      /\ f.gate.produced = v.gate.produced /\ f.gate.spent
      /\ f.audio.queue = v.audio.queue /\ f.audio.ring = v.audio.ring
      /\ f.audio.window = {}
  BY DEF View, Gate, Audio
<1>2. {kept} \in SUBSET (SUBSET Chunk) /\ UNION {kept} = kept
  <2>1. v.audio.window \in SUBSET Chunk BY DEF View, Audio
  <2> QED BY <2>1, FinishType
<1>3. /\ w = IF ~v.gate.whole \/ v.gate.spent THEN v
             ELSE IF verdict = "silent" \/ kept = {} THEN f
             ELSE IF h.gate.deadline = "none" THEN h ELSE l
  BY DEF finalizePttUtterance
<1> HIDE DEF f, kept
<1>4. Says(f, h) /\ Hears(f, h, kept) BY <1>1, <1>2, SegmentsSay
<1> HIDE DEF h
<1>5. Done(f) BY <1>1 DEF Works, Replies, PanelOwned, Hears, KeepsTheRest
<1>6. Done(h)
  <2>1. Works(v, h) BY <1>1, <1>4, WorksFrom DEF Says
  <2> QED BY <1>1, <1>4, <2>1 DEF Says, Hears, KeepsTheRest
<1>7. Done(l)
  <2>1. h \in View BY <1>6 DEF Works
  <2>2. /\ l \in View /\ l.machine = h.machine /\ l.stream = h.stream
        /\ l.hud = h.hud /\ l.past = h.past /\ l.audio = h.audio
        /\ l.gate.active = h.gate.active /\ l.gate.whole = h.gate.whole
        /\ l.gate.produced = h.gate.produced /\ l.gate.spent = h.gate.spent
    BY <2>1 DEF View, Gate
  <2> HIDE DEF l
  <2> QED BY <1>6, <2>2 DEF Works, Replies, PanelOwned, Hears, KeepsTheRest
<1>8. CASE ~v.gate.whole \/ v.gate.spent
  <2>1. w = v BY <1>3, <1>8
  <2>2. v.gate.whole /\ v.gate.spent => v.audio.window = {} BY DEF WindowEmptied
  <2>3. Works(v, v) /\ Hears(v, v, kept) /\ KeepsTheRest(v, v) /\ Silent(v, v)
    BY DEF Works, Replies, Hears, KeepsTheRest, Silent
  <2> HIDE DEF w
  <2>4. /\ Works(v, w) /\ Hears(v, w, kept)
        /\ w.gate.whole = v.gate.whole /\ KeepsTheRest(v, w)
        /\ v.gate.whole => w.gate.spent /\ w.audio.window = {}
        /\ v.gate.whole /\ v.gate.spent => Silent(v, w)
    BY <1>8, <2>1, <2>2, <2>3
  <2> QED BY <2>4 DEF w, kept
<1>9. CASE ~(~v.gate.whole \/ v.gate.spent)
  <2> HIDE DEF l, w, Done
  <2>1. Done(w) BY <1>3, <1>5, <1>6, <1>7, <1>9
  <2> QED BY <1>9, <2>1 DEF Done, w, kept
<1> QED BY <1>8, <1>9

\* Chunks that pass the open gate: a whole window absorbs them.
LEMMA FeedWorks ==
  ASSUME NEW v \in View, NEW chunks \in SUBSET Chunk, NEW verdict,
         WindowEmptied(v), ~(v.gate.whole /\ v.gate.spent)
  PROVE  LET w == Feed(v, chunks, verdict)
         IN  /\ Works(v, w) /\ w.gate.whole = v.gate.whole /\ KeepsTheRest(v, w)
             /\ v.gate.whole => Absorbs(v, w, chunks)
             /\ ~v.gate.whole => w.audio.window = v.audio.window
<1> DEFINE segs == Segments(v.audio.vad, chunks)
           kept == Oldest(Retention, v.audio.window \cup chunks)
           win  == IF v.gate.whole THEN kept ELSE v.audio.window
           fed  == [v EXCEPT !.audio.vad = Utterance(@, chunks), !.audio.window = win]
           w    == Feed(v, chunks, verdict)
<1>1. segs \in SUBSET (SUBSET Chunk) BY SegmentsType DEF View, Audio
<1>2. Utterance(v.audio.vad, chunks) \in SUBSET Chunk BY UtteranceType DEF View, Audio
<1>3. win \in SUBSET Chunk
  <2>1. v.audio.window \in SUBSET Chunk /\ v.audio.window \cup chunks \in SUBSET Chunk
    BY DEF View, Audio
  <2>2. kept \in SUBSET Chunk BY <2>1, OldestType
  <2> HIDE DEF kept
  <2> QED BY <2>1, <2>2
<1>4. w = IF ~v.gate.whole THEN handleSegments(fed, segs, verdict)
          ELSE IF segs = {} THEN fed ELSE finalizePttUtterance(fed, verdict)
  BY DEF Feed
<1> HIDE DEF win
<1>5. /\ fed \in View /\ fed.machine = v.machine /\ fed.gate = v.gate
      /\ fed.stream = v.stream /\ fed.past = v.past /\ fed.hud = v.hud
      /\ fed.audio.queue = v.audio.queue /\ fed.audio.ring = v.audio.ring
      /\ fed.audio.window = win
  BY <1>2, <1>3 DEF View, Audio
<1> HIDE DEF fed, segs, w
<1>6. CASE ~v.gate.whole
  <2>1. w = handleSegments(fed, segs, verdict) BY <1>4, <1>6
  <2>2. Says(fed, w) BY <1>1, <1>5, <2>1, SegmentsSay
  <2>3. Works(v, w) BY <1>5, <2>2, WorksFrom DEF Says
  <2>4. w.gate.whole = v.gate.whole /\ KeepsTheRest(v, w) BY <1>5, <2>2 DEF Says, KeepsTheRest
  <2>5. w.audio.window = v.audio.window BY <1>5, <1>6, <2>2 DEF Says, win
  <2> QED BY <1>6, <2>3, <2>4, <2>5 DEF w
<1>7. CASE v.gate.whole /\ segs = {}
  <2>1. w = fed BY <1>4, <1>7
  <2>2. Works(v, w) BY <1>5, <2>1 DEF Works, Replies, PanelOwned
  <2>3. Absorbs(v, w, chunks) BY <1>5, <1>7, <2>1 DEF Absorbs, Silent, win
  <2>4. w.gate.whole = v.gate.whole /\ KeepsTheRest(v, w) BY <1>5, <2>1 DEF KeepsTheRest
  <2> QED BY <1>7, <2>2, <2>3, <2>4 DEF w
<1>8. CASE v.gate.whole /\ segs # {}
  <2>1. w = finalizePttUtterance(fed, verdict) BY <1>4, <1>8
  <2>2. /\ Works(fed, w) /\ Hears(fed, w, finish(fed.audio.window))
        /\ w.gate.whole = fed.gate.whole /\ KeepsTheRest(fed, w)
        /\ w.gate.spent /\ w.audio.window = {}
    <3>1. WindowEmptied(fed) BY <1>5, <1>8 DEF WindowEmptied
    <3> QED BY <1>5, <1>8, <2>1, <3>1, FinalizeWorks
  <2>3. Works(v, w) BY <1>5, <2>2, WorksFrom
  <2>4. Absorbs(v, w, chunks) BY <1>5, <1>8, <2>2 DEF Absorbs, Hears, win
  <2>5. w.gate.whole = v.gate.whole /\ KeepsTheRest(v, w) BY <1>5, <2>2 DEF KeepsTheRest
  <2> QED BY <1>8, <2>3, <2>4, <2>5 DEF w
<1> QED BY <1>6, <1>7, <1>8

\* A drain of the queue behind an open gate; a spent window drops what comes.
LEMMA DrainWorks ==
  ASSUME NEW v \in View, NEW verdict, WindowEmptied(v), v.gate.active
  PROVE  LET w == drainAudio(v, verdict)
         IN  /\ Works(v, w) /\ w.gate.whole = v.gate.whole
             /\ w.audio.queue = {} /\ w.audio.ring = v.audio.ring
             /\ v.gate.whole /\ ~v.gate.spent => Absorbs(v, w, v.audio.queue)
             /\ v.gate.whole /\ v.gate.spent => w.gate.spent /\ Silent(v, w)
             /\ ~v.gate.whole => w.audio.window = v.audio.window
<1> DEFINE d   == [v EXCEPT !.audio.queue = {}]
           fed == IF v.gate.whole /\ v.gate.spent THEN d ELSE Feed(d, v.audio.queue, verdict)
           w   == drainAudio(v, verdict)
           Drained(x) == /\ Works(v, x) /\ x.gate.whole = v.gate.whole
                         /\ x.audio.queue = {} /\ x.audio.ring = v.audio.ring
                         /\ v.gate.whole /\ ~v.gate.spent => Absorbs(v, x, v.audio.queue)
                         /\ v.gate.whole /\ v.gate.spent => x.gate.spent /\ Silent(v, x)
                         /\ ~v.gate.whole => x.audio.window = v.audio.window
<1>1. /\ d \in View /\ d.machine = v.machine /\ d.gate = v.gate /\ d.stream = v.stream
      /\ d.past = v.past /\ d.hud = v.hud /\ d.audio.queue = {}
      /\ d.audio.ring = v.audio.ring /\ d.audio.window = v.audio.window
  BY DEF View, Audio
<1>2. w = updateListeningHud(fed) BY DEF drainAudio
<1>3. v.audio.queue \in SUBSET Chunk BY DEF View, Audio
<1> HIDE DEF d
<1>4. Drained(fed)
  <2>1. CASE v.gate.whole /\ v.gate.spent
    <3>1. fed = d BY <2>1
    <3> HIDE DEF fed
    <3>2. Works(v, fed) BY <1>1, <3>1 DEF Works, Replies, PanelOwned
    <3> QED BY <1>1, <2>1, <3>1, <3>2 DEF Silent
  <2>2. CASE ~(v.gate.whole /\ v.gate.spent)
    <3>1. fed = Feed(d, v.audio.queue, verdict) BY <2>2
    <3> HIDE DEF fed
    <3>2. /\ Works(d, fed) /\ fed.gate.whole = d.gate.whole /\ KeepsTheRest(d, fed)
          /\ d.gate.whole => Absorbs(d, fed, v.audio.queue)
          /\ ~d.gate.whole => fed.audio.window = d.audio.window
      <4>1. WindowEmptied(d) BY <1>1 DEF WindowEmptied
      <4> QED BY <1>1, <1>3, <2>2, <3>1, <4>1, FeedWorks
    <3>3. Works(v, fed) BY <1>1, <3>2, WorksFrom
    <3>4. v.gate.whole => Absorbs(v, fed, v.audio.queue)
      BY <1>1, <3>2 DEF Absorbs, Silent, Hears
    <3> QED BY <1>1, <2>2, <3>2, <3>3, <3>4 DEF KeepsTheRest
  <2> QED BY <2>1, <2>2
<1> HIDE DEF fed
<1>5. /\ Works(v, w) /\ w.audio = fed.audio /\ w.gate = fed.gate /\ w.past = fed.past
  <2>1. fed \in View /\ Works(v, fed) BY <1>4 DEF Works
  <2> HIDE DEF Drained
  <2> QED BY <1>2, <2>1, WorksThenHud
<1> HIDE DEF w
<1>6. Drained(w) BY <1>4, <1>5 DEF Absorbs, Silent, Hears
<1> QED BY <1>6 DEF w

\* A drain behind a shut gate: the ring, and nothing else.
LEMMA DrainShut ==
  ASSUME NEW v \in View, NEW verdict, ~v.gate.active
  PROVE  LET w == drainAudio(v, verdict)
         IN  /\ w \in View /\ w.machine = v.machine /\ w.stream = v.stream
             /\ w.gate = v.gate /\ w.hud = v.hud /\ w.past = v.past
             /\ w.audio.queue = {} /\ w.audio.ring = Newest(v.audio.ring \cup v.audio.queue)
             /\ w.audio.window = v.audio.window /\ w.audio.vad = v.audio.vad
<1> DEFINE ring == Newest(v.audio.ring \cup v.audio.queue)
           w == [v EXCEPT !.audio.queue = {}, !.audio.ring = ring]
<1>1. ring \in SUBSET Chunk
  <2>1. v.audio.ring \cup v.audio.queue \in SUBSET Chunk BY DEF View, Audio
  <2> QED BY <2>1, NewestType
<1>2. drainAudio(v, verdict) = w BY DEF drainAudio, View, Audio
<1> HIDE DEF ring
<1>3. /\ w \in View /\ w.machine = v.machine /\ w.stream = v.stream
      /\ w.gate = v.gate /\ w.hud = v.hud /\ w.past = v.past
      /\ w.audio.queue = {} /\ w.audio.ring = ring
      /\ w.audio.window = v.audio.window /\ w.audio.vad = v.audio.vad
  BY <1>1 DEF View, Audio
<1> HIDE DEF w
<1> QED BY <1>2, <1>3 DEF ring

\* What is left of a window at its close: what is to be heard of it if it is a
\* whole one.
LEMMA RestWorks ==
  ASSUME NEW v \in View, NEW verdict, WindowEmptied(v)
  PROVE  LET w == transcribeRest(v, verdict)
         IN  /\ Works(v, w) /\ KeepsTheRest(v, w)
             /\ v.gate.whole => Hears(v, w, finish(v.audio.window))
             /\ v.gate.whole /\ v.gate.spent => Silent(v, w)
<1> DEFINE w == transcribeRest(v, verdict)
<1>1. CASE v.gate.whole
  <2> DEFINE f == finalizePttUtterance(v, verdict)
             r == [f EXCEPT !.gate.whole = FALSE]
  <2>1. /\ Works(v, f) /\ Hears(v, f, finish(v.audio.window)) /\ KeepsTheRest(v, f)
        /\ v.gate.spent => Silent(v, f)
    BY <1>1, FinalizeWorks
  <2>2. w = r BY <1>1 DEF transcribeRest
  <2> HIDE DEF f
  <2>3. f \in View BY <2>1 DEF Works
  <2>4. /\ r \in View /\ r.machine = f.machine /\ r.audio = f.audio /\ r.stream = f.stream
        /\ r.past = f.past /\ r.hud = f.hud /\ r.gate.active = f.gate.active
        /\ r.gate.produced = f.gate.produced
    BY <2>3 DEF View, Gate
  <2> HIDE DEF r, w
  <2>5. Works(v, w) BY <2>1, <2>2, <2>4 DEF Works, Replies, PanelOwned
  <2>6. /\ Hears(v, w, finish(v.audio.window)) /\ KeepsTheRest(v, w)
        /\ v.gate.spent => Silent(v, w)
    BY <2>1, <2>2, <2>4 DEF Hears, KeepsTheRest, Silent
  <2> QED BY <1>1, <2>5, <2>6 DEF w
<1>2. CASE ~v.gate.whole
  <2> DEFINE d == [v EXCEPT !.audio.vad = {}]
             segs == IF v.audio.vad = {} THEN {} ELSE {v.audio.vad}
  <2>1. segs \in SUBSET (SUBSET Chunk) BY DEF View, Audio
  <2>2. /\ d \in View /\ d.machine = v.machine /\ d.gate = v.gate /\ d.stream = v.stream
        /\ d.past = v.past /\ d.hud = v.hud
        /\ d.audio.queue = v.audio.queue /\ d.audio.ring = v.audio.ring
    BY DEF View, Audio
  <2>3. w = handleSegments(d, segs, verdict) BY <1>2 DEF transcribeRest, flushVad
  <2> HIDE DEF d, segs, w
  <2>4. Says(d, w) BY <2>1, <2>2, <2>3, SegmentsSay
  <2>5. Works(v, w) BY <2>2, <2>4, WorksFrom DEF Says
  <2>6. KeepsTheRest(v, w) BY <2>2, <2>4 DEF Says, KeepsTheRest
  <2> QED BY <1>2, <2>5, <2>6 DEF w
<1> QED BY <1>1, <1>2

\* A window that has noted a result has been heard, and told exactly that once.
AnsweredOnce(v) == /\ v.past.told = IF v.gate.produced THEN 1 ELSE 0
                   /\ ~v.gate.spent => ~v.gate.produced

\* One reply takes a window without an answer to one with one.
LEMMA RepliesOnce ==
  ASSUME NEW v, NEW w, Replies(v, w), pttListening(v.machine),
         v.past.told = 0, ~v.gate.produced, w.gate.produced \in BOOLEAN
  PROVE  w.past.told = IF w.gate.produced THEN 1 ELSE 0
BY DEF Replies, OneMore

\* What is to be heard of a whole window is heard, in one reply.
HandsOver(v, r) ==
  /\ r \in View /\ r.machine = v.machine /\ r.stream = v.stream
  /\ r.gate.active /\ ~r.gate.whole
  /\ r.past.opened = v.past.opened /\ r.past.attempts = v.past.attempts
  /\ r.audio.queue = {} /\ r.audio.window = {} /\ r.audio.ring = v.audio.ring
  /\ r.past.told >= v.past.told
  /\ Accounted(v) => Accounted(r)
  /\ PanelOwned(v) => PanelOwned(r)
  /\ v.gate.whole /\ ~v.gate.spent => Hears(v, r, Due(v))
  /\ v.gate.whole /\ v.gate.spent => Silent(v, r)
  /\ v.gate.whole /\ pttListening(v.machine) /\ AnsweredOnce(v) =>
       r.past.told = IF r.gate.produced THEN 1 ELSE 0

\* A window is drained, then the rest of it handed over.
LEMMA DrainThenRest ==
  ASSUME NEW v \in View, NEW drained, NEW last, WindowEmptied(v), v.gate.active
  PROVE  HandsOver(v, transcribeRest(drainAudio(v, drained), last))
<1> DEFINE d == drainAudio(v, drained)
           r == transcribeRest(d, last)
<1>1. /\ Works(v, d) /\ d.gate.whole = v.gate.whole
      /\ d.audio.queue = {} /\ d.audio.ring = v.audio.ring
      /\ v.gate.whole /\ ~v.gate.spent => Absorbs(v, d, v.audio.queue)
      /\ v.gate.whole /\ v.gate.spent => d.gate.spent /\ Silent(v, d)
  BY DrainWorks
<1>2. WindowEmptied(d) BY DrainKeeps DEF KeepsWindow
<1> HIDE DEF d
<1>3. d \in View BY <1>1 DEF Works
<1>4. /\ Works(d, r) /\ KeepsTheRest(d, r)
      /\ d.gate.whole => Hears(d, r, finish(d.audio.window))
      /\ d.gate.whole /\ d.gate.spent => Silent(d, r)
  BY <1>2, <1>3, RestWorks
<1>5. ~r.gate.whole /\ r.audio.window = {} BY <1>2, <1>3, RestKeeps
<1> HIDE DEF r
<1>6. /\ r \in View /\ r.machine = v.machine /\ r.stream = v.stream
      /\ r.gate.active
      /\ r.past.opened = v.past.opened /\ r.past.attempts = v.past.attempts
      /\ d.machine = v.machine /\ Replies(v, d) /\ Replies(d, r)
  BY <1>1, <1>4 DEF Works
<1>7. r.audio.queue = {} /\ r.audio.ring = v.audio.ring
  BY <1>1, <1>4 DEF KeepsTheRest
<1>8. /\ d.past.told >= v.past.told /\ r.past.told >= d.past.told
      /\ Accounted(v) => Accounted(d) /\ (Accounted(d) => Accounted(r))
  BY <1>3, <1>6, RepliesCount
<1>9. r.past.told >= v.past.told
  <2>1. v.past.told \in 0 .. 2 /\ d.past.told \in 0 .. 2 /\ r.past.told \in 0 .. 2
    BY <1>3, <1>6 DEF View, Past
  <2> QED BY <1>8, <2>1
<1>10. PanelOwned(v) => PanelOwned(r) BY <1>1, <1>4 DEF Works
<1>11. v.gate.whole /\ ~v.gate.spent => Hears(v, r, Due(v))
  <2> SUFFICES ASSUME v.gate.whole, ~v.gate.spent PROVE Hears(v, r, Due(v)) OBVIOUS
  <2> DEFINE kept == Oldest(Retention, v.audio.window \cup v.audio.queue)
  <2>1. CASE ~d.gate.spent
    <3>1. d.audio.window = kept /\ Silent(v, d) BY <1>1, <2>1 DEF Absorbs
    <3>2. Hears(d, r, finish(kept)) BY <1>1, <1>4, <3>1
    <3> QED BY <3>1, <3>2 DEF Hears, Silent, Due
  <2>2. CASE d.gate.spent
    <3>1. Hears(v, d, finish(kept)) /\ Silent(d, r) BY <1>1, <1>4, <2>2 DEF Absorbs
    <3> QED BY <3>1 DEF Hears, Silent, Due
  <2> QED BY <2>1, <2>2
<1>12. v.gate.whole /\ v.gate.spent => Silent(v, r)
  BY <1>1, <1>4 DEF Silent
<1>13. ASSUME v.gate.whole, pttListening(v.machine), AnsweredOnce(v)
       PROVE  r.past.told = IF r.gate.produced THEN 1 ELSE 0
  <2>1. d.gate.produced \in BOOLEAN /\ r.gate.produced \in BOOLEAN /\ v.gate.produced \in BOOLEAN
    BY <1>3, <1>6 DEF View, Gate
  <2>2. CASE v.gate.spent
    BY <1>12, <1>13, <2>2 DEF Silent, AnsweredOnce
  <2>3. CASE ~v.gate.spent /\ ~d.gate.spent
    <3>1. d.past.told = 0 /\ ~d.gate.produced
      BY <1>1, <1>13, <2>1, <2>3 DEF Absorbs, Silent, AnsweredOnce
    <3> QED BY <1>6, <1>13, <2>1, <3>1, RepliesOnce
  <2>4. CASE ~v.gate.spent /\ d.gate.spent
    <3>1. v.past.told = 0 /\ ~v.gate.produced BY <1>13, <2>1, <2>4 DEF AnsweredOnce
    <3>2. d.past.told = IF d.gate.produced THEN 1 ELSE 0
      BY <1>6, <1>13, <2>1, <3>1, RepliesOnce
    <3>3. Silent(d, r) BY <1>1, <1>4, <1>13, <2>4
    <3> QED BY <3>2, <3>3 DEF Silent
  <2> QED BY <2>2, <2>3, <2>4
<1>14. (Accounted(v) => Accounted(r)) BY <1>8
<1>15. HandsOver(v, r)
  BY <1>5, <1>6, <1>7, <1>9, <1>10, <1>11, <1>12, <1>13, <1>14 DEF HandsOver
<1> QED BY <1>15 DEF r, d

\* Answering: a window that noted no result is told there was none.
LEMMA AnswerDoes ==
  ASSUME NEW v \in View, v.gate.produced => v.past.told >= 1
  PROVE  LET w == answer(v)
         IN  /\ w \in View /\ w.machine = v.machine /\ w.stream = v.stream
             /\ w.audio = v.audio /\ w.gate.active = v.gate.active
             /\ w.gate.whole = v.gate.whole /\ w.gate.spent = v.gate.spent
             /\ w.past.opened = v.past.opened /\ w.past.attempts = v.past.attempts
             /\ w.past.heard = v.past.heard /\ w.past.again = v.past.again
             /\ w.past.told >= v.past.told /\ w.past.told >= 1
             /\ v.past.told = (IF v.gate.produced THEN 1 ELSE 0) => w.past.told = 1
             /\ PanelOwned(v) => PanelOwned(w)
<1> DEFINE w == [v EXCEPT !.gate.outcome = "no-speech", !.hud.panel = "result",
                          !.past.told = OneMore(@)]
<1>1. answer(v) = IF v.gate.produced THEN v ELSE w BY DEF answer
<1>2. CASE v.gate.produced
  <2>1. answer(v) = v BY <1>1, <1>2
  <2>2. v.past.told \in 0 .. 2 BY DEF View, Past
  <2> QED BY <1>2, <2>1, <2>2
<1>3. CASE ~v.gate.produced
  <2>1. v.past.told \in 0 .. 2 /\ OneMore(v.past.told) \in 0 .. 2
    BY OneMoreType DEF View, Past
  <2>2. OneMore(v.past.told) >= v.past.told /\ OneMore(v.past.told) >= 1 BY <2>1 DEF OneMore
  <2>3. v.past.told = 0 => OneMore(v.past.told) = 1 BY DEF OneMore
  <2>4. answer(v) \in View BY AnswerTalks DEF OnlyTalks
  <2>5. /\ w.machine = v.machine /\ w.stream = v.stream /\ w.audio = v.audio
        /\ w.gate.active = v.gate.active
        /\ w.gate.whole = v.gate.whole /\ w.gate.spent = v.gate.spent
        /\ w.past.opened = v.past.opened /\ w.past.attempts = v.past.attempts
        /\ w.past.heard = v.past.heard /\ w.past.again = v.past.again
        /\ w.past.told = OneMore(v.past.told) /\ w.hud.panel = "result"
    BY DEF View, Gate, Past, Hud
  <2>6. answer(v) = w BY <1>1, <1>3
  <2> HIDE DEF w
  <2> QED BY <1>3, <2>2, <2>3, <2>4, <2>5, <2>6 DEF PanelOwned
<1> QED BY <1>2, <1>3

\* Forgetting that a result was produced touches nothing else.
LEMMA Unproduced ==
  ASSUME NEW v \in View
  PROVE  LET w == [v EXCEPT !.gate.produced = FALSE]
         IN  /\ w \in View /\ w.machine = v.machine /\ w.stream = v.stream
             /\ w.audio = v.audio /\ w.hud = v.hud /\ w.past = v.past
             /\ w.gate.active = v.gate.active /\ w.gate.whole = v.gate.whole
             /\ w.gate.spent = v.gate.spent /\ ~w.gate.produced
BY DEF View, Gate

\* The window is shut, what it recorded is heard, and the user is told.
HeardOut(v, w) ==
  /\ w \in View /\ w.stream = v.stream
  /\ w.machine = onTranscribeDone(onPttStop(v.machine))
  /\ w.gate.active /\ ~w.gate.whole /\ ~w.gate.produced
  /\ w.audio.queue = {} /\ w.audio.window = {} /\ w.audio.ring = v.audio.ring
  /\ w.past.told >= v.past.told /\ w.past.told >= 1
  /\ PanelOwned(v) => PanelOwned(w)
  /\ w.past.attempts = v.past.attempts
  /\ v.gate.whole /\ ~v.gate.spent => Hears(v, w, Due(v))
  /\ v.gate.whole /\ v.gate.spent =>
       w.past.heard = v.past.heard /\ w.past.again = v.past.again
  /\ v.gate.whole /\ AnsweredOnce(v) => w.past.told = 1

\* That is what closing an open window does.
LEMMA CloseOpen ==
  ASSUME NEW v, NEW drained, NEW last, Mid(v), Accounted(v),
         pttListening(v.machine), v.gate.active
  PROVE  HeardOut(v, closePttWindow(v, drained, last))
<1> DEFINE r == transcribeRest(drainAudio(v, drained), last)
           n == onTranscribeDone(onPttStop(r.machine))
           s == settle(r)
           u == updateListeningHud(s)
           a == answer(u)
           w == [a EXCEPT !.gate.produced = FALSE]
<1>1. closePttWindow(v, drained, last) = w BY DEF closePttWindow
<1>2. v \in View /\ WindowEmptied(v) BY DEF Mid
<1>3. HandsOver(v, r) BY <1>2, DrainThenRest
<1> HIDE DEF r
<1> USE DEF HandsOver
<1>4. n \in Machine BY <1>3, StopSettles DEF View
<1>5. /\ s \in View /\ s.machine = n /\ s.stream = r.stream /\ s.audio = r.audio
      /\ s.hud = r.hud /\ s.past = r.past /\ s.gate.active = r.gate.active
      /\ s.gate.whole = r.gate.whole /\ s.gate.produced = r.gate.produced
  <2> DEFINE q == [r EXCEPT !.machine = n]
  <2>1. s = disarm(q) BY DEF settle
  <2> HIDE DEF n
  <2>2. /\ q \in View /\ q.machine = n /\ q.stream = r.stream /\ q.audio = r.audio
        /\ q.hud = r.hud /\ q.past = r.past /\ q.gate = r.gate
    BY <1>3, <1>4 DEF View
  <2> HIDE DEF q, s
  <2>3. /\ s \in View /\ s.machine = q.machine /\ s.stream = q.stream /\ s.audio = q.audio
        /\ s.hud = q.hud /\ s.past = q.past /\ s.gate.active = q.gate.active
        /\ s.gate.whole = q.gate.whole /\ s.gate.produced = q.gate.produced
    BY <2>1, <2>2 DEF disarm, View, Gate
  <2> QED BY <2>2, <2>3
<1>6. n = onTranscribeDone(onPttStop(v.machine)) BY <1>3
<1> HIDE DEF n, s
<1>7. Says(s, u) /\ u.past = s.past /\ u.gate = s.gate BY <1>5, HudSays
<1> HIDE DEF u
<1>8. /\ u \in View /\ u.machine = n /\ u.stream = v.stream /\ u.audio = r.audio
      /\ u.past = r.past /\ u.gate.active /\ ~u.gate.whole
      /\ u.gate.produced = r.gate.produced /\ (PanelOwned(v) => PanelOwned(u))
  BY <1>3, <1>5, <1>7 DEF Says, Works, PanelOwned
<1>9. u.gate.produced => u.past.told >= 1
  BY <1>3, <1>8 DEF Accounted
<1>10. /\ a \in View /\ a.machine = u.machine /\ a.stream = u.stream
       /\ a.audio = u.audio /\ a.gate.active = u.gate.active
       /\ a.gate.whole = u.gate.whole
       /\ a.past.heard = u.past.heard /\ a.past.again = u.past.again
       /\ a.past.attempts = u.past.attempts
       /\ a.past.told >= u.past.told /\ a.past.told >= 1
       /\ (u.past.told = (IF u.gate.produced THEN 1 ELSE 0) => a.past.told = 1)
       /\ (PanelOwned(u) => PanelOwned(a))
  BY <1>8, <1>9, AnswerDoes
<1> HIDE DEF a
<1>11. /\ w \in View /\ w.machine = a.machine /\ w.stream = a.stream
       /\ w.audio = a.audio /\ w.hud = a.hud /\ w.past = a.past
       /\ w.gate.active = a.gate.active /\ w.gate.whole = a.gate.whole
       /\ ~w.gate.produced
  BY <1>10, Unproduced
<1> HIDE DEF w
<1>12. w.past.told >= v.past.told
  <2>1. v.past.told \in 0 .. 2 /\ u.past.told \in 0 .. 2 /\ a.past.told \in 0 .. 2
    BY <1>2, <1>8, <1>10 DEF View, Past
  <2> QED BY <1>3, <1>8, <1>10, <1>11, <2>1
<1>13. PanelOwned(v) => PanelOwned(w) BY <1>8, <1>10, <1>11 DEF PanelOwned
<1>14. v.gate.whole /\ ~v.gate.spent => Hears(v, w, Due(v))
  BY <1>3, <1>8, <1>10, <1>11 DEF Hears
<1>15. v.gate.whole /\ v.gate.spent =>
         w.past.heard = v.past.heard /\ w.past.again = v.past.again
  BY <1>3, <1>8, <1>10, <1>11 DEF Silent
<1>16. v.gate.whole /\ AnsweredOnce(v) => w.past.told = 1
  BY <1>3, <1>8, <1>10, <1>11
<1>17. /\ w \in View /\ w.stream = v.stream /\ w.machine = n
       /\ w.gate.active /\ ~w.gate.whole /\ ~w.gate.produced
       /\ w.audio.queue = {} /\ w.audio.window = {} /\ w.audio.ring = v.audio.ring
       /\ w.past.told >= 1 /\ w.past.attempts = v.past.attempts
  BY <1>3, <1>8, <1>10, <1>11
<1>18. HeardOut(v, w)
  BY <1>6, <1>12, <1>13, <1>14, <1>15, <1>16, <1>17 DEF HeardOut
<1> QED BY <1>1, <1>18 DEF w

\* Finding no window to close.
LEMMA CloseNothing ==
  ASSUME NEW v \in View, NEW drained, NEW last, ~pttListening(v.machine)
  PROVE  LET w == closePttWindow(v, drained, last)
         IN  /\ w \in View /\ w.machine = v.machine /\ w.stream = v.stream
             /\ w.audio = v.audio /\ w.hud = v.hud /\ w.past = v.past
             /\ w.gate.active = v.gate.active /\ w.gate.whole = v.gate.whole
             /\ w.gate.spent = v.gate.spent /\ ~w.gate.produced
<1> DEFINE d == disarm(v)
           w == [d EXCEPT !.gate.produced = FALSE]
<1>1. closePttWindow(v, drained, last) = w BY DEF closePttWindow
<1>2. /\ d \in View /\ d.machine = v.machine /\ d.stream = v.stream
      /\ d.audio = v.audio /\ d.hud = v.hud /\ d.past = v.past
      /\ d.gate.active = v.gate.active /\ d.gate.whole = v.gate.whole
      /\ d.gate.spent = v.gate.spent
  BY DEF disarm, View, Gate
<1> HIDE DEF d
<1>3. /\ w \in View /\ w.machine = d.machine /\ w.stream = d.stream
      /\ w.audio = d.audio /\ w.hud = d.hud /\ w.past = d.past
      /\ w.gate.active = d.gate.active /\ w.gate.whole = d.gate.whole
      /\ w.gate.spent = d.gate.spent /\ ~w.gate.produced
  BY <1>2, Unproduced
<1> HIDE DEF w
<1> QED BY <1>1, <1>2, <1>3
-----------------------------------------------------------------------------
(* The microphone policy.                                                  *)

\* A healthy stream on the right source.
Healthy(v, m) == v.stream.up /\ ~v.stream.failed /\ v.stream.source = chooseSource(m)

\* The history but for the attempts to connect.
SamePast(v, w) == /\ w.past.heard = v.past.heard /\ w.past.again = v.past.again
                  /\ w.past.opened = v.past.opened /\ w.past.told = v.past.told

\* The supervision: the stream, and the audio that a new one makes stale.
Reconnects(v, s) ==
  /\ s \in View /\ s.machine = v.machine /\ s.gate = v.gate
  /\ s.hud = v.hud /\ SamePast(v, s)
  /\ s.audio.window = v.audio.window /\ s.audio.queue = v.audio.queue
  /\ s.audio.ring = v.audio.ring \/ s.audio.ring = {}
  /\ ~v.gate.active => s.audio.vad = v.audio.vad
  /\ Backed(v) => Backed(s)
  /\ s.stream.up => micShouldBeOpen(v.machine) \/ captureShouldBeHeld(v.machine)
  /\ micShouldBeOpen(v.machine) /\ Healthy(v, v.machine) => s.stream = v.stream

\* A connection attempt, once its time has come, sets the next retry time and
\* empties the ring.
LEMMA StartCaptureDoes ==
  ASSUME NEW v \in View, NEW ok \in BOOLEAN
  PROVE  LET w == startCapture(v, ok)
         IN  /\ w \in View /\ w.machine = v.machine /\ w.gate = v.gate
             /\ w.hud = v.hud /\ SamePast(v, w)
             /\ w.audio.window = v.audio.window /\ w.audio.queue = v.audio.queue
             /\ w.audio.ring = {}
             /\ ~v.gate.active => w.audio.vad = v.audio.vad
             /\ v.stream.retryOk /\ Backed(v) => Backed(w)
<1> DEFINE s == [up |-> ok, source |-> IF ok THEN chooseSource(v.machine) ELSE "desk",
                 failed |-> FALSE, retryOk |-> FALSE, fresh |-> FALSE, stalled |-> FALSE]
           vad == IF v.gate.active THEN {} ELSE v.audio.vad
           w == [v EXCEPT !.stream = s, !.audio.ring = {}, !.audio.vad = vad,
                          !.past.attempts = OneMore(@)]
<1>1. w = startCapture(v, ok) BY DEF startCapture
<1>2. w \in View BY <1>1, StartReconnects DEF OnlyReconnects
<1>3. ~s.retryOk OBVIOUS
<1>4. ~v.gate.active => vad = v.audio.vad OBVIOUS
<1> HIDE DEF s, vad
<1>5. /\ w.machine = v.machine /\ w.gate = v.gate /\ w.hud = v.hud
      /\ w.audio.window = v.audio.window /\ w.audio.queue = v.audio.queue
      /\ w.audio.ring = {} /\ w.audio.vad = vad /\ w.stream = s
  BY DEF View, Audio
<1>6. SamePast(v, w) /\ w.past.attempts = OneMore(v.past.attempts)
  BY DEF SamePast, View, Past
<1>7. v.stream.retryOk /\ Backed(v) => Backed(w)
  <2>1. OneMore(0) = 1 BY DEF OneMore
  <2> HIDE DEF w
  <2> QED BY <1>3, <1>5, <1>6, <2>1 DEF Backed
<1> HIDE DEF w
<1> QED BY <1>1, <1>2, <1>4, <1>5, <1>6, <1>7

\* What the supervision does.
LEMMA SuperviseDoes ==
  ASSUME NEW v \in View, NEW ok \in BOOLEAN
  PROVE  Reconnects(v, superviseStream(v, ok))
<1> DEFINE s == superviseStream(v, ok)
           c == [v EXCEPT !.stream = Closed, !.audio.ring = {}, !.past.attempts = 0]
           a == startCapture(v, ok)
           wanted == micShouldBeOpen(v.machine) \/ captureShouldBeHeld(v.machine)
           need == \/ ~v.stream.up \/ v.stream.failed
                   \/ v.stream.source # chooseSource(v.machine)
<1>1. s = IF wanted THEN IF need /\ v.stream.retryOk THEN a ELSE v
          ELSE IF ~v.stream.up THEN v ELSE c
  BY DEF superviseStream
<1>2. /\ a \in View /\ a.machine = v.machine /\ a.gate = v.gate
      /\ a.hud = v.hud /\ SamePast(v, a)
      /\ a.audio.window = v.audio.window /\ a.audio.queue = v.audio.queue
      /\ a.audio.ring = {}
      /\ ~v.gate.active => a.audio.vad = v.audio.vad
      /\ v.stream.retryOk /\ Backed(v) => Backed(a)
  BY StartCaptureDoes
<1>3. /\ c \in View /\ c.machine = v.machine /\ c.gate = v.gate
      /\ c.hud = v.hud /\ SamePast(v, c) /\ Backed(c)
      /\ c.audio.window = v.audio.window /\ c.audio.queue = v.audio.queue
      /\ c.audio.ring = {} /\ c.audio.vad = v.audio.vad /\ c.stream = Closed
  <2>1. [v.past EXCEPT !.attempts = 0] \in Past BY ForgottenType DEF View
  <2>2. c \in View BY <2>1, ClosedType DEF View, Audio
  <2>3. /\ c.machine = v.machine /\ c.gate = v.gate /\ c.hud = v.hud
        /\ c.audio.window = v.audio.window /\ c.audio.queue = v.audio.queue
        /\ c.audio.ring = {} /\ c.audio.vad = v.audio.vad /\ c.stream = Closed
    BY DEF View, Audio
  <2>4. SamePast(v, c) /\ Backed(c) BY DEF View, Past, SamePast, Backed
  <2> QED BY <2>2, <2>3, <2>4
<1>4. ~Closed.up BY DEF Closed
<1>5. wanted \in BOOLEAN /\ need \in BOOLEAN /\ v.stream.retryOk \in BOOLEAN
  BY DEF View, Stream
<1> HIDE DEF s, c, a
<1>6. ASSUME wanted, need, v.stream.retryOk PROVE Reconnects(v, s)
  <2>1. s = a /\ ~Healthy(v, v.machine) BY <1>1, <1>6 DEF Healthy
  <2> QED BY <1>2, <1>6, <2>1 DEF Reconnects, SamePast
<1>7. ASSUME wanted, ~(need /\ v.stream.retryOk) PROVE Reconnects(v, s)
  <2>1. s = v BY <1>1, <1>7
  <2> QED BY <1>7, <2>1 DEF Reconnects, SamePast
<1>8. ASSUME ~wanted, v.stream.up PROVE Reconnects(v, s)
  <2>1. s = c BY <1>1, <1>8
  <2> QED BY <1>3, <1>4, <1>8, <2>1 DEF Reconnects, SamePast
<1>9. ASSUME ~wanted, ~v.stream.up PROVE Reconnects(v, s)
  <2>1. s = v BY <1>1, <1>9
  <2> QED BY <1>9, <2>1 DEF Reconnects, SamePast
<1> HIDE DEF wanted, need
<1>10. Reconnects(v, s) BY <1>5, <1>6, <1>7, <1>8, <1>9
<1> QED BY <1>10 DEF s

\* The gate opens: a window of what is in the ring, and of what will come.
OpensOver(s, p) ==
  /\ p \in View /\ p.machine = s.machine /\ p.stream = s.stream
  /\ p.gate.active
  /\ p.past.opened = captured /\ p.past.attempts = s.past.attempts
  /\ p.audio.queue = s.audio.queue /\ p.audio.ring = {}
  /\ Replies(s, p) /\ (PanelOwned(s) => PanelOwned(p))
  /\ p.gate.whole = (WholeWindow /\ pttListening(s.machine))
  /\ p.gate.whole =>
       LET kept == Oldest(Retention, s.audio.ring)
       IN  \/ ~p.gate.spent /\ p.audio.window = kept /\ Silent(s, p)
           \/ p.gate.spent /\ p.audio.window = {} /\ Hears(s, p, finish(kept))

\* The gate shuts: no window, no ring.
ShutsOver(s, p) ==
  /\ p \in View /\ p.machine = s.machine /\ p.stream = s.stream
  /\ ~p.gate.active /\ ~p.gate.whole /\ p.past = s.past
  /\ p.audio.queue = s.audio.queue /\ p.audio.ring = {} /\ p.audio.window = {}
  /\ p.gate.produced = s.gate.produced /\ (PanelOwned(s) => PanelOwned(p))

\* What the policy does once the stream is looked after.
Gates(s, p) == LET mic == micShouldBeOpen(s.machine)
               IN  /\ mic /\ ~s.gate.active => OpensOver(s, p)
                   /\ ~mic /\ s.gate.active => ShutsOver(s, p)
                   /\ (mic <=> s.gate.active) => p = s

\* Opening the gate: a fresh window, fed with the ring.
LEMMA OpenDoes ==
  ASSUME NEW s \in View, NEW verdict, captured \in 0 .. MaxChunks, DaemonConstants,
         s.audio.window = {}
  PROVE  OpensOver(s, openCaptureWindow([s EXCEPT !.gate.active = TRUE], verdict))
<1> DEFINE a == [s EXCEPT !.gate.active = TRUE]
           whole == WholeWindow /\ pttListening(a.machine)
           win == IF whole THEN {} ELSE a.audio.window
           o == [a EXCEPT !.gate.whole = whole, !.gate.spent = FALSE,
                          !.audio.vad = {}, !.audio.ring = {},
                          !.audio.window = win,
                          !.past.opened = captured]
           p == openCaptureWindow(a, verdict)
<1>1. /\ a \in View /\ a.machine = s.machine /\ a.audio = s.audio
      /\ a.stream = s.stream /\ a.hud = s.hud /\ a.past = s.past
      /\ a.gate.active /\ a.gate.produced = s.gate.produced
  BY DEF View, Gate
<1>2. p = IF a.audio.ring = {} THEN o ELSE Feed(o, a.audio.ring, verdict)
  BY DEF openCaptureWindow
<1>3. whole \in BOOLEAN /\ whole = (WholeWindow /\ pttListening(s.machine))
  BY <1>1 DEF DaemonConstants, pttListening
<1>4. s.audio.ring \in SUBSET Chunk BY DEF View, Audio
<1> HIDE DEF a, whole, p
<1>5. /\ o \in View /\ o.machine = s.machine /\ o.stream = s.stream /\ o.hud = s.hud
      /\ o.gate.active /\ o.gate.produced = s.gate.produced
      /\ o.gate.whole = whole /\ ~o.gate.spent
      /\ o.audio.window = {} /\ o.audio.ring = {} /\ o.audio.queue = s.audio.queue
      /\ o.past.opened = captured /\ o.past.told = s.past.told
      /\ o.past.attempts = s.past.attempts
      /\ o.past.heard = s.past.heard /\ o.past.again = s.past.again
  <2>1. win = {} BY <1>1
  <2>2. o \in View
    <3>1. win \in SUBSET Chunk BY <2>1
    <3> HIDE DEF win
    <3>2. a \in View /\ whole \in BOOLEAN BY <1>1, <1>3
    <3> QED BY ONLY <3>1, <3>2, captured \in 0 .. MaxChunks DEF View, Gate, Audio, Past
  <2> HIDE DEF win
  <2>3. /\ o.machine = a.machine /\ o.stream = a.stream /\ o.hud = a.hud
        /\ o.gate.active = a.gate.active /\ o.gate.produced = a.gate.produced
        /\ o.gate.whole = whole /\ ~o.gate.spent
    BY <1>1, <1>3 DEF View, Gate
  <2>4. /\ o.audio.window = {} /\ o.audio.ring = {} /\ o.audio.queue = a.audio.queue
        /\ o.past.opened = captured /\ o.past.told = a.past.told
        /\ o.past.attempts = a.past.attempts
        /\ o.past.heard = a.past.heard /\ o.past.again = a.past.again
    BY <1>1, <2>1 DEF View, Audio, Past
  <2> HIDE DEF o
  <2> QED BY <1>1, <2>2, <2>3, <2>4
<1> HIDE DEF o, win
<1>6. ASSUME p = o, s.audio.ring = {} PROVE OpensOver(s, p)
  <2>1. PanelOwned(s) => PanelOwned(p) BY <1>5, <1>6 DEF PanelOwned
  <2>2. Replies(s, p) /\ Silent(s, p) BY <1>5, <1>6 DEF Replies, Silent
  <2>3. Oldest(Retention, s.audio.ring) = {} BY <1>6 DEF Oldest
  <2> QED BY <1>3, <1>5, <1>6, <2>1, <2>2, <2>3 DEF OpensOver
<1>7. ASSUME p = Feed(o, s.audio.ring, verdict) PROVE OpensOver(s, p)
  <2>1. WindowEmptied(o) BY <1>5 DEF WindowEmptied
  <2>2. /\ Works(o, p) /\ p.gate.whole = o.gate.whole /\ KeepsTheRest(o, p)
        /\ o.gate.whole => Absorbs(o, p, s.audio.ring)
    BY <1>4, <1>5, <1>7, <2>1, FeedWorks
  <2>3. Replies(s, p) /\ (PanelOwned(s) => PanelOwned(p))
    BY <1>5, <2>2 DEF Works, Replies, PanelOwned
  <2>4. /\ p \in View /\ p.machine = s.machine /\ p.stream = s.stream
        /\ p.gate.active
        /\ p.past.opened = captured /\ p.past.attempts = s.past.attempts
        /\ p.audio.queue = s.audio.queue /\ p.audio.ring = {}
        /\ p.gate.whole = whole
    BY <1>5, <2>2 DEF Works, KeepsTheRest
  <2>5. {} \cup s.audio.ring = s.audio.ring OBVIOUS
  <2>6. p.gate.whole =>
         LET kept == Oldest(Retention, s.audio.ring)
         IN  \/ ~p.gate.spent /\ p.audio.window = kept /\ Silent(s, p)
             \/ p.gate.spent /\ p.audio.window = {} /\ Hears(s, p, finish(kept))
    BY <1>5, <2>2, <2>5 DEF Absorbs, Silent, Hears
  <2> QED BY <1>3, <2>3, <2>4, <2>6 DEF OpensOver
<1>8. OpensOver(s, p) BY <1>1, <1>2, <1>6, <1>7
<1> QED BY <1>8 DEF p, a

\* Shutting the gate: the window and the ring are emptied.
LEMMA ShutDoes ==
  ASSUME NEW s \in View, WindowEmptied(s), ~s.gate.whole
  PROVE  ShutsOver(s, updateListeningHud(
           [s EXCEPT !.gate.active = FALSE, !.gate.whole = FALSE,
                     !.gate.spent = IF s.gate.whole THEN FALSE ELSE @,
                     !.audio.window = IF s.gate.whole THEN {} ELSE @,
                     !.audio.ring = {}]))
<1> DEFINE spent == IF s.gate.whole THEN FALSE ELSE s.gate.spent
           win == IF s.gate.whole THEN {} ELSE s.audio.window
           c == [s EXCEPT !.gate.active = FALSE, !.gate.whole = FALSE,
                          !.gate.spent = spent, !.audio.window = win,
                          !.audio.ring = {}]
           p == updateListeningHud(c)
<1>1. spent \in BOOLEAN BY DEF View, Gate
<1>2. win = {} BY DEF WindowEmptied
<1> HIDE DEF spent, win
<1>3. c \in View BY <1>1, <1>2 DEF View, Gate, Audio
<1>4. /\ c.machine = s.machine /\ c.stream = s.stream /\ c.hud = s.hud /\ c.past = s.past
      /\ ~c.gate.active /\ ~c.gate.whole /\ c.gate.produced = s.gate.produced
      /\ c.audio.queue = s.audio.queue /\ c.audio.ring = {} /\ c.audio.window = {}
  BY <1>2 DEF View, Gate, Audio
<1> HIDE DEF c
<1>5. Says(c, p) /\ p.past = c.past /\ p.gate = c.gate BY <1>3, HudSays
<1> HIDE DEF p
<1>6. PanelOwned(s) => PanelOwned(p) BY <1>4, <1>5 DEF Says, Works, PanelOwned
<1>7. ShutsOver(s, p) BY <1>4, <1>5, <1>6 DEF Says, Works, ShutsOver
<1> QED BY <1>7 DEF p, c, spent, win

\* What the policy does: the stream, then the gate.
LEMMA PolicyDoes ==
  ASSUME NEW v, NEW ok \in BOOLEAN, NEW verdict,
         captured \in 0 .. MaxChunks, DaemonConstants, Mid(v)
  PROVE  \E s : Reconnects(v, s) /\ Gates(s, applyMicPolicy(v, ok, verdict))
<1> DEFINE s == superviseStream(v, ok)
           mic == micShouldBeOpen(v.machine)
           opened == openCaptureWindow([s EXCEPT !.gate.active = TRUE], verdict)
           shut == updateListeningHud(
                     [s EXCEPT !.gate.active = FALSE, !.gate.whole = FALSE,
                               !.gate.spent = IF s.gate.whole THEN FALSE ELSE @,
                               !.audio.window = IF s.gate.whole THEN {} ELSE @,
                               !.audio.ring = {}])
           p == applyMicPolicy(v, ok, verdict)
<1>1. v \in View BY DEF Mid
<1>2. Reconnects(v, s) BY <1>1, SuperviseDoes
<1>3. p = IF mic /\ ~v.gate.active THEN opened
          ELSE IF ~mic /\ v.gate.active THEN shut ELSE s
  BY DEF applyMicPolicy
<1> HIDE DEF s, opened, shut, p
<1>4. /\ s \in View /\ s.machine = v.machine /\ s.gate = v.gate
      /\ s.audio.window = v.audio.window
  BY <1>2 DEF Reconnects
<1>5. mic /\ ~s.gate.active => OpensOver(s, p)
  <2> SUFFICES ASSUME mic, ~s.gate.active PROVE OpensOver(s, p) OBVIOUS
  <2>1. s.audio.window = {} BY <1>4 DEF Mid, WindowEmptied
  <2>2. OpensOver(s, opened) BY <1>4, <2>1, OpenDoes DEF opened
  <2> QED BY <1>3, <1>4, <2>2
<1>6. ~mic /\ s.gate.active => ShutsOver(s, p)
  <2> SUFFICES ASSUME ~mic, s.gate.active PROVE ShutsOver(s, p) OBVIOUS
  <2>1. ~s.gate.whole BY <1>4, PttOpensMic DEF Mid
  <2>2. WindowEmptied(s) BY <1>4 DEF Mid, WindowEmptied
  <2>3. ShutsOver(s, shut) BY <1>4, <2>1, <2>2, ShutDoes DEF shut
  <2> QED BY <1>3, <1>4, <2>3
<1>7. (mic <=> s.gate.active) => p = s
  <2>1. v.gate.active \in BOOLEAN /\ mic \in BOOLEAN
    BY <1>1 DEF View, Gate, micShouldBeOpen
  <2> QED BY <1>3, <1>4, <2>1
<1>8. Gates(s, p) BY <1>4, <1>5, <1>6, <1>7 DEF Gates
<1>9. Reconnects(v, s) /\ Gates(s, applyMicPolicy(v, ok, verdict)) BY <1>2, <1>8 DEF p
<1> QED BY <1>9, Zenon

\* What a whole policy may and may not do.
Polices(v, p) ==
  /\ p \in View /\ p.machine = v.machine
  /\ p.past.told >= v.past.told
  /\ pttListening(v.machine) \/ p.past.told = v.past.told
  /\ v.gate.active => p.past.heard = v.past.heard
  /\ ~v.gate.active /\ ~p.gate.active =>
       p.past.heard = v.past.heard /\ p.audio.vad = v.audio.vad
  /\ p.gate.active /\ Healthy(v, v.machine) => p.stream = v.stream
  /\ Wanted(p)
  /\ Carried(v) => Carried(p)

\* The microphone policy leaves the microphone, the gate and the buffers in agreement.
LEMMA PolicyPolices ==
  ASSUME NEW v, NEW ok \in BOOLEAN, NEW verdict,
         captured \in 0 .. MaxChunks, DaemonConstants, Mid(v)
  PROVE  Polices(v, applyMicPolicy(v, ok, verdict))
<1> DEFINE p == applyMicPolicy(v, ok, verdict)
           mic == micShouldBeOpen(v.machine)
<1>1. PICK s : Reconnects(v, s) /\ Gates(s, p) BY PolicyDoes
<1>2. Ctl(p) BY PolicyIsCtl
<1>3. v \in View /\ p \in View BY <1>2 DEF Ctl, Mid
<1> HIDE DEF p
<1>4. /\ s \in View /\ s.machine = v.machine /\ s.gate = v.gate
      /\ s.hud = v.hud /\ SamePast(v, s) /\ (Backed(v) => Backed(s))
      /\ s.audio.window = v.audio.window /\ s.audio.queue = v.audio.queue
      /\ s.audio.ring = v.audio.ring \/ s.audio.ring = {}
      /\ ~v.gate.active => s.audio.vad = v.audio.vad
      /\ s.stream.up => mic \/ captureShouldBeHeld(v.machine)
      /\ mic /\ Healthy(v, v.machine) => s.stream = v.stream
  BY <1>1 DEF Reconnects
<1> USE DEF SamePast
<1>5. mic \in BOOLEAN /\ v.gate.active \in BOOLEAN
  BY <1>3 DEF View, Gate, micShouldBeOpen
<1>6. /\ mic /\ ~v.gate.active => OpensOver(s, p)
      /\ ~mic /\ v.gate.active => ShutsOver(s, p)
      /\ (mic <=> v.gate.active) => p = s
  BY <1>1, <1>4 DEF Gates
<1>7. p.machine = v.machine /\ p.stream = s.stream
  BY <1>4, <1>5, <1>6 DEF OpensOver, ShutsOver
<1>8. p.gate.active = mic BY <1>2, <1>7 DEF Ctl
<1>9. Replies(v, p)
  BY <1>4, <1>5, <1>6 DEF OpensOver, ShutsOver, Replies
<1>10. /\ p.past.told >= v.past.told
       /\ pttListening(v.machine) \/ p.past.told = v.past.told
       /\ Accounted(v) => Accounted(p)
  BY <1>3, <1>7, <1>9, RepliesCount
<1>11. v.gate.active => p.past.heard = v.past.heard
  BY <1>4, <1>5, <1>6 DEF ShutsOver
<1>12. ~v.gate.active /\ ~p.gate.active =>
         p.past.heard = v.past.heard /\ p.audio.vad = v.audio.vad
  BY <1>4, <1>6, <1>8
<1>13. p.past.attempts = s.past.attempts
  BY <1>4, <1>5, <1>6 DEF OpensOver, ShutsOver
<1>14. p.gate.active /\ Healthy(v, v.machine) => p.stream = v.stream BY <1>4, <1>7, <1>8
<1>15. Wanted(p) BY <1>4, <1>7, <1>8 DEF Wanted
<1>16. ASSUME Carried(v) PROVE Carried(p)
  <2>1. PanelOwned(p)
    <3>1. PanelOwned(s) BY <1>4, <1>16 DEF Carried, PanelOwned
    <3> QED BY <1>4, <1>5, <1>6, <3>1 DEF OpensOver, ShutsOver
  <2>2. Accounted(p) /\ OnlyPtt(p.machine) /\ Backed(p)
    BY <1>4, <1>7, <1>10, <1>13, <1>16 DEF Carried, Backed
  <2>3. Recent(p) /\ RingShut(p)
    <3>1. Recent(s) /\ RingShut(s)
      BY <1>4, <1>16, RingEmptied DEF Carried, Recent, RingShut
    <3>2. p.audio.queue = v.audio.queue BY <1>4, <1>5, <1>6 DEF OpensOver, ShutsOver
    <3>3. p = s \/ p.audio.ring = {} BY <1>4, <1>5, <1>6 DEF OpensOver, ShutsOver
    <3>4. CASE p = s BY <3>1, <3>4
    <3>5. CASE p.audio.ring = {}
      BY <1>4, <3>1, <3>2, <3>5, RingEmptied DEF RingShut
    <3> QED BY <3>3, <3>4, <3>5
  <2>4. Complete(p)
    <3>1. CASE mic /\ ~v.gate.active
      <4> SUFFICES ASSUME p.gate.whole, ~p.gate.spent PROVE Complete(p) BY DEF Complete
      <4>1. /\ p.past.opened = captured /\ p.audio.queue = s.audio.queue
            /\ p.audio.window = Oldest(Retention, s.audio.ring)
        BY <1>6, <3>1 DEF OpensOver
      <4>2. Recent(s) BY <1>4, <1>16, RingEmptied DEF Carried, Recent
      <4>3. PICK a \in Nat, b \in Nat : /\ 1 <= a /\ a <= b + 1 /\ b <= captured
                                      /\ s.audio.ring = a .. b
                                      /\ s.audio.queue = b + 1 .. captured
        BY <4>2 DEF Recent
      <4>4. b <= MaxChunks /\ a <= captured + 1 BY <4>3 DEF DaemonConstants
      <4>5. p.audio.window = {c \in a .. b : c < a + Retention}
        BY <4>1, <4>3, <4>4, KeptOfRun
      <4> QED BY <4>1, <4>3, <4>4, <4>5 DEF Complete
    <3>2. CASE ~mic /\ v.gate.active
      BY <1>6, <3>2 DEF ShutsOver, Complete
    <3>3. CASE mic <=> v.gate.active
      BY <1>4, <1>6, <1>16, <3>3 DEF Carried, Complete
    <3> QED BY <1>5, <3>1, <3>2, <3>3
  <2> QED BY <2>1, <2>2, <2>3, <2>4 DEF Carried
<1>17. Polices(v, p)
  BY <1>3, <1>7, <1>10, <1>11, <1>12, <1>14, <1>15, <1>16 DEF Polices
<1> QED BY <1>17 DEF p

\* With mode = ptt, at a reload too, every open window is a whole one.
WholeOnly(v) == /\ Modes = {"ptt"} /\ v.machine.mode = "ptt"
                /\ pttListening(v.machine) /\ v.gate.active => v.gate.whole

Apart(A, B) == \A c \in A : c \notin B

\* A chunk is in one place: behind the ASR, in the window, or in what precedes it.
Once(v) == /\ v.past.again = {}
           /\ Apart(v.past.heard, v.audio.window)
           /\ Apart(v.past.heard, v.audio.queue)
           /\ Apart(v.past.heard, v.audio.ring)
           /\ Apart(v.audio.window, v.audio.queue)
           /\ Apart(v.audio.window, v.audio.ring)
           /\ Apart(v.audio.ring, v.audio.queue)
           /\ \A c \in v.past.heard \cup v.audio.window : c <= captured
           /\ \A c \in v.audio.ring \cup v.audio.queue : c <= captured

\* A window answers at most once, and has not answered before it opens.
SaidOnce(v) == /\ OneAnswer
               /\ v.past.told <= 1
               /\ pttListening(v.machine) =>
                    AnsweredOnce(v) /\ (~v.gate.active => ~v.gate.produced)

\* With mode = ptt the gate is open for push-to-talk windows only.
LEMMA PttModeGates ==
  ASSUME NEW m \in Machine, m.mode = "ptt", Settled(m), OnlyPtt(m)
  PROVE  micShouldBeOpen(m) => pttListening(m)
BY DEF Settled, OnlyPtt, micShouldBeOpen, pttListening, baseGate, Base, Machine

\* Hearing chunks for the first time repeats none.
LEMMA HeardForOnce ==
  ASSUME NEW v, NEW w, NEW ids, Hears(v, w, ids), Apart(v.past.heard, ids),
         v.past.again = {}
  PROVE  w.past.again = {} /\ w.past.heard \subseteq v.past.heard \cup ids
<1>1. v.past.heard \cap ids = {} BY DEF Apart
<1> QED BY <1>1 DEF Hears

\* The policy keeps chunks apart and answers single.
LEMMA PolicyOnce ==
  ASSUME NEW v, NEW ok \in BOOLEAN, NEW verdict,
         captured \in 0 .. MaxChunks, DaemonConstants, Mid(v),
         WholeWindow, WholeOnly(v), OnlyPtt(v.machine)
  PROVE  LET p == applyMicPolicy(v, ok, verdict)
         IN  /\ WholeOnly(p)
             /\ Once(v) => Once(p)
             /\ SaidOnce(v) => SaidOnce(p)
<1> DEFINE p == applyMicPolicy(v, ok, verdict)
           mic == micShouldBeOpen(v.machine)
<1>1. PICK s : Reconnects(v, s) /\ Gates(s, p) BY PolicyDoes
<1>2. Ctl(p) BY PolicyIsCtl
<1>3. v \in View /\ p \in View BY <1>2 DEF Ctl, Mid
<1> HIDE DEF p
<1>4. /\ s \in View /\ s.machine = v.machine /\ s.gate = v.gate /\ SamePast(v, s)
      /\ s.audio.window = v.audio.window /\ s.audio.queue = v.audio.queue
      /\ s.audio.ring = v.audio.ring \/ s.audio.ring = {}
  BY <1>1 DEF Reconnects
<1>5. mic \in BOOLEAN /\ v.gate.active \in BOOLEAN
  BY <1>3 DEF View, Gate, micShouldBeOpen
<1>6. /\ mic /\ ~v.gate.active => OpensOver(s, p)
      /\ ~mic /\ v.gate.active => ShutsOver(s, p)
      /\ (mic <=> v.gate.active) => p = s
  BY <1>1, <1>4 DEF Gates
<1>7. p.machine = v.machine BY <1>4, <1>5, <1>6 DEF OpensOver, ShutsOver
<1>8. mic => pttListening(v.machine)
  BY <1>3, PttModeGates DEF Mid, WholeOnly, View
<1>9. WholeOnly(p)
  BY <1>4, <1>5, <1>6, <1>7, <1>8 DEF WholeOnly, OpensOver, ShutsOver
<1>10. mic /\ ~v.gate.active => p.gate.whole BY <1>4, <1>6, <1>8 DEF OpensOver
<1>11. ASSUME Once(v) PROVE Once(p)
  <2>1. Once(s) BY <1>4, <1>11 DEF Once, Apart, SamePast
  <2>2. ASSUME mic, ~v.gate.active PROVE Once(p)
    <3> DEFINE kept == Oldest(Retention, s.audio.ring)
    <3>1. p.audio.queue = s.audio.queue /\ p.audio.ring = {} BY <1>6, <2>2 DEF OpensOver
    <3>2. kept \subseteq s.audio.ring /\ finish(kept) \subseteq s.audio.ring
      <4>1. s.audio.ring \in SUBSET Chunk BY <1>4 DEF View, Audio
      <4>2. kept \in SUBSET s.audio.ring BY <4>1, OldestType
      <4> HIDE DEF kept
      <4>3. finish(kept) \in SUBSET kept BY <4>1, <4>2, FinishType
      <4> QED BY <4>2, <4>3
    <3> HIDE DEF kept
    <3>3. CASE p.audio.window = kept /\ Silent(s, p)
      BY <2>1, <3>1, <3>2, <3>3 DEF Once, Apart, Silent
    <3>4. CASE p.audio.window = {} /\ Hears(s, p, finish(kept))
      <4>1. Apart(s.past.heard, finish(kept)) BY <2>1, <3>2 DEF Once, Apart
      <4>2. p.past.again = {} /\ p.past.heard \subseteq s.past.heard \cup finish(kept)
        BY <2>1, <3>4, <4>1, HeardForOnce DEF Once
      <4> QED BY <2>1, <3>1, <3>2, <3>4, <4>2 DEF Once, Apart
    <3> QED BY <1>6, <1>10, <2>2, <3>3, <3>4 DEF OpensOver, kept
  <2>3. ASSUME ~mic, v.gate.active PROVE Once(p)
    BY <1>6, <2>1, <2>3 DEF ShutsOver, Once, Apart
  <2> QED BY <1>5, <1>6, <2>1, <2>2, <2>3
<1>12. ASSUME SaidOnce(v) PROVE SaidOnce(p)
  <2>1. SaidOnce(s) BY <1>4, <1>12 DEF SaidOnce, AnsweredOnce, SamePast
  <2>2. ASSUME mic, ~v.gate.active PROVE SaidOnce(p)
    <3>1. v.gate.produced \in BOOLEAN /\ p.gate.produced \in BOOLEAN
      BY <1>3 DEF View, Gate
    <3>2. s.past.told = 0 /\ ~s.gate.produced
      BY <1>4, <1>8, <1>12, <2>2, <3>1 DEF SaidOnce, AnsweredOnce, SamePast
    <3>3. p.past.told = IF p.gate.produced THEN 1 ELSE 0
      BY <1>4, <1>6, <1>8, <2>2, <3>1, <3>2, RepliesOnce DEF OpensOver
    <3>4. ~p.gate.spent => ~p.gate.produced
      BY <1>6, <1>10, <2>2, <3>2 DEF OpensOver, Silent
    <3>5. p.gate.active BY <1>6, <2>2 DEF OpensOver
    <3> QED BY <1>12, <3>1, <3>3, <3>4, <3>5 DEF SaidOnce, AnsweredOnce
  <2>3. ASSUME ~mic, v.gate.active PROVE SaidOnce(p)
    BY <1>4, <1>6, <1>7, <2>1, <2>3, PttOpensMic DEF ShutsOver, SaidOnce
  <2> QED BY <1>5, <1>6, <2>1, <2>2, <2>3
<1> QED BY <1>9, <1>11, <1>12 DEF p
-----------------------------------------------------------------------------
(* What a step may never do.                                               *)

Deaf(v, w) == ~v.gate.active /\ ~w.gate.active =>
                w.past.heard = v.past.heard /\ w.audio.vad \subseteq v.audio.vad

HeardWhole(v, w) == v.gate.whole /\ w.past.heard # v.past.heard =>
                      ~v.gate.spent /\ w.past.heard = v.past.heard \cup Due(v)

\* Answers are counted while a window is open, and a window that closes has one.
Answers(v, w) ==
  LET before == pttListening(v.machine)
      after  == pttListening(w.machine)
  IN  /\ ~before /\ ~after => w.past.told = v.past.told
      /\ before => w.past.told >= v.past.told
      /\ before /\ ~after => w.past.told >= 1

Spares(v, w) == v.gate.active /\ w.gate.active /\ Healthy(v, w.machine) =>
                  w.stream.up /\ (v.stream.retryOk => w.stream.retryOk)

Steps(v, w) == /\ Deaf(v, w) /\ HeardWhole(v, w) /\ Answers(v, w)
               /\ Spares(v, w)

\* What the calls before the policy may have done.
Leads(v, c) == /\ c.stream = v.stream /\ c.gate.active = v.gate.active
               /\ ~v.gate.active => c.past.heard = v.past.heard
                                    /\ c.audio.vad \subseteq v.audio.vad
               /\ HeardWhole(v, c) /\ Answers(v, c)

\* What the calls after the policy may do: the panel, and the watchdog behind a
\* shut gate.
Watches(p, w) ==
  /\ w \in View /\ w.machine = p.machine /\ w.gate = p.gate /\ SamePast(p, w)
  /\ w.audio.window = p.audio.window /\ w.audio.queue = p.audio.queue
  /\ w.audio.ring = p.audio.ring \/ w.audio.ring = {}
  /\ ~p.gate.active => w.audio.vad = p.audio.vad
  /\ PanelOwned(p) => PanelOwned(w)
  /\ Backed(p) => Backed(w)
  /\ p.gate.active => /\ w.stream.up = p.stream.up
                      /\ p.stream.retryOk => w.stream.retryOk
  /\ w.stream.up => p.stream.up

\* A handler that leads, polices and watches does nothing it may never do.
LEMMA HandlerSteps ==
  ASSUME NEW v, NEW c, NEW p, NEW w, v \in View, c \in View, Leads(v, c),
         Polices(c, p), Watches(p, w), v.gate.whole => v.gate.active
  PROVE  Steps(v, w)
<1> USE DEF SamePast
<1>1. p \in View /\ w \in View BY DEF Polices, Watches
<1>2. Deaf(v, w) BY DEF Deaf, Leads, Polices, Watches
<1>3. HeardWhole(v, w) BY DEF HeardWhole, Leads, Polices, Watches
<1>4. Answers(v, w)
  <2>1. /\ v.past.told \in 0 .. 2 /\ c.past.told \in 0 .. 2
        /\ p.past.told \in 0 .. 2 /\ w.past.told = p.past.told
    BY <1>1 DEF View, Past, Watches
  <2>2. w.machine = c.machine /\ p.past.told >= c.past.told
    BY DEF Polices, Watches
  <2>3. pttListening(c.machine) \/ p.past.told = c.past.told BY DEF Polices
  <2>4. Answers(v, c) BY DEF Leads
  <2> QED BY <2>1, <2>2, <2>3, <2>4 DEF Answers
<1>5. c.stream = v.stream /\ c.gate.active = v.gate.active BY DEF Leads
<1>6. Spares(v, w)
  <2> SUFFICES ASSUME v.gate.active, w.gate.active, Healthy(v, w.machine)
               PROVE  w.stream.up /\ (v.stream.retryOk => w.stream.retryOk)
    BY DEF Spares
  <2>1. p.gate.active /\ w.machine = c.machine BY DEF Polices, Watches
  <2>2. Healthy(c, c.machine) BY <1>5, <2>1 DEF Healthy
  <2>3. p.stream = v.stream BY <1>5, <2>1, <2>2 DEF Polices
  <2>4. v.stream.up BY DEF Healthy
  <2> QED BY <2>1, <2>3, <2>4 DEF Watches
<1> QED BY <1>2, <1>3, <1>4, <1>6 DEF Steps

\* Nor does it leave anything undone.
LEMMA HandlerKeeps ==
  ASSUME NEW c, NEW p, NEW w, Carried(c), Polices(c, p), Watches(p, w), DaemonConstants,
         captured \in Nat
  PROVE  Kept(w)
<1>1. Carried(p) /\ Wanted(p) BY DEF Polices
<1>2. PanelOwned(w) BY <1>1 DEF Watches, Carried
<1>3. Accounted(w) /\ OnlyPtt(w.machine) /\ Complete(w) /\ Backed(w)
  BY <1>1 DEF Watches, SamePast, Carried, Accounted, Complete
<1>4. Recent(w) /\ RingShut(w)
  BY <1>1, RingEmptied DEF Watches, Carried, Recent, RingShut
<1>5. Wanted(w) BY <1>1 DEF Watches, Wanted
<1> QED BY <1>2, <1>3, <1>4, <1>5 DEF Kept, Carried

\* Chunks stay apart and answers single through the panel and the watchdog.
LEMMA WatchOnce ==
  ASSUME NEW p, NEW w, Watches(p, w), WholeOnly(p)
  PROVE  /\ WholeOnly(w)
         /\ Once(p) => Once(w)
         /\ SaidOnce(p) => SaidOnce(w)
BY DEF Watches, SamePast, WholeOnly, Once, Apart, SaidOnce, AnsweredOnce

\* Doing nothing after the policy, or only raising or dropping the panel.
LEMMA HudWatches ==
  ASSUME NEW p \in View
  PROVE  Watches(p, p) /\ Watches(p, updateListeningHud(p))
<1>1. Watches(p, p) BY DEF Watches, SamePast
<1> DEFINE u == updateListeningHud(p)
<1>2. Says(p, u) /\ u.past = p.past /\ u.gate = p.gate BY HudSays
<1> HIDE DEF u
<1>3. Watches(p, u) BY <1>2 DEF Says, Works, Watches, SamePast, Backed
<1> QED BY <1>1, <1>3 DEF u

\* The panel and then the watchdog.
LEMMA TickWatches ==
  ASSUME NEW p \in View, NEW ok \in BOOLEAN
  PROVE  Watches(p, watchFrames(updateListeningHud(p), ok))
<1> DEFINE u == updateListeningHud(p)
           f == [u EXCEPT !.stream.fresh = FALSE, !.stream.stalled = FALSE,
                          !.stream.retryOk = TRUE, !.past.attempts = 0]
           a == startCapture(u, ok)
           w == watchFrames(u, ok)
<1>1. Watches(p, u) /\ u.stream = p.stream /\ u.audio = p.audio
  BY HudWatches, HudSays DEF Says, Works
<1>2. w = IF ~u.stream.up THEN u
          ELSE IF u.stream.fresh THEN f
          ELSE IF ~u.gate.active /\ u.stream.stalled /\ u.stream.retryOk THEN a ELSE u
  BY DEF watchFrames
<1> HIDE DEF u, w
<1>3. u \in View /\ u.gate = p.gate BY <1>1 DEF Watches
<1>4. /\ f \in View /\ f.machine = u.machine /\ f.gate = u.gate /\ SamePast(u, f)
      /\ f.audio = u.audio /\ f.hud = u.hud /\ f.stream.up = u.stream.up
      /\ f.stream.retryOk /\ Backed(f)
  <2>1. [u.past EXCEPT !.attempts = 0] \in Past BY <1>3, ForgottenType DEF View
  <2>2. f \in View BY <1>3, <2>1 DEF View, Stream
  <2>3. /\ f.machine = u.machine /\ f.gate = u.gate /\ f.audio = u.audio
        /\ f.hud = u.hud /\ f.stream.up = u.stream.up /\ f.stream.retryOk
    BY <1>3 DEF View, Stream
  <2>4. SamePast(u, f) /\ Backed(f) BY <1>3 DEF View, Past, SamePast, Backed
  <2> QED BY <2>2, <2>3, <2>4
<1>5. /\ a \in View /\ a.machine = u.machine /\ a.gate = u.gate
      /\ a.hud = u.hud /\ SamePast(u, a)
      /\ a.audio.window = u.audio.window /\ a.audio.queue = u.audio.queue
      /\ a.audio.ring = {}
      /\ ~u.gate.active => a.audio.vad = u.audio.vad
      /\ u.stream.retryOk /\ Backed(u) => Backed(a)
  BY <1>3, StartCaptureDoes
<1> HIDE DEF f, a
<1>6. CASE w = u BY <1>1, <1>6 DEF u, w
<1>7. CASE w = f /\ u.stream.up /\ u.stream.fresh
  <2>1. Watches(p, w) BY <1>1, <1>3, <1>4, <1>7 DEF Watches, PanelOwned, SamePast
  <2> QED BY <2>1 DEF w, u
<1>8. CASE /\ w = a /\ u.stream.up /\ ~u.stream.fresh
           /\ ~u.gate.active /\ u.stream.stalled /\ u.stream.retryOk
  <2>1. Watches(p, w) BY <1>1, <1>3, <1>5, <1>8 DEF Watches, PanelOwned, SamePast
  <2> QED BY <2>1 DEF w, u
<1> QED BY <1>2, <1>6, <1>7, <1>8
-----------------------------------------------------------------------------
(* The handlers.                                                           *)

\* What the calls before the policy must leave behind for it.
Ready(v, c) == /\ Mid(c) /\ Carried(c) /\ Leads(v, c)
               /\ WholeOnly(v) => WholeOnly(c)
               /\ WholeOnly(v) /\ Once(v) => Once(c)
               /\ WholeOnly(v) /\ SaidOnce(v) => SaidOnce(c)

\* What a handler must achieve from one quiet state to the next.
Handled(v, w) == /\ Kept(w) /\ Steps(v, w)
                 /\ WholeWindow /\ WholeOnly(v) /\ Once(v) => WholeOnly(w) /\ Once(w)
                 /\ WholeWindow /\ WholeOnly(v) /\ SaidOnce(v) => WholeOnly(w) /\ SaidOnce(w)

\* Calls, policy, watchdog: the shape of every handler but the drain.
LEMMA HandlerHandles ==
  ASSUME NEW v, NEW c, NEW ok \in BOOLEAN, NEW verdict, NEW w,
         captured \in 0 .. MaxChunks, DaemonConstants,
         Mid(v), Ready(v, c), Watches(applyMicPolicy(c, ok, verdict), w)
  PROVE  Handled(v, w)
<1> DEFINE p == applyMicPolicy(c, ok, verdict)
<1>1. Mid(c) /\ Carried(c) /\ Leads(v, c) BY DEF Ready
<1>2. v \in View /\ c \in View /\ (v.gate.whole => v.gate.active) BY <1>1 DEF Mid
<1>3. Polices(c, p) BY <1>1, PolicyPolices
<1>4. WholeWindow /\ WholeOnly(c) => /\ WholeOnly(p)
                                     /\ Once(c) => Once(p)
                                     /\ SaidOnce(c) => SaidOnce(p)
  BY <1>1, PolicyOnce DEF Carried
<1>5. Watches(p, w) OBVIOUS
<1> HIDE DEF p
<1>6. Kept(w) BY <1>1, <1>3, <1>5, HandlerKeeps
<1>7. Steps(v, w) BY <1>1, <1>2, <1>3, <1>5, HandlerSteps
<1>8. WholeOnly(p) => WholeOnly(w) /\ (Once(p) => Once(w)) /\ (SaidOnce(p) => SaidOnce(w))
  BY <1>5, WatchOnce
<1> QED BY <1>4, <1>6, <1>7, <1>8 DEF Handled, Ready

\* The event that closes a window leaves no utterance in flight.
LEMMA StopLeavesBase ==
  ASSUME NEW m \in Machine, pttListening(m)
  PROVE  LET n == onTranscribeDone(onPttStop(m))
         IN  n.mode = m.mode /\ OnlyPtt(n)
<1> DEFINE p == onPttStop(m)
           n == onTranscribeDone(p)
<1>1. p \in Machine /\ p.state = "TRANSCRIBING" /\ p.mode = m.mode
  BY DEF onPttStop, pttListening, Machine, EState
<1> HIDE DEF p
<1>2. n = recomputeBase(p) BY <1>1 DEF onTranscribeDone
<1>3. n.mode = p.mode /\ n.state \in Base
  BY <1>1, <1>2, GateIsBase DEF recomputeBase, Machine
<1> HIDE DEF n
<1>4. n.mode = m.mode /\ OnlyPtt(n) BY <1>1, <1>3 DEF OnlyPtt, Base
<1> QED BY <1>4 DEF n, p

\* What the ASR is to be given is in the window or on its way there.
LEMMA DueIsHeld ==
  ASSUME NEW v \in View
  PROVE  Due(v) \subseteq v.audio.window \cup v.audio.queue
<1> DEFINE all == v.audio.window \cup v.audio.queue
           kept == Oldest(Retention, all)
<1>1. all \in SUBSET Chunk BY DEF View, Audio
<1> HIDE DEF all
<1>2. kept \in SUBSET all BY <1>1, OldestType
<1> HIDE DEF kept
<1>3. finish(kept) \in SUBSET kept BY <1>1, <1>2, FinishType
<1> QED BY <1>2, <1>3 DEF Due, kept, all

\* Closing a window, or finding none to close, readies the policy.
LEMMA CloseReadies ==
  ASSUME NEW v, NEW drained, NEW last, Mid(v), Carried(v), DaemonConstants,
         captured \in 0 .. MaxChunks,
         pttListening(v.machine) => v.gate.active
  PROVE  Ready(v, closePttWindow(v, drained, last))
<1> DEFINE w == closePttWindow(v, drained, last)
<1>1. Mid(w) BY CloseKeepsMid
<1>2. v \in View /\ v.machine \in Machine /\ w \in View BY <1>1 DEF Mid, View
<1>3. CASE ~pttListening(v.machine)
  <2>1. /\ w.machine = v.machine /\ w.stream = v.stream
        /\ w.audio = v.audio /\ w.hud = v.hud /\ w.past = v.past
        /\ w.gate.active = v.gate.active /\ w.gate.whole = v.gate.whole
        /\ w.gate.spent = v.gate.spent /\ ~w.gate.produced
    BY <1>2, <1>3, CloseNothing
  <2> HIDE DEF w
  <2>2. PanelOwned(w) /\ Accounted(w) /\ OnlyPtt(w.machine)
    BY <1>3, <2>1 DEF Carried, PanelOwned, Accounted
  <2>3. Recent(w) /\ RingShut(w) /\ Complete(w) /\ Backed(w)
    BY <2>1 DEF Carried, Recent, RingShut, Complete, Backed
  <2>4. Carried(w) BY <2>2, <2>3 DEF Carried
  <2>5. v.past.told \in 0 .. 2 BY <1>2 DEF View, Past
  <2>6. Leads(v, w) BY <1>3, <2>1, <2>5 DEF Leads, HeardWhole, Answers
  <2>7. (WholeOnly(v) => WholeOnly(w)) /\ (Once(v) => Once(w))
    BY <2>1 DEF WholeOnly, Once, Apart
  <2>8. SaidOnce(v) => SaidOnce(w) BY <1>3, <2>1 DEF SaidOnce
  <2>9. Ready(v, w) BY <1>1, <2>4, <2>6, <2>7, <2>8 DEF Ready
  <2> QED BY <2>9 DEF w
<1>4. CASE pttListening(v.machine)
  <2> DEFINE n == onTranscribeDone(onPttStop(v.machine))
  <2>0. HeardOut(v, w) BY <1>4, CloseOpen DEF Carried
  <2>2. ~pttListening(n) /\ n.mode = v.machine.mode /\ OnlyPtt(n)
    BY <1>2, <1>4, StopSettles, StopLeavesBase
  <2>3. v.gate.active BY <1>4
  <2> HIDE DEF w
  <2>1. HeardOut(v, w) /\ w.machine = n BY <2>0 DEF HeardOut
  <2> HIDE DEF n
  <2> USE DEF HeardOut
  <2>4. Carried(w)
    <3>1. PanelOwned(w) /\ Accounted(w) /\ OnlyPtt(w.machine)
      BY <2>1, <2>2 DEF Carried, Accounted
    <3>2. w.audio.ring = {} BY <2>1, <2>3 DEF Carried, RingShut
    <3>3. Recent(w) BY <2>1, <3>2, NothingRecent
    <3>4. RingShut(w) /\ Complete(w) /\ Backed(w)
      BY <2>1, <3>2 DEF Carried, RingShut, Complete, Backed
    <3> QED BY <3>1, <3>3, <3>4 DEF Carried
  <2>5. HeardWhole(v, w) BY <2>1 DEF HeardWhole, Hears
  <2>6. Leads(v, w) BY <1>4, <2>1, <2>2, <2>3, <2>5 DEF Leads, Answers
  <2>7. WholeOnly(v) => WholeOnly(w) BY <2>1, <2>2 DEF WholeOnly
  <2>8. ASSUME WholeOnly(v), Once(v) PROVE Once(w)
    <3>1. v.gate.whole BY <1>4, <2>3, <2>8 DEF WholeOnly
    <3>2. v.audio.ring = {} BY <2>3 DEF Carried, RingShut
    <3>3. CASE v.gate.spent BY <2>1, <2>8, <3>1, <3>2, <3>3 DEF Once, Apart
    <3>4. CASE ~v.gate.spent
      <4>1. Due(v) \subseteq v.audio.window \cup v.audio.queue BY <1>2, DueIsHeld
      <4>2. Apart(v.past.heard, Due(v)) BY <2>8, <4>1 DEF Once, Apart
      <4>3. w.past.again = {} /\ w.past.heard \subseteq v.past.heard \cup Due(v)
        BY <2>1, <2>8, <3>1, <3>4, <4>2, HeardForOnce DEF Once
      <4> QED BY <2>1, <2>8, <3>2, <4>1, <4>3 DEF Once, Apart
    <3> QED BY <3>3, <3>4
  <2>9. ASSUME WholeOnly(v), SaidOnce(v) PROVE SaidOnce(w)
    <3>1. v.gate.whole /\ AnsweredOnce(v) BY <1>4, <2>3, <2>9 DEF WholeOnly, SaidOnce
    <3> QED BY <2>1, <2>2, <2>9, <3>1 DEF SaidOnce
  <2>10. Ready(v, w) BY <1>1, <2>4, <2>6, <2>7, <2>8, <2>9 DEF Ready
  <2> QED BY <2>10 DEF w
<1> QED BY <1>3, <1>4

\* Moving the machine without opening or closing a window leads nowhere else.
LEMMA LeadsFrom ==
  ASSUME NEW v, NEW d, NEW c, Leads(d, c),
         pttListening(d.machine) <=> pttListening(v.machine),
         d.stream = v.stream, d.gate = v.gate, d.audio = v.audio, d.past = v.past
  PROVE  Leads(v, c)
BY DEF Leads, HeardWhole, Due, Answers

\* A base state that follows the gate stays one, and a window stays one.
LEMMA ResettleKeepsOnlyPtt ==
  ASSUME NEW m \in Machine, OnlyPtt(m)
  PROVE  resettle(m).mode = m.mode /\ OnlyPtt(resettle(m))
<1>1. CASE m.state \in Base
  BY <1>1, GateIsBase DEF resettle, recomputeBase, Machine, OnlyPtt, Base
<1>2. CASE m.state \notin Base
  BY <1>2 DEF resettle
<1> QED BY <1>1, <1>2

\* A poll readies the policy, or the deadline's close.
LEMMA PollReadies ==
  ASSUME NEW v, NEW env \in SEnvSignal, Mid(v), Carried(v)
  PROVE  LET w == [v EXCEPT !.machine = onEnv(@, env)]
         IN  /\ Ready(v, w) /\ w.gate = v.gate /\ w.audio = v.audio
             /\ w.stream = v.stream /\ w.past = v.past
             /\ pttListening(w.machine) <=> pttListening(v.machine)
<1> DEFINE e == [v.machine EXCEPT !.env = env]
           n == onEnv(v.machine, env)
           w == [v EXCEPT !.machine = n]
<1>1. Mid(w) BY PollKeepsMid
<1>2. v \in View /\ v.machine \in Machine /\ w \in View BY <1>1 DEF Mid, View
<1>3. /\ e \in Machine /\ e.state = v.machine.state
      /\ e.activation = v.machine.activation /\ e.mode = v.machine.mode
  BY <1>2 DEF Machine
<1>4. n = resettle(e) BY DEF onEnv
<1> HIDE DEF e
<1>5. pttListening(n) <=> pttListening(v.machine)
  <2>1. pttListening(e) <=> pttListening(v.machine) BY <1>3 DEF pttListening
  <2> QED BY <1>3, <1>4, <2>1, ResettleKeepsPtt DEF Mid
<1>6. n.mode = v.machine.mode /\ OnlyPtt(n)
  <2>1. OnlyPtt(e) BY <1>3 DEF Carried, OnlyPtt
  <2> QED BY <1>3, <1>4, <2>1, ResettleKeepsOnlyPtt
<1> HIDE DEF n
<1>7. /\ w.machine = n /\ w.stream = v.stream /\ w.audio = v.audio
      /\ w.gate = v.gate /\ w.hud = v.hud /\ w.past = v.past
  BY <1>2 DEF View
<1> HIDE DEF w
<1>8. Carried(w)
  <2>1. PanelOwned(w) /\ Accounted(w) /\ OnlyPtt(w.machine)
    BY <1>5, <1>6, <1>7 DEF Carried, PanelOwned, Accounted
  <2>2. Recent(w) /\ RingShut(w) /\ Complete(w) /\ Backed(w)
    BY <1>7 DEF Carried, Recent, RingShut, Complete, Backed
  <2> QED BY <2>1, <2>2 DEF Carried
<1>9. v.past.told \in 0 .. 2 BY <1>2 DEF View, Past
<1>10. Leads(v, w) BY <1>5, <1>7, <1>9 DEF Leads, HeardWhole, Answers
<1>11. (WholeOnly(v) => WholeOnly(w)) /\ (Once(v) => Once(w))
  BY <1>5, <1>6, <1>7 DEF WholeOnly, Once, Apart
<1>12. SaidOnce(v) => SaidOnce(w) BY <1>5, <1>7 DEF SaidOnce, AnsweredOnce
<1>13. Ready(v, w) BY <1>1, <1>8, <1>10, <1>11, <1>12 DEF Ready
<1>14. /\ Ready(v, w) /\ w.gate = v.gate /\ w.audio = v.audio
       /\ w.stream = v.stream /\ w.past = v.past
       /\ pttListening(w.machine) <=> pttListening(v.machine)
  BY <1>5, <1>7, <1>13
<1> QED BY <1>14 DEF w, n

\* So does the configuring half of a reload.
LEMMA ReloadReadies ==
  ASSUME NEW v, NEW mode \in Modes, NEW fallback \in Fallbacks, NEW loads \in BOOLEAN,
         Mid(v), Carried(v), DaemonConstants, captured \in Nat
  PROVE  Ready(v, [v EXCEPT !.machine = configure(@, mode, fallback),
                            !.audio.vad = {}, !.audio.ring = {}, !.asr = loads])
<1> DEFINE e == [v.machine EXCEPT !.mode = mode, !.fallback = fallback]
           n == configure(v.machine, mode, fallback)
           w == [v EXCEPT !.machine = n, !.audio.vad = {}, !.audio.ring = {},
                          !.asr = loads]
<1>0. mode \in Mode /\ fallback \in Fallback BY DEF DaemonConstants
<1>1. Mid(w) BY <1>0, ReloadKeepsMid
<1>2. v \in View /\ v.machine \in Machine /\ w \in View BY <1>1 DEF Mid, View
<1>3. /\ e \in Machine /\ e.state = v.machine.state
      /\ e.activation = v.machine.activation /\ e.mode = mode
  BY <1>0, <1>2 DEF Machine
<1>4. n = resettle(e) BY DEF configure
<1> HIDE DEF e
<1>5. pttListening(n) <=> pttListening(v.machine)
  <2>1. pttListening(e) <=> pttListening(v.machine) BY <1>3 DEF pttListening
  <2> QED BY <1>3, <1>4, <2>1, ResettleKeepsPtt DEF Mid
<1>6. n.mode = mode /\ OnlyPtt(n)
  <2>1. OnlyPtt(e) BY <1>3 DEF Carried, OnlyPtt
  <2> QED BY <1>3, <1>4, <2>1, ResettleKeepsOnlyPtt
<1> HIDE DEF n
<1>7. /\ w.machine = n /\ w.stream = v.stream /\ w.gate = v.gate
      /\ w.hud = v.hud /\ w.past = v.past
      /\ w.audio.window = v.audio.window /\ w.audio.queue = v.audio.queue
      /\ w.audio.ring = {} /\ w.audio.vad = {}
  BY <1>2 DEF View, Audio
<1> HIDE DEF w
<1>8. Carried(w)
  <2>1. PanelOwned(w) /\ Accounted(w) /\ OnlyPtt(w.machine)
    BY <1>5, <1>6, <1>7 DEF Carried, PanelOwned, Accounted
  <2>2. Recent(w) /\ RingShut(w) /\ Complete(w) /\ Backed(w)
    BY <1>7, RingEmptied DEF Carried, RingShut, Complete, Backed
  <2> QED BY <2>1, <2>2 DEF Carried
<1>9. v.past.told \in 0 .. 2 BY <1>2 DEF View, Past
<1>10. Leads(v, w) BY <1>5, <1>7, <1>9 DEF Leads, HeardWhole, Answers
<1>11. WholeOnly(v) => WholeOnly(w) BY <1>5, <1>6, <1>7 DEF WholeOnly
<1>12. Once(v) => Once(w) BY <1>7 DEF Once, Apart
<1>13. SaidOnce(v) => SaidOnce(w) BY <1>5, <1>7 DEF SaidOnce, AnsweredOnce
<1>14. Ready(v, w) BY <1>1, <1>8, <1>10, <1>11, <1>12, <1>13 DEF Ready
<1> QED BY <1>14 DEF w, n

\* A tick: poll, the deadline's close, policy, panel, watchdog.
LEMMA TickHandles ==
  ASSUME NEW v, NEW env \in SEnvSignal, NEW ok \in BOOLEAN, NEW drained, NEW last,
         captured \in 0 .. MaxChunks, DaemonConstants, Ctl(v), Kept(v)
  PROVE  Handled(v, tick(v, env, ok, drained, last))
<1> DEFINE d == [v EXCEPT !.machine = onEnv(@, env)]
           c == IF pttListening(d.machine) /\ v.gate.due
                THEN closePttWindow(d, drained, last) ELSE d
           p == applyMicPolicy(c, ok, drained)
           w == watchFrames(updateListeningHud(p), ok)
<1>1. Mid(v) /\ Carried(v) BY DEF Ctl, Kept
<1>2. /\ Ready(v, d) /\ d.gate = v.gate /\ d.audio = v.audio
      /\ d.stream = v.stream /\ d.past = v.past
      /\ pttListening(d.machine) <=> pttListening(v.machine)
  BY <1>1, PollReadies
<1> HIDE DEF d
<1>3. Ready(d, closePttWindow(d, drained, last))
  <2>1. pttListening(d.machine) => d.gate.active BY <1>2, PttOpensMic DEF Ctl
  <2> QED BY <1>2, <2>1, CloseReadies DEF Ready
<1>4. Ready(v, c)
  <2>1. Ready(v, closePttWindow(d, drained, last))
    BY <1>2, <1>3, LeadsFrom DEF Ready
  <2> QED BY <1>2, <2>1
<1> HIDE DEF c
<1>5. p \in View BY <1>4, PolicyPolices DEF Ready, Polices
<1>6. Watches(p, w) BY <1>5, TickWatches
<1>7. Handled(v, w) BY <1>1, <1>4, <1>6, HandlerHandles
<1>8. tick(v, env, ok, drained, last) = w BY DEF tick, c, d
<1> QED BY <1>7, <1>8

\* A release: the close, then the policy.
LEMMA StopHandles ==
  ASSUME NEW v, NEW ok \in BOOLEAN, NEW drained, NEW last,
         captured \in 0 .. MaxChunks, DaemonConstants, Ctl(v), Kept(v)
  PROVE  Handled(v, pttStop(v, ok, drained, last))
<1> DEFINE c == closePttWindow(v, drained, last)
           p == applyMicPolicy(c, ok, drained)
<1>1. Mid(v) /\ Carried(v) BY DEF Ctl, Kept
<1>2. Ready(v, c)
  <2>1. pttListening(v.machine) => v.gate.active BY PttOpensMic DEF Ctl
  <2> QED BY <1>1, <2>1, CloseReadies
<1> HIDE DEF c
<1>3. p \in View BY <1>2, PolicyPolices DEF Ready, Polices
<1>4. Watches(p, p) BY <1>3, HudWatches
<1>5. Handled(v, p) BY <1>1, <1>2, <1>4, HandlerHandles
<1>6. pttStop(v, ok, drained, last) = p BY DEF pttStop, c
<1> QED BY <1>5, <1>6

\* A reload: the new configuration, then the policy.
LEMMA ReloadHandles ==
  ASSUME NEW v, NEW mode \in Modes, NEW fallback \in Fallbacks, NEW loads \in BOOLEAN,
         NEW ok \in BOOLEAN, NEW verdict,
         captured \in 0 .. MaxChunks, DaemonConstants, Ctl(v), Kept(v)
  PROVE  Handled(v, doReload(v, mode, fallback, loads, ok, verdict))
<1> DEFINE c == [v EXCEPT !.machine = configure(@, mode, fallback),
                          !.audio.vad = {}, !.audio.ring = {}, !.asr = loads]
           p == applyMicPolicy(c, ok, verdict)
<1>0. captured \in Nat OBVIOUS
<1>1. Mid(v) /\ Carried(v) BY DEF Ctl, Kept
<1>2. Ready(v, c) BY <1>0, <1>1, ReloadReadies
<1> HIDE DEF c
<1>3. p \in View BY <1>2, PolicyPolices DEF Ready, Polices
<1>4. Watches(p, p) BY <1>3, HudWatches
<1>5. Handled(v, p) BY <1>1, <1>2, <1>4, HandlerHandles
<1>6. doReload(v, mode, fallback, loads, ok, verdict) = p BY DEF doReload, c
<1> QED BY <1>5, <1>6

\* A press opens a window whatever the gate was doing.
LEMMA StartListens ==
  ASSUME NEW m \in Machine, m.state # "TRANSCRIBING", OnlyPtt(m)
  PROVE  LET n == onPttStart(m)
         IN  pttListening(n) /\ OnlyPtt(n) /\ n.mode = m.mode
BY DEF onPttStart, pttListening, OnlyPtt, Machine, Base, EState

\* A press readies the policy, and starts the window's answers afresh.
LEMMA StartReadies ==
  ASSUME NEW v, Ctl(v), Carried(v), OneAnswer => ~pttListening(v.machine)
  PROVE  LET n == onPttStart(v.machine)
             told == IF pttListening(v.machine) THEN v.past.told ELSE 0
             started == [v EXCEPT !.machine = n, !.gate.produced = FALSE,
                                  !.past.told = told]
         IN  Ready(v, [started EXCEPT !.gate.deadline = "full", !.gate.due = FALSE])
<1> DEFINE n == onPttStart(v.machine)
           told == IF pttListening(v.machine) THEN v.past.told ELSE 0
           started == [v EXCEPT !.machine = n, !.gate.produced = FALSE, !.past.told = told]
           w == [started EXCEPT !.gate.deadline = "full", !.gate.due = FALSE]
<1>1. Mid(v) /\ v \in View /\ v.machine \in Machine BY DEF Ctl, Mid, View
<1>2. told \in 0 .. 2 /\ (pttListening(v.machine) => told = v.past.told)
      /\ (~pttListening(v.machine) => told = 0)
  BY <1>1 DEF View, Past
<1>3. n \in Machine /\ Settled(n) /\ n.state # "TRANSCRIBING"
  BY <1>1, StartSettles DEF Mid
<1>4. pttListening(n) /\ OnlyPtt(n) /\ n.mode = v.machine.mode
  BY <1>1, StartListens DEF Mid, Carried
<1> HIDE DEF n, told
<1>5. /\ started \in View /\ started.machine = n /\ started.audio = v.audio
      /\ started.stream = v.stream /\ started.hud = v.hud
      /\ started.gate.active = v.gate.active /\ started.gate.whole = v.gate.whole
      /\ started.gate.spent = v.gate.spent /\ ~started.gate.produced
  BY <1>1, <1>2, <1>3 DEF View, Gate, Past
<1>6. /\ started.past.told = told /\ started.past.opened = v.past.opened
      /\ started.past.heard = v.past.heard /\ started.past.again = v.past.again
      /\ started.past.attempts = v.past.attempts
  BY <1>1, <1>2 DEF View, Past
<1> HIDE DEF started
<1>7. /\ w \in View /\ w.machine = n /\ w.audio = v.audio
      /\ w.stream = v.stream /\ w.hud = v.hud /\ w.past = started.past
      /\ w.gate.active = v.gate.active /\ w.gate.whole = v.gate.whole
      /\ w.gate.spent = v.gate.spent /\ ~w.gate.produced /\ w.gate.deadline = "full"
  BY <1>5 DEF View, Gate
<1> HIDE DEF w
<1>8. Mid(w)
  BY <1>1, <1>3, <1>4, <1>7 DEF Mid, WindowEmptied
<1>9. Carried(w)
  <2>1. PanelOwned(w) /\ Accounted(w) /\ OnlyPtt(w.machine)
    BY <1>4, <1>7 DEF Carried, PanelOwned, Accounted
  <2>2. Recent(w) /\ RingShut(w) /\ Complete(w) /\ Backed(w)
    BY <1>6, <1>7 DEF Carried, Recent, RingShut, Complete, Backed
  <2> QED BY <2>1, <2>2 DEF Carried
<1>10. Leads(v, w) BY <1>2, <1>4, <1>6, <1>7 DEF Leads, HeardWhole, Answers
<1>11. WholeOnly(v) => WholeOnly(w)
  <2> SUFFICES ASSUME WholeOnly(v) PROVE WholeOnly(w) OBVIOUS
  <2>1. v.gate.active => pttListening(v.machine)
    BY <1>1, PttModeGates DEF Ctl, Mid, Carried, WholeOnly
  <2> QED BY <1>4, <1>7, <2>1 DEF WholeOnly
<1>12. Once(v) => Once(w) BY <1>6, <1>7 DEF Once, Apart
<1>13. SaidOnce(v) => SaidOnce(w) BY <1>2, <1>6, <1>7 DEF SaidOnce, AnsweredOnce
<1>14. Ready(v, w) BY <1>8, <1>9, <1>10, <1>11, <1>12, <1>13 DEF Ready
<1> QED BY <1>14 DEF w, started, told, n

\* A press: the window is armed, then the policy, then the panel.
LEMMA StartHandles ==
  ASSUME NEW v, NEW ok \in BOOLEAN, NEW verdict,
         captured \in 0 .. MaxChunks, DaemonConstants, Ctl(v), Kept(v),
         OneAnswer => ~pttListening(v.machine)
  PROVE  Handled(v, pttStart(v, ok, verdict))
<1> DEFINE n == onPttStart(v.machine)
           told == IF pttListening(v.machine) THEN v.past.told ELSE 0
           started == [v EXCEPT !.machine = n, !.gate.produced = FALSE, !.past.told = told]
           c == [started EXCEPT !.gate.deadline = "full", !.gate.due = FALSE]
           p == applyMicPolicy(c, ok, verdict)
           w == updateListeningHud(p)
<1>1. Mid(v) /\ Carried(v) /\ v \in View BY DEF Ctl, Mid, Kept
<1>2. Ready(v, c) BY <1>1, StartReadies
<1>3. pttListening(started.machine)
  <2>1. v.machine \in Machine BY <1>1 DEF View
  <2>2. pttListening(n) BY <1>1, <2>1, StartListens DEF Mid, Carried
  <2>3. started.machine = n
    <3> HIDE DEF n, told
    <3> QED BY <1>1 DEF View
  <2> QED BY <2>2, <2>3
<1>4. pttStart(v, ok, verdict) = w BY <1>3 DEF pttStart
<1> HIDE DEF c
<1>5. p \in View BY <1>2, PolicyPolices DEF Ready, Polices
<1>6. Watches(p, w) BY <1>5, HudWatches
<1>7. Handled(v, w) BY <1>1, <1>2, <1>6, HandlerHandles
<1> QED BY <1>4, <1>7

\* A drain behind a shut gate moves the queue into the ring, and that is all.
LEMMA DrainShutHandles ==
  ASSUME NEW v, NEW verdict, captured \in 0 .. MaxChunks, DaemonConstants,
         Ctl(v), Kept(v), ~v.gate.active
  PROVE  Handled(v, drainAudio(v, verdict))
<1> DEFINE w == drainAudio(v, verdict)
           S == v.audio.ring \cup v.audio.queue
<1>1. v \in View /\ Mid(v) BY DEF Ctl, Mid
<1>2. /\ w \in View /\ w.machine = v.machine /\ w.stream = v.stream
      /\ w.gate = v.gate /\ w.hud = v.hud /\ w.past = v.past
      /\ w.audio.queue = {} /\ w.audio.ring = Newest(S)
      /\ w.audio.window = v.audio.window /\ w.audio.vad = v.audio.vad
  BY <1>1, DrainShut
<1> HIDE DEF w
<1>3. S \in SUBSET Chunk BY <1>1 DEF View, Audio
<1>4. \A c \in S : c <= captured /\ c .. captured \subseteq S
  <2>1. PICK a \in Nat, b \in Nat : /\ 1 <= a /\ a <= b + 1 /\ b <= captured
                                  /\ v.audio.ring = a .. b
                                  /\ v.audio.queue = b + 1 .. captured
    BY DEF Kept, Carried, Recent
  <2>2. S = a .. captured BY <2>1
  <2> QED BY <2>2
<1>5. Newest(S) \subseteq S BY DEF Newest
<1> HIDE DEF S
<1>6. /\ \A c \in Newest(S) : c .. captured \subseteq Newest(S)
      /\ Cardinality(Newest(S)) <= PreRollCap
  BY <1>3, <1>4, NewestIsRecent, NewestFits
<1>7. Recent(w)
  <2>1. Newest(S) \in SUBSET Chunk BY <1>3, NewestType
  <2> DEFINE N == Newest(S)
  <2>a. captured \in Nat OBVIOUS
  <2>b. \A c \in N : c <= captured /\ c .. captured \subseteq N BY <1>4, <1>5, <1>6
  <2>c. N \in SUBSET Chunk BY <2>1
  <2> HIDE DEF N
  <2>d. \E a \in Nat : 1 <= a /\ a <= captured + 1 /\ N = a .. captured
    BY <2>a, <2>b, <2>c, RunUpToNow
  <2>2. PICK a \in Nat : 1 <= a /\ a <= captured + 1 /\ Newest(S) = a .. captured
    BY <2>d DEF N
  <2>3. captured \in Nat /\ {} = captured + 1 .. captured OBVIOUS
  <2>4. \E x, y \in Nat : /\ 1 <= x /\ x <= y + 1 /\ y <= captured
                        /\ w.audio.ring = x .. y
                        /\ w.audio.queue = y + 1 .. captured
    <3> WITNESS a \in Nat, captured \in Nat
    <3> QED BY <1>2, <2>2, <2>3
  <2> QED BY <1>2, <1>6, <2>4 DEF Recent
<1>8. Carried(w)
  <2>1. PanelOwned(w) /\ Accounted(w) /\ OnlyPtt(w.machine)
    BY <1>2 DEF Kept, Carried, PanelOwned, Accounted
  <2>2. RingShut(w) /\ Complete(w) /\ Backed(w)
    BY <1>1, <1>2 DEF Kept, Carried, Mid, RingShut, Complete, Backed
  <2> QED BY <1>7, <2>1, <2>2 DEF Carried
<1>9. Kept(w) BY <1>2, <1>8 DEF Kept, Wanted
<1>10. Steps(v, w)
  <2>1. v.past.told \in 0 .. 2 BY <1>1 DEF View, Past
  <2> QED BY <1>2, <2>1 DEF Steps, Deaf, HeardWhole, Answers, Spares
<1>11. WholeOnly(v) => WholeOnly(w) BY <1>2 DEF WholeOnly
<1>12. Once(v) => Once(w) BY <1>2, <1>5 DEF Once, Apart, S
<1>13. SaidOnce(v) => SaidOnce(w) BY <1>2 DEF SaidOnce, AnsweredOnce
<1>14. Handled(v, w) BY <1>9, <1>10, <1>11, <1>12, <1>13 DEF Handled
<1> QED BY <1>14 DEF w

\* A drain behind an open gate: the window takes the queue, and may be heard.
LEMMA DrainOpenHandles ==
  ASSUME NEW v, NEW verdict, captured \in 0 .. MaxChunks, DaemonConstants,
         Ctl(v), Kept(v), v.gate.active
  PROVE  Handled(v, drainAudio(v, verdict))
<1> DEFINE w == drainAudio(v, verdict)
<1>1. v \in View /\ Mid(v) /\ WindowEmptied(v) BY DEF Ctl, Mid
<1>2. /\ Works(v, w) /\ w.gate.whole = v.gate.whole
      /\ w.audio.queue = {} /\ w.audio.ring = v.audio.ring
      /\ v.gate.whole /\ ~v.gate.spent => Absorbs(v, w, v.audio.queue)
      /\ v.gate.whole /\ v.gate.spent => w.gate.spent /\ Silent(v, w)
  BY <1>1, DrainWorks
<1>3. WindowEmptied(w) BY <1>1, DrainKeeps DEF KeepsWindow
<1> HIDE DEF w
<1>4. /\ w \in View /\ w.machine = v.machine /\ w.stream = v.stream
      /\ w.gate.active = v.gate.active /\ w.past.opened = v.past.opened
      /\ w.past.attempts = v.past.attempts
      /\ Replies(v, w) /\ (PanelOwned(v) => PanelOwned(w))
  BY <1>2 DEF Works
<1>5. /\ w.past.told >= v.past.told
      /\ pttListening(v.machine) \/ w.past.told = v.past.told
      /\ Accounted(v) => Accounted(w)
  BY <1>1, <1>4, RepliesCount
<1>6. v.audio.ring = {} /\ Complete(v) BY DEF Kept, Carried, RingShut
<1>7. Carried(w)
  <2>1. PanelOwned(w) /\ Accounted(w) /\ OnlyPtt(w.machine)
    BY <1>4, <1>5 DEF Kept, Carried
  <2>2. Recent(w) /\ RingShut(w) /\ Backed(w)
    BY <1>2, <1>4, <1>6, NothingRecent DEF Kept, Carried, RingShut, Backed
  <2>3. Complete(w)
    <3> SUFFICES ASSUME w.gate.whole, ~w.gate.spent PROVE Complete(w) BY DEF Complete
    <3>1. /\ v.gate.whole /\ ~v.gate.spent
          /\ w.audio.window = Oldest(Retention, v.audio.window \cup v.audio.queue)
      BY <1>2 DEF Absorbs
    <3>2. PICK a \in Nat, b \in Nat :
            /\ 1 <= a /\ a <= b + 1 /\ b <= captured /\ a <= v.past.opened + 1
            /\ v.audio.queue = b + 1 .. captured
            /\ v.audio.window = {c \in a .. b : c < a + Retention}
      BY <1>6, <3>1 DEF Complete
    <3>3. w.audio.window = {c \in a .. captured : c < a + Retention}
      BY <3>1, <3>2, KeptTogether
    <3>4. captured \in Nat /\ a <= captured + 1 /\ {} = captured + 1 .. captured
      BY <3>2
    <3>5. \E x, y \in Nat :
            /\ 1 <= x /\ x <= y + 1 /\ y <= captured /\ x <= w.past.opened + 1
            /\ w.audio.queue = y + 1 .. captured
            /\ w.audio.window = {c \in x .. y : c < x + Retention}
      <4> WITNESS a \in Nat, captured \in Nat
      <4> QED BY <1>2, <1>4, <3>2, <3>3, <3>4
    <3> QED BY <3>5 DEF Complete
  <2> QED BY <2>1, <2>2, <2>3 DEF Carried
<1>8. Kept(w) BY <1>4, <1>7 DEF Kept, Wanted
<1>9. HeardWhole(v, w)
  BY <1>2 DEF HeardWhole, Absorbs, Silent, Hears, Due
<1>10. Steps(v, w)
  BY <1>4, <1>5, <1>9 DEF Steps, Deaf, Answers, Spares, Healthy
<1>11. WholeOnly(v) => v.gate.whole /\ pttListening(v.machine)
  BY <1>1, PttModeGates DEF Ctl, Mid, Kept, Carried, WholeOnly, View
<1>12. WholeOnly(v) => WholeOnly(w) BY <1>2, <1>4 DEF WholeOnly
<1>13. ASSUME WholeOnly(v), Once(v) PROVE Once(w)
  <2>1. CASE v.gate.spent
    <3>1. Silent(v, w) /\ w.audio.window = {}
      BY <1>2, <1>3, <1>11, <1>13, <2>1 DEF WindowEmptied
    <3> QED BY <1>2, <1>6, <1>13, <3>1 DEF Once, Apart, Silent
  <2>2. CASE ~v.gate.spent /\ ~w.gate.spent
    <3> DEFINE kept == Oldest(Retention, v.audio.window \cup v.audio.queue)
    <3>1. w.audio.window = kept /\ Silent(v, w)
      BY <1>2, <1>11, <1>13, <2>2 DEF Absorbs
    <3>2. kept \subseteq v.audio.window \cup v.audio.queue BY DEF Oldest
    <3> HIDE DEF kept
    <3> QED BY <1>2, <1>6, <1>13, <3>1, <3>2 DEF Once, Apart, Silent
  <2>3. CASE ~v.gate.spent /\ w.gate.spent
    <3>1. w.audio.window = {} /\ Hears(v, w, Due(v))
      BY <1>2, <1>11, <1>13, <2>3 DEF Absorbs, Due
    <3>2. Due(v) \subseteq v.audio.window \cup v.audio.queue BY <1>1, DueIsHeld
    <3>3. Apart(v.past.heard, Due(v)) BY <1>13, <3>2 DEF Once, Apart
    <3>4. w.past.again = {} /\ w.past.heard \subseteq v.past.heard \cup Due(v)
      BY <1>13, <3>1, <3>3, HeardForOnce DEF Once
    <3> QED BY <1>2, <1>6, <1>13, <3>1, <3>2, <3>4 DEF Once, Apart
  <2> QED BY <2>1, <2>2, <2>3
<1>14. ASSUME WholeOnly(v), SaidOnce(v) PROVE SaidOnce(w)
  <2>1. /\ v.gate.produced \in BOOLEAN /\ w.gate.produced \in BOOLEAN
        /\ v.gate.spent \in BOOLEAN /\ w.gate.spent \in BOOLEAN
    BY <1>1, <1>4 DEF View, Gate
  <2>2. AnsweredOnce(v) BY <1>11, <1>14 DEF SaidOnce
  <2>3. CASE v.gate.spent
    <3>1. w.gate.spent /\ Silent(v, w) BY <1>2, <1>11, <1>14, <2>3
    <3> QED BY <1>4, <1>14, <2>2, <3>1 DEF SaidOnce, AnsweredOnce, Silent
  <2>4. CASE ~v.gate.spent
    <3>1. v.past.told = 0 /\ ~v.gate.produced BY <2>1, <2>2, <2>4 DEF AnsweredOnce
    <3>2. w.past.told = IF w.gate.produced THEN 1 ELSE 0
      BY <1>4, <1>11, <1>14, <2>1, <3>1, RepliesOnce
    <3>3. ~w.gate.spent => ~w.gate.produced
      BY <1>2, <1>11, <1>14, <2>4, <3>1 DEF Absorbs, Silent
    <3>4. w.past.told <= 1 /\ AnsweredOnce(w) BY <2>1, <3>2, <3>3 DEF AnsweredOnce
    <3> QED BY <1>4, <1>14, <3>4 DEF SaidOnce
  <2> QED BY <2>1, <2>3, <2>4
<1>15. Handled(v, w) BY <1>8, <1>10, <1>12, <1>13, <1>14 DEF Handled
<1> QED BY <1>15 DEF w

\* So a drain does nothing it may never do, the gate being open or shut.
LEMMA DrainHandles ==
  ASSUME NEW v, NEW verdict, captured \in 0 .. MaxChunks, DaemonConstants,
         Ctl(v), Kept(v)
  PROVE  Handled(v, drainAudio(v, verdict))
BY DrainShutHandles, DrainOpenHandles
-----------------------------------------------------------------------------
(* The invariant.                                                          *)

\* Where a window is whole and the only kind there is, chunks stay apart; where
\* it also takes a shut gate to open one, it answers once.
Apartness == WholeWindow /\ Modes = {"ptt"} => WholeOnly(Now) /\ Once(Now)
Singleness == OneAnswer => WholeOnly(Now) /\ SaidOnce(Now)

StepInv == Inv /\ Kept(Now) /\ Apartness /\ Singleness

\* The step as the properties below read it.
Stepped == Steps(Now, Now')

\* init() establishes the invariant, and starts with no window and no answer.
LEMMA InitKeeps == Init => StepInv /\ Session!Init
<1> SUFFICES ASSUME Init PROVE StepInv /\ Session!Init OBVIOUS
<1> USE DaemonConstants
<1>1. PICK mode \in Modes, fallback \in Fallbacks, env \in SEnvSignal,
           loads \in BOOLEAN, ok \in BOOLEAN :
        LET b == Blank(mode, fallback, env, loads)
        IN  Mid(b) /\ Now = applyMicPolicy(b, ok, "nothing")
  BY InitIs
<1> DEFINE b == Blank(mode, fallback, env, loads)
<1>2. Inv BY InitInv
<1>3. captured = 0 /\ captured \in 0 .. MaxChunks BY <1>2 DEF Init, Inv
<1>4. mode \in Mode /\ fallback \in Fallback BY DEF DaemonConstants
<1>5. /\ Mid(b) /\ b.machine.state \in Base /\ b.machine.mode = mode
      /\ b.audio = [queue |-> {}, ring |-> {}, window |-> {}, vad |-> {}]
      /\ ~b.gate.active /\ ~b.gate.whole /\ ~b.gate.produced /\ b.hud.panel = "none"
      /\ b.past = [heard |-> {}, again |-> {}, opened |-> 0, told |-> 0,
                   attempts |-> 0]
  BY <1>4, BlankIsMid
<1>6. Now = applyMicPolicy(b, ok, "nothing") BY <1>1
<1> HIDE DEF b
<1>7. ~pttListening(b.machine) /\ OnlyPtt(b.machine)
  BY <1>5 DEF Base, pttListening, OnlyPtt
<1>8. Carried(b)
  <2>1. PanelOwned(b) /\ Accounted(b) BY <1>5, <1>7 DEF PanelOwned, Accounted
  <2>2. Recent(b) /\ RingShut(b) /\ Complete(b) /\ Backed(b)
    BY <1>3, <1>5, NothingRecent DEF RingShut, Complete, Backed
  <2> QED BY <1>7, <2>1, <2>2 DEF Carried
<1>9. Polices(b, Now) BY <1>3, <1>5, <1>6, PolicyPolices
<1>10. Kept(Now) BY <1>8, <1>9 DEF Kept, Polices
<1>11. Modes = {"ptt"} => WholeOnly(b) BY <1>5, <1>7 DEF WholeOnly
<1>12. Once(b) BY <1>5 DEF Once, Apart
<1>13. OneAnswer => SaidOnce(b) BY <1>5, <1>7 DEF SaidOnce
<1>14. WholeWindow /\ WholeOnly(b) =>
         /\ WholeOnly(Now)
         /\ Once(b) => Once(Now)
         /\ SaidOnce(b) => SaidOnce(Now)
  BY <1>3, <1>5, <1>6, <1>7, PolicyOnce
<1>15. Apartness BY <1>11, <1>12, <1>14 DEF Apartness
<1>16. Singleness BY <1>11, <1>13, <1>14 DEF Singleness, OneAnswer
<1>17. Session!Init
  <2>1. Now.machine = b.machine /\ Now.past.told = 0 BY <1>5, <1>7, <1>9 DEF Polices
  <2>2. machine = Now.machine /\ past = Now.past BY DEF Now
  <2> QED BY <1>7, <2>1, <2>2 DEF Session!Init
<1> QED BY <1>2, <1>10, <1>15, <1>16, <1>17 DEF StepInv

\* A handler's result becomes the next state.
LEMMA BecomeSteps ==
  ASSUME NEW w \in View, StepInv, Become(w), Handled(Now, w)
  PROVE  Kept(Now)' /\ Apartness' /\ Singleness' /\ Stepped
<1>1. Now' = w BY DEF Now, Become, View
<1>2. captured' = captured BY DEF Become
<1>3. Kept(w) /\ Steps(Now, w) BY DEF Handled
<1>4. Kept(Now)'
  BY <1>1, <1>2, <1>3 DEF Kept, Carried, PanelOwned, Accounted, OnlyPtt, Recent,
     RingShut, Complete, Backed, Wanted, pttListening, micShouldBeOpen, captureShouldBeHeld
<1>5. Apartness'
  <2> SUFFICES ASSUME WholeWindow, Modes = {"ptt"} PROVE (WholeOnly(Now) /\ Once(Now))'
    BY DEF Apartness
  <2>1. WholeOnly(w) /\ Once(w) BY DEF StepInv, Apartness, Handled
  <2> QED BY <1>1, <1>2, <2>1 DEF WholeOnly, Once, Apart, pttListening
<1>6. Singleness'
  <2> SUFFICES ASSUME OneAnswer PROVE (WholeOnly(Now) /\ SaidOnce(Now))'
    BY DEF Singleness, OneAnswer
  <2>1. WholeOnly(w) /\ SaidOnce(w) BY DEF StepInv, Singleness, Handled, OneAnswer
  <2> QED BY <1>1, <2>1 DEF WholeOnly, SaidOnce, AnsweredOnce, OneAnswer, pttListening
<1> QED BY <1>1, <1>3, <1>4, <1>5, <1>6 DEF Stepped

\* What the clocks and PipeWire's state changes may do keeps everything.
LEMMA OutsideKeeps ==
  ASSUME StepInv, machine' = machine, audio' = audio, hud' = hud, captured' = captured, gate'.active = gate.active, gate'.whole = gate.whole,
         gate'.spent = gate.spent, gate'.produced = gate.produced,
         stream'.up = stream.up, stream.retryOk => stream'.retryOk,
         past'.heard = past.heard, past'.again = past.again,
         past'.opened = past.opened, past'.told = past.told,
         \/ past'.attempts = 0
         \/ past'.attempts = past.attempts /\ stream'.retryOk = stream.retryOk
  PROVE  Kept(Now)' /\ Apartness' /\ Singleness' /\ Stepped
<1>1. Kept(Now)'
  BY DEF StepInv, Kept, Carried, PanelOwned, Accounted, OnlyPtt, Recent, RingShut,
     Complete, Backed, Wanted, pttListening, captureShouldBeHeld, Now
<1>2. Apartness'
  BY DEF StepInv, Apartness, WholeOnly, Once, Apart, pttListening, Now
<1>3. Singleness'
  BY DEF StepInv, Singleness, WholeOnly, SaidOnce, AnsweredOnce, OneAnswer,
     pttListening, Now
<1>4. Stepped
  <2>1. past.told \in 0 .. 2 BY DEF StepInv, Inv, Ctl, Mid, Now, View, Past
  <2> QED
    BY <2>1 DEF Stepped, Steps, Deaf, HeardWhole, Answers, Spares, Healthy,
       pttListening, Now
<1> QED BY <1>1, <1>2, <1>3, <1>4

\* A chunk delivered joins the queue: the newest audio, and heard by nobody yet.
LEMMA CallbackKeeps ==
  ASSUME NEW voiced \in BOOLEAN, StepInv, PwCallback(voiced)
  PROVE  Kept(Now)' /\ Apartness' /\ Singleness' /\ Stepped
<1> DEFINE c == captured + 1
<1>1. /\ audio \in Audio /\ stream \in Stream /\ past \in Past
      /\ captured \in 0 .. MaxChunks /\ MaxChunks \in Nat
  BY DaemonConstants DEF StepInv, Inv, Ctl, Mid, Now, View, DaemonConstants
<1>2. /\ audio'.queue = audio.queue \cup {c} /\ audio'.ring = audio.ring
      /\ audio'.window = audio.window /\ audio'.vad = audio.vad
  BY <1>1 DEF PwCallback, Audio
<1>3. /\ captured' = c /\ machine' = machine /\ gate' = gate /\ hud' = hud /\ past' = past
  BY DEF PwCallback
<1>4. /\ stream'.up = stream.up /\ stream'.source = stream.source
      /\ stream'.failed = stream.failed /\ stream'.retryOk = stream.retryOk
  BY <1>1 DEF PwCallback, Stream
<1>5. \A b \in Nat : b <= captured => /\ b <= c
                                     /\ (b + 1 .. captured) \cup {c} = b + 1 .. c
  BY <1>1
<1>6. Kept(Now)'
  <2>1. Kept(Now) BY DEF StepInv
  <2>2. (PanelOwned(Now) /\ Accounted(Now) /\ OnlyPtt(machine) /\ Backed(Now))'
    BY <1>3, <1>4, <2>1
       DEF Kept, Carried, PanelOwned, Accounted, OnlyPtt, Backed, pttListening, Now
  <2>3. Recent(Now)'
    <3>1. Cardinality(audio.ring) <= PreRollCap BY <2>1 DEF Kept, Carried, Recent, Now
    <3>2. PICK a \in Nat, b \in Nat : /\ 1 <= a /\ a <= b + 1 /\ b <= captured
                                    /\ audio.ring = a .. b
                                    /\ audio.queue = b + 1 .. captured
      BY <2>1 DEF Kept, Carried, Recent, Now
    <3>3. audio'.ring = a .. b /\ audio'.queue = b + 1 .. c /\ b <= c
      BY <1>2, <1>5, <3>2
    <3> HIDE DEF c
    <3> QED BY <1>2, <1>3, <3>1, <3>2, <3>3 DEF Recent, Now
  <2>4. Complete(Now)'
    <3> SUFFICES ASSUME gate.whole, ~gate.spent PROVE Complete(Now)'
      BY <1>3 DEF Complete, Now
    <3>1. PICK a \in Nat, b \in Nat :
            /\ 1 <= a /\ a <= b + 1 /\ b <= captured /\ a <= past.opened + 1
            /\ audio.queue = b + 1 .. captured
            /\ audio.window = {d \in a .. b : d < a + Retention}
      BY <2>1 DEF Kept, Carried, Complete, Now
    <3>2. /\ audio'.queue = b + 1 .. c /\ b <= c /\ a <= past'.opened + 1
          /\ audio'.window = {d \in a .. b : d < a + Retention}
      BY <1>2, <1>3, <1>5, <3>1
    <3> HIDE DEF c
    <3> QED BY <1>3, <3>1, <3>2 DEF Complete, Now
  <2>5. RingShut(Now)' /\ Wanted(Now)'
    BY <1>2, <1>3, <1>4, <2>1
       DEF Kept, Carried, RingShut, Wanted, captureShouldBeHeld, Now
  <2> QED BY <2>2, <2>3, <2>4, <2>5 DEF Kept, Carried, Now
<1>7. Apartness'
  <2> SUFFICES ASSUME WholeWindow, Modes = {"ptt"} PROVE (WholeOnly(Now) /\ Once(Now))'
    BY DEF Apartness
  <2>1. WholeOnly(Now) /\ Once(Now) BY DEF StepInv, Apartness
  <2>2. WholeOnly(Now)' BY <1>3, <2>1 DEF WholeOnly, pttListening, Now
  <2>3. \A a \in audio.queue \cup audio.ring \cup audio.window \cup past.heard : a < c
    <3>1. \A a \in audio.queue \cup audio.ring \cup audio.window \cup past.heard :
            a \in Nat /\ a <= captured
      BY <1>1, <2>1 DEF Audio, Past, Chunk, Once, Now
    <3> QED BY <1>1, <3>1
  <2>4. c <= c /\ (\A a \in Chunk : a < c => a <= c /\ a # c) BY <1>1 DEF Chunk
  <2>5. /\ audio.queue \subseteq Chunk /\ audio.ring \subseteq Chunk
        /\ audio.window \subseteq Chunk /\ past.heard \subseteq Chunk
    BY <1>1 DEF Audio, Past
  <2> HIDE DEF c
  <2>6. Once(Now)' BY <1>2, <1>3, <2>1, <2>3, <2>4, <2>5 DEF Once, Apart, Now
  <2> QED BY <2>2, <2>6
<1>8. Singleness'
  BY <1>3 DEF StepInv, Singleness, WholeOnly, SaidOnce, AnsweredOnce, OneAnswer,
     pttListening, Now
<1>9. Stepped
  <2>1. past.told \in 0 .. 2 BY <1>1 DEF Past
  <2> QED
    BY <1>2, <1>3, <1>4, <2>1 DEF Stepped, Steps, Deaf, HeardWhole, Answers, Spares,
       Healthy, pttListening, Now
<1> QED BY <1>6, <1>7, <1>8, <1>9

\* Every step keeps the invariant, and does nothing a step may never do.
LEMMA NextKeeps == StepInv /\ [Next]_vars => StepInv' /\ Stepped
<1> DEFINE Goal == Kept(Now)' /\ Apartness' /\ Singleness' /\ Stepped
<1> SUFFICES ASSUME StepInv, [Next]_vars PROVE Goal BY NextInv DEF StepInv
<1> USE DaemonConstants
<1>1. /\ Ctl(Now) /\ Kept(Now) /\ captured \in 0 .. MaxChunks
      /\ Starts \subseteq BOOLEAN /\ AsrLoads \subseteq BOOLEAN /\ Envs \subseteq SEnvSignal
      /\ stream \in Stream /\ gate \in Gate /\ past \in Past
  BY DEF StepInv, Inv, Ctl, Mid, Now, View, DaemonConstants
<1>2. Next \/ UNCHANGED vars OBVIOUS
<1>3. ASSUME NEW voiced \in BOOLEAN, PwCallback(voiced) PROVE Goal BY <1>3, CallbackKeeps
<1>4. CASE StreamFails
  BY <1>1, <1>4, OutsideKeeps DEF StreamFails, Stream
<1>5. CASE StallElapses
  BY <1>1, <1>5, OutsideKeeps DEF StallElapses, Stream
<1>6. CASE BackoffElapses
  BY <1>1, <1>6, OutsideKeeps DEF BackoffElapses, Stream, Past
<1>7. CASE DeadlinePasses
  BY <1>1, <1>7, OutsideKeeps DEF DeadlinePasses, Gate
<1>8. ASSUME NEW w \in View, Become(w), Handled(Now, w) PROVE Goal
  BY <1>8, BecomeSteps
<1>9. CASE Drain
  <2>1. PICK verdict \in Verdicts : Become(drainAudio(Now, verdict)) BY <1>9 DEF Drain
  <2>2. drainAudio(Now, verdict) \in View BY <1>1, DrainIsCtl DEF Ctl, Mid
  <2>3. Handled(Now, drainAudio(Now, verdict)) BY <1>1, DrainHandles
  <2> QED BY <1>8, <2>1, <2>2, <2>3
<1>10. CASE Tick
  <2>1. PICK env \in Envs, ok \in Starts, drained \in Verdicts, last \in Verdicts :
          Become(tick(Now, env, ok, drained, last))
    BY <1>10 DEF Tick
  <2>2. tick(Now, env, ok, drained, last) \in View BY <1>1, TickIsCtl DEF Ctl, Mid
  <2>3. Handled(Now, tick(Now, env, ok, drained, last)) BY <1>1, TickHandles
  <2> QED BY <1>8, <2>1, <2>2, <2>3
<1>11. CASE Press
  <2>1. PICK ok \in Starts, verdict \in Verdicts : Become(pttStart(Now, ok, verdict))
    BY <1>11 DEF Press, PttStart
  <2>2. OneAnswer => ~pttListening(Now.machine) BY <1>11 DEF Press, OneAnswer, Now
  <2>3. pttStart(Now, ok, verdict) \in View BY <1>1, StartIsCtl DEF Ctl, Mid
  <2>4. Handled(Now, pttStart(Now, ok, verdict)) BY <1>1, <2>2, StartHandles
  <2> QED BY <1>8, <2>1, <2>3, <2>4
<1>12. CASE Release
  <2>1. PICK ok \in Starts, drained \in Verdicts, last \in Verdicts :
          Become(pttStop(Now, ok, drained, last))
    BY <1>12 DEF Release, PttStop
  <2>2. Handled(Now, pttStop(Now, ok, drained, last)) BY <1>1, StopHandles
  <2>3. pttStop(Now, ok, drained, last) \in View
    BY <1>1, CloseKeepsMid, PolicyIsCtl DEF pttStop, Ctl, Mid
  <2> QED BY <1>8, <2>1, <2>2, <2>3
<1>13. CASE Reload
  <2>1. PICK mode \in Modes, fallback \in Fallbacks, loads \in AsrLoads,
             ok \in Starts, verdict \in Verdicts :
          Become(doReload(Now, mode, fallback, loads, ok, verdict))
    BY <1>13 DEF Reload
  <2>2. Handled(Now, doReload(Now, mode, fallback, loads, ok, verdict))
    BY <1>1, ReloadHandles
  <2>3. doReload(Now, mode, fallback, loads, ok, verdict) \in View
    <3>1. mode \in Mode /\ fallback \in Fallback /\ loads \in BOOLEAN /\ ok \in BOOLEAN
      BY <1>1 DEF DaemonConstants
    <3>2. Mid([Now EXCEPT !.machine = configure(@, mode, fallback),
                          !.audio.vad = {}, !.audio.ring = {}, !.asr = loads])
      BY <1>1, <3>1, ReloadKeepsMid DEF Ctl
    <3> QED BY <1>1, <3>1, <3>2, PolicyIsCtl DEF doReload, Ctl, Mid
  <2> QED BY <1>8, <2>1, <2>2, <2>3
<1>14. CASE UNCHANGED vars
  BY <1>14, OutsideKeeps DEF vars
<1> HIDE DEF Goal
<1> QED
  BY <1>2, <1>3, <1>4, <1>5, <1>6, <1>7, <1>9, <1>10, <1>11, <1>12, <1>13, <1>14 DEF Next

\* So the invariant holds throughout, and every step is a permitted one.
LEMMA DaemonSteps == Spec => []StepInv /\ [][Stepped]_vars
<1>1. StepInv /\ [Next]_vars => [Stepped]_vars BY NextKeeps
<1> QED BY InitKeeps, NextKeeps, <1>1, PTL DEF Spec
-----------------------------------------------------------------------------
(* The theorems.                                                           *)

\* No stream is connected unless a window is open or the headset's is being
\* held, whatever failed, stalled or was reloaded (Daemon.cpp:383-394,485-490).
THEOREM DaemonStreamOnlyWhenWanted == Spec => []StreamOnlyWhenWanted
<1>1. StepInv => StreamOnlyWhenWanted
  BY DEF StepInv, Kept, Wanted, Now, StreamOnlyWhenWanted
<1> QED BY DaemonSteps, <1>1, PTL

\* The pre-roll ring has no hole in it, reaches up to the queue, and never
\* outgrows its capacity (Daemon.cpp:228-235; PreRoll.cpp:35-60).
THEOREM DaemonPreRollIsContiguous == Spec => []PreRollIsContiguous
<1>1. StepInv => PreRollIsContiguous
  <2> SUFFICES ASSUME StepInv PROVE PreRollIsContiguous OBVIOUS
  <2>1. /\ Cardinality(audio.ring) <= PreRollCap
        /\ gate.active => audio.ring = {}
    BY DEF StepInv, Kept, Carried, Recent, RingShut, Now
  <2>2. PICK a \in Nat, b \in Nat : /\ 1 <= a /\ a <= b + 1 /\ b <= captured
                                  /\ audio.ring = a .. b
                                  /\ audio.queue = b + 1 .. captured
    BY DEF StepInv, Kept, Carried, Recent, Now
  <2>3. \A c \in audio.ring : c .. captured \subseteq audio.ring \cup audio.queue
    BY <2>2 DEF StepInv, Inv
  <2> QED BY <2>1, <2>3 DEF PreRollIsContiguous
<1> QED BY DaemonSteps, <1>1, PTL

\* A whole window that is still to be transcribed misses no chunk captured since
\* it opened, across reconnects and reloads, but what comes once its buffer is at
\* its ceiling with older ones (Daemon.cpp:434-441; PttWindow.cpp:51-58).
THEOREM DaemonNothingLost == Spec => []NothingLostInWholeWindow
<1>1. StepInv => NothingLostInWholeWindow
  <2> SUFFICES ASSUME StepInv, gate.whole, ~gate.spent,
                      NEW c \in past.opened + 1 .. captured,
                      c \notin audio.window \cup audio.queue
               PROVE  /\ Cardinality(audio.window) = Retention
                      /\ \A d \in audio.window : d < c
    BY DEF NothingLostInWholeWindow
  <2>1. PICK a \in Nat, b \in Nat :
          /\ 1 <= a /\ a <= b + 1 /\ b <= captured /\ a <= past.opened + 1
          /\ audio.queue = b + 1 .. captured
          /\ audio.window = {d \in a .. b : d < a + Retention}
    BY DEF StepInv, Kept, Carried, Complete, Now
  <2>2. /\ captured \in Nat /\ past.opened \in Nat /\ Retention \in Nat
    BY DaemonConstants DEF StepInv, Inv, Ctl, Mid, Now, View, Past, Retention, DaemonConstants
  <2>3. c \in a .. b /\ a + Retention <= c BY <2>1, <2>2
  <2>4. audio.window = a .. a + Retention - 1
    <3>1. \A d \in a .. a + Retention - 1 : d \in audio.window BY <2>1, <2>2, <2>3
    <3>2. \A d \in audio.window : d \in a .. a + Retention - 1 BY <2>1, <2>2
    <3> QED BY <3>1, <3>2
  <2>5. Cardinality(a .. a + Retention - 1) = Retention
    <3>1. /\ a + Retention - 1 \in Int /\ (a + Retention - 1) - a + 1 = Retention
          /\ (a > a + Retention - 1 => Retention = 0)
      BY <2>2
    <3> QED BY <3>1, FS_Interval
  <2>6. \A d \in audio.window : d < c BY <2>1, <2>2, <2>3
  <2> QED BY <2>4, <2>5, <2>6
<1> QED BY DaemonSteps, <1>1, PTL

\* A listening panel is one the daemon knows of, and will take down
\* (Daemon.hpp:130).
THEOREM DaemonListeningPanelIsOwned == Spec => []ListeningPanelIsOwned
<1>1. StepInv => ListeningPanelIsOwned
  BY DEF StepInv, Kept, Carried, PanelOwned, Now, ListeningPanelIsOwned
<1> QED BY DaemonSteps, <1>1, PTL

\* With whole windows, in a configuration that only ever asks for push-to-talk,
\* no speech is transcribed twice (Daemon.hpp:123; Daemon.cpp:622-625).
THEOREM DaemonHeardOnce ==
  ASSUME WholeWindow, Modes = {"ptt"}
  PROVE  Spec => []HeardOnce
<1>1. StepInv => HeardOnce BY DEF StepInv, Apartness, Once, Now, HeardOnce
<1> QED BY DaemonSteps, <1>1, PTL

\* The privacy rule: behind a shut gate nothing is analysed, and no window's
\* audio is left over (README.md:241-244).
THEOREM DaemonShutGateIsDeaf == Spec => ShutGateIsDeaf
<1>1. StepInv /\ StepInv' /\ [Stepped]_vars =>
        [ ~gate.active /\ ~gate'.active =>
            /\ past'.heard = past.heard
            /\ audio'.vad \subseteq audio.vad
            /\ audio'.window = {} ]_vars
  <2> SUFFICES ASSUME StepInv', Stepped, ~gate.active, ~gate'.active
               PROVE  /\ past'.heard = past.heard
                      /\ audio'.vad \subseteq audio.vad
                      /\ audio'.window = {}
    OBVIOUS
  <2>1. past'.heard = past.heard /\ audio'.vad \subseteq audio.vad
    BY DEF Stepped, Steps, Deaf, Now
  <2>2. audio'.window = {} BY DEF StepInv, Inv, Ctl, Mid, WindowEmptied, Now
  <2> QED BY <2>1, <2>2
<1> QED BY DaemonSteps, <1>1, PTL DEF ShutGateIsDeaf

\* What a whole window still to be heard was given, and what the ASR gets of it.
LEMMA WholeWindowIsDue ==
  ASSUME StepInv, gate.whole, ~gate.spent, Due(Now) # {}
  PROVE  \E first \in audio.window \cup audio.queue :
           /\ first <= past.opened + 1
           /\ \A c \in audio.window \cup audio.queue : first <= c
           /\ Due(Now) = {c \in first .. captured :
                /\ c < first + MaxUtterance
                /\ \E d \in c .. captured : d \in Audible /\ d < first + Retention}
<1>1. PICK a \in Nat, b \in Nat :
        /\ 1 <= a /\ a <= b + 1 /\ b <= captured /\ a <= past.opened + 1
        /\ audio.queue = b + 1 .. captured
        /\ audio.window = {d \in a .. b : d < a + Retention}
  BY DEF StepInv, Kept, Carried, Complete, Now
<1>2. captured \in 0 .. MaxChunks /\ captured \in Nat
  BY DaemonConstants DEF StepInv, Inv, DaemonConstants
<1>3. Due(Now) = {c \in a .. captured :
        /\ c < a + MaxUtterance
        /\ \E d \in c .. captured : d \in Audible /\ d < a + Retention}
  <2>1. Oldest(Retention, audio.window \cup audio.queue)
          = {c \in a .. captured : c < a + Retention}
    BY <1>1, <1>2, KeptTogether, DaemonConstants
  <2> QED BY <1>1, <1>2, <2>1, FinishOfRun, DaemonConstants DEF Due, Now
<1>4. a <= captured BY <1>1, <1>2, <1>3
<1>5. 0 < Retention /\ Retention \in Nat BY DaemonConstants DEF Retention, DaemonConstants
<1>6. a \in audio.window \cup audio.queue BY <1>1, <1>2, <1>4, <1>5
<1>7. \A c \in audio.window \cup audio.queue : a <= c BY <1>1, <1>2
<1> QED BY <1>1, <1>3, <1>6, <1>7

\* Of a whole window the ASR gets what the window was given, from the press or
\* before it, less what comes after the cap and the inaudible tail, and nothing
\* else (README.md:281-284; PttWindow.cpp:39-112).
THEOREM DaemonWholeWindowIsHeardWhole == Spec => WholeWindowIsHeardWhole
<1>1. StepInv /\ [Stepped]_vars =>
        [ gate.whole /\ past'.heard # past.heard =>
            \E first \in audio.window \cup audio.queue :
              /\ first <= past.opened + 1
              /\ \A c \in audio.window \cup audio.queue : first <= c
              /\ past'.heard = past.heard \cup
                   {c \in first .. captured :
                      /\ c < first + MaxUtterance
                      /\ \E d \in c .. captured :
                           d \in Audible /\ d < first + Retention} ]_vars
  <2> SUFFICES ASSUME StepInv, Stepped, gate.whole, past'.heard # past.heard
               PROVE  \E first \in audio.window \cup audio.queue :
                        /\ first <= past.opened + 1
                        /\ \A c \in audio.window \cup audio.queue : first <= c
                        /\ past'.heard = past.heard \cup
                             {c \in first .. captured :
                                /\ c < first + MaxUtterance
                                /\ \E d \in c .. captured :
                                     d \in Audible /\ d < first + Retention}
    OBVIOUS
  <2>1. ~gate.spent /\ past'.heard = past.heard \cup Due(Now)
    BY DEF Stepped, Steps, HeardWhole, Now
  <2>2. Due(Now) # {} BY <2>1
  <2> HIDE DEF Due
  <2> QED BY <2>1, <2>2, WholeWindowIsDue
<1> QED BY DaemonSteps, <1>1, PTL DEF WholeWindowIsHeardWhole

\* Whatever closes a push-to-talk window, the user has been told something
\* (README.md:201-209; Daemon.cpp:635-642).
THEOREM DaemonWindowNeverEndsInSilence == Spec => WindowNeverEndsInSilence
<1>1. [Stepped]_vars => [Closes => past'.told >= 1]_vars
  BY DEF Stepped, Steps, Answers, Closes, Now, pttListening
<1> QED BY DaemonSteps, <1>1, PTL DEF WindowNeverEndsInSilence

\* A healthy stream on the right source survives an open window, however long no
\* frame has come (Daemon.cpp:571-588).
THEOREM DaemonWatchdogSparesTheWindow == Spec => WatchdogSparesTheWindow
<1>1. [Stepped]_vars =>
        [ /\ gate.active /\ gate'.active
          /\ stream.up /\ ~stream.failed /\ stream.source = chooseSource(machine')
          => stream'.up /\ (stream.retryOk => stream'.retryOk) ]_vars
  BY DEF Stepped, Steps, Spares, Healthy, Now
<1> QED BY DaemonSteps, <1>1, PTL DEF WatchdogSparesTheWindow

\* However the connection was lost, and whether or not the last attempt to make
\* one worked, there is no second attempt before the retry time has come, PCM has
\* flowed or the stream was given up (Daemon.cpp:396-421,475-490,580-588).
THEOREM DaemonReconnectsAreBackedOff == Spec => []ReconnectsAreBackedOff
<1>1. StepInv => ReconnectsAreBackedOff
  BY DEF StepInv, Kept, Carried, Backed, Now, ReconnectsAreBackedOff
<1> QED BY DaemonSteps, <1>1, PTL

\* The safety half of ImplementsSession: the daemon starts as PttSession does and
\* each of its steps is one of PttSession's or none.  A window opens by a press,
\* closes only answered, and answers no more than once where that is promised
\* (README.md:201-209; Daemon.cpp:271-300,613-644).
THEOREM DaemonStepsAreSessionSteps ==
  Spec => Session!Init /\ [][Session!Next]_(Session!vars)
<1>1. StepInv /\ StepInv' /\ [Stepped]_vars => [Session!Next]_(Session!vars)
  <2> SUFFICES ASSUME StepInv, StepInv', Stepped
               PROVE  [Session!Next]_(Session!vars)
    BY DEF vars, Session!vars, pttListening
  <2> DEFINE before == pttListening(machine)
             after  == pttListening(machine')
  <2>1. past.told \in 0 .. 2 /\ past'.told \in 0 .. 2
    BY DEF StepInv, Inv, Ctl, Mid, Now, View, Past
  <2>2. /\ ~before /\ ~after => past'.told = past.told
        /\ before => past'.told >= past.told
        /\ before /\ ~after => past'.told >= 1
    BY DEF Stepped, Steps, Answers, Now
  <2>3. past'.told \in Session!Answers
    <3>1. OneAnswer => past'.told <= 1 BY DEF StepInv, Singleness, SaidOnce, Now
    <3> QED BY <2>1, <3>1 DEF Session!Answers
  <2>4. /\ before <=> (IF pttListening(machine) THEN "open" ELSE "idle") = "open"
        /\ after <=> (IF pttListening(machine') THEN "open" ELSE "idle") = "open"
    OBVIOUS
  <2>5. CASE ~before /\ ~after
    BY <2>2, <2>5 DEF Session!vars, pttListening
  <2>6. CASE ~before /\ after
    <3>1. Session!Press BY <2>3, <2>6 DEF Session!Press, pttListening
    <3> QED BY <3>1 DEF Session!Next
  <2>7. CASE before /\ after
    <3>1. CASE past'.told = past.told
      BY <2>7, <3>1 DEF Session!vars, pttListening
    <3>2. CASE past'.told # past.told
      <4>1. past'.told > past.told BY <2>1, <2>2, <2>7, <3>2
      <4>2. Session!Answer
        BY <2>3, <2>7, <4>1 DEF Session!Answer, pttListening
      <4> QED BY <4>2 DEF Session!Next
    <3> QED BY <3>1, <3>2
  <2>8. CASE before /\ ~after
    <3>1. Session!Close BY <2>2, <2>3, <2>8 DEF Session!Close, pttListening
    <3> QED BY <3>1 DEF Session!Next
  <2> QED BY <2>5, <2>6, <2>7, <2>8
<1> QED BY InitKeeps, DaemonSteps, <1>1, PTL DEF Spec
=============================================================================
