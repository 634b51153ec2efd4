------------------------ MODULE SegmentationProofs -------------------------
(***************************************************************************)
(* That the segments of a window are sound, that no onset run is missed    *)
(* and that a quiet window is forgiven, for every configuration, every     *)
(* loudness and any length of window.                                      *)
(*                                                                         *)
(* Nothing Segmentation promises is inductive by itself.  Inv says what    *)
(* holds between two calls; most of it is Steady, what holds between two   *)
(* frames of an open window: the ring is the latest frames and reaches     *)
(* back far enough (ReachesBack), the run in progress starts no later than *)
(* any voiced frame that an onset could be counted from (Listens), the     *)
(* utterance in progress would be sound if it ended here (Speaks).         *)
(*                                                                         *)
(* The argument goes frame by frame: FrameDoes says in which of five ways  *)
(* a frame moves the detector, a lemma for each part of Steady that the    *)
(* move keeps it, FrameKeeps puts them together.  PushKeeps carries that   *)
(* over the frames of a chunk, InvNext over the calls of the daemon.       *)
(***************************************************************************)
EXTENDS Segmentation, WellFoundedInduction, FiniteSetTheorems, SequenceTheorems, TLAPS

\* What the model's constants and records are made of.
Setting ==
  [energy : Nat, start : Nat, end : Nat \ {0}, max : Nat \ {0}, preRoll : Nat, gap : Nat,
   presence : Nat, backpad : Nat, adaptive : BOOLEAN]
Segment == [onset : Nat, from : Nat, end : Nat, samples : Seq(Nat), base : Nat]
Detector ==
  [base : Nat, ring : Seq(Nat), run : Nat, gap : Nat, start : Nat, inSpeech : BOOLEAN,
   onset : Nat, from : Nat, samples : Seq(Nat), silence : Nat, out : Seq(Segment),
   judged : Seq(BOOLEAN)]

\* The frames from a up to, and without, b.
Frames(a, b) == [k \in 1..(b - a) |-> a + k - 1]

Voiced(judged, a, b) == {i \in a..b : judged[i]}
Unvoiced(judged, a, b) == {i \in a..b : ~judged[i]}

\* The dips of a segment, as Dips has them, for any judgement.
Enough(c, judged, s) ==
  {d \in s.onset..(s.end - 1) : Cardinality(Voiced(judged, s.onset, d)) >= c.start}
DipsOf(c, judged, s) == Unvoiced(judged, s.onset, Min(Enough(c, judged, s)))

\* It has its frames, the voiced ones that opened it, and its lead-in.
Sound(c, judged, s) ==
  /\ s.samples = Frames(s.from, s.end)
  /\ Enough(c, judged, s) # {}
  /\ Proportioned(c) /\ Cardinality(DipsOf(c, judged, s)) <= c.gap =>
       s.onset - s.from >= Min({c.backpad, s.onset - 1 - s.base})

\* The utterance that is open, were it to end before frame `end'.
Current(v, end) ==
  [onset |-> v.onset, from |-> v.from, end |-> end, samples |-> v.samples, base |-> v.base]

\* No dip from a to b is longer than gap_tolerance_ms.
Tolerated(c, judged, a, b) ==
  \A i \in a..b : i + c.gap <= b => \E j \in i..(i + c.gap) : judged[j]

\* The detector has judged every frame, and voiced is at least the gate.
HasJudged(c, h, v) ==
  /\ Len(v.judged) = Len(h) /\ v.base <= Len(h)
  /\ \A i \in 1..Len(h) : v.judged[i] => h[i] >= c.energy

\* The ring holds the latest frames.
HoldsLatest(c, h, v) ==
  LET l == Len(v.ring)
  IN  /\ l <= Len(h) - v.base /\ l <= ringFrames(c)
      /\ v.ring = Frames(Len(h) + 1 - l, Len(h) + 1)

\* It is full, or holds everything since the detector was built, or reaches back far
\* enough: declareOnset empties it, and the utterance that follows is long enough
\* to fill it again.
ReachesBack(c, h, v) ==
  LET l == Len(v.ring)
      n == Len(h)
  IN  \/ l = ringFrames(c)
      \/ v.inSpeech /\ l >= v.silence /\ l + LongestOnset(c) >= n + 1 - v.onset
      \/ ~v.inSpeech /\ l = n - v.base
      \/ ~v.inSpeech /\ \E s \in Range(v.out) : n + 1 - l + c.backpad <= s.end

\* A run in progress.
OnsetRun(c, h, v) ==
  LET n == Len(h)
  IN  /\ v.start \in (v.base + 1)..n /\ v.judged[v.start]
      /\ Cardinality(Voiced(v.judged, v.start, n)) = v.run
      /\ v.run < c.start /\ v.gap <= c.gap
      /\ \A i \in (n + 1 - v.gap)..n : ~v.judged[i]
      /\ n + 1 - v.start <= v.run + (v.run - 1) * c.gap + v.gap
      /\ \A s \in Range(v.out) : s.end <= v.start

\* Between utterances the run in progress holds every voiced frame that it could
\* be counted from.
Listens(c, h, v) ==
  /\ v.run = 0 => v.gap = 0
  /\ v.run > 0 => OnsetRun(c, h, v)
  /\ \A a \in (v.base + 1)..Len(h) :
       /\ v.judged[a] /\ Tolerated(c, v.judged, a, Len(h))
       /\ \A s \in Range(v.out) : s.end <= a
       => v.run > 0 /\ v.start <= a

\* An utterance in progress.
Speaks(c, h, v) ==
  /\ v.onset \in (v.base + 1)..Len(h) /\ v.from \in (v.base + 1)..Len(h)
  /\ Sound(c, v.judged, Current(v, Len(h) + 1))
  /\ \A s \in Range(v.out) : s.end <= v.onset

\* The utterances so far.
AllSound(c, h, v) ==
  /\ \A s \in Range(v.out) :
       Sound(c, v.judged, s) /\ 1 <= s.onset /\ s.onset < s.end /\ s.end <= Len(h) + 1
  /\ \A j, k \in DOMAIN v.out : j < k => v.out[j].end <= v.out[k].onset

\* Every onset run there was is in one of them.
Run(c, judged, a, b) ==
  /\ judged[a] /\ judged[b] /\ Cardinality(Voiced(judged, a, b)) >= c.start
  /\ Tolerated(c, judged, a, b)
NoneMissed(c, h, v) ==
  \A a, b \in (v.base + 1)..Len(h) :
    a <= b /\ Run(c, v.judged, a, b) =>
      \/ \E s \in Range(v.out) : s.onset <= b /\ s.end > a
      \/ v.inSpeech /\ v.onset <= b

\* It takes start_ms of frames at the gate to open an utterance.
Loud(c, h) == {i \in 1..Len(h) : h[i] >= c.energy}
Counts(c, h, v) == v.inSpeech \/ v.out # <<>> => Cardinality(Loud(c, h)) >= c.start

\* The detector between two frames of an open window.
Steady(c, h, v) ==
  /\ v \in Detector
  /\ HasJudged(c, h, v) /\ HoldsLatest(c, h, v)
  /\ Proportioned(c) => ReachesBack(c, h, v)
  /\ IF v.inSpeech THEN Speaks(c, h, v) ELSE Listens(c, h, v)
  /\ AllSound(c, h, v) /\ NoneMissed(c, h, v) /\ Counts(c, h, v)

\* The buffer of a whole window of n frames.
Buffer(c, n) == Frames(1, Min({n, 2 * c.max}) + 1)

\* What is left of the window when the gate shuts, and before.
Inv ==
  /\ cfg \in Settings /\ heard \in Seq(Levels)
  /\ phase \in {"open", "shut"} /\ whole \in BOOLEAN
  /\ vad \in Detector /\ AllSound(cfg, heard, vad) /\ Counts(cfg, heard, vad)
  /\ phase = "open" => Steady(cfg, heard, vad)
  /\ phase = "open" /\ whole /\ ~utterance.done => kept = Buffer(cfg, Len(heard))
  /\ whole /\ utterance.done => utterance = finish(cfg, heard, Buffer(cfg, Len(heard)))
-----------------------------------------------------------------------------
(* Numbers.                                                                *)

\* Of naturals there is a least.
LEMMA HasLeast ==
  ASSUME NEW S \in SUBSET Nat, S # {}
  PROVE  Min(S) \in S /\ \A n \in S : Min(S) <= n
<1>1. PICK m \in S : \A n \in S : ~(<<n, m>> \in OpToRel(<, Nat))
  BY NatLessThanWellFounded, WFMin
<1>2. ASSUME NEW n \in S, n < m PROVE FALSE
  <2>1. <<n, m>> \in OpToRel(<, Nat)
    BY <1>2 DEF OpToRel
  <2> QED BY <1>1, <2>1
<1>3. \A n \in S : m =< n
  BY <1>2
<1> QED BY <1>3 DEF Min

\* Of naturals below a bound there is a greatest.
LEMMA HasGreatest ==
  ASSUME NEW N \in Nat, NEW S \in SUBSET (0 .. N), S # {}
  PROVE  Max(S) \in S /\ \A n \in S : n <= Max(S)
<1> DEFINE T == {d \in Nat : N - d \in S}
           m == N - Min(T)
<1>1. \A n \in S : n \in Int /\ N - n \in Nat /\ N - (N - n) = n
  OBVIOUS
<1>2. T # {} /\ \A n \in S : N - n \in T
  BY <1>1
<1>3. Min(T) \in T /\ \A d \in T : Min(T) <= d
  BY <1>2, HasLeast
<1>4. m \in S /\ \A n \in S : m >= n
  BY <1>1, <1>2, <1>3
<1> QED BY <1>4 DEF Max

\* A set of naturals that holds 0 and every successor of its own holds them all.
LEMMA Counting ==
  ASSUME NEW S, 0 \in S, \A n \in Nat : n \in S => n + 1 \in S
  PROVE  Nat \subseteq S
<1> SUFFICES ASSUME NEW x \in Nat, x \notin S PROVE FALSE
  OBVIOUS
<1> DEFINE T == Nat \ S
<1>1. Min(T) \in T /\ \A n \in T : Min(T) <= n
  BY HasLeast
<1>2. Min(T) # 0 /\ Min(T) - 1 \in Nat
  BY <1>1
<1>3. Min(T) - 1 \notin T /\ (Min(T) - 1) + 1 = Min(T)
  BY <1>1, <1>2
<1> QED BY <1>1, <1>2, <1>3

\* The lesser and the greater of two numbers.
LEMMA OfTwo ==
  ASSUME NEW a \in Int, NEW b \in Int
  PROVE  /\ Min({a, b}) = IF a <= b THEN a ELSE b
         /\ Max({a, b}) = IF a >= b THEN a ELSE b
<1> DEFINE l == IF a <= b THEN a ELSE b
           g == IF a >= b THEN a ELSE b
<1>1. l \in {a, b} /\ (\A y \in {a, b} : l =< y) /\ g \in {a, b} /\ \A y \in {a, b} : g >= y
  OBVIOUS
<1>2. \A x \in {a, b} : (\A y \in {a, b} : x =< y) => x = l
  OBVIOUS
<1>3. \A x \in {a, b} : (\A y \in {a, b} : x >= y) => x = g
  OBVIOUS
<1> HIDE DEF l, g
<1>4. Min({a, b}) = l
  BY <1>1, <1>2 DEF Min
<1>5. Max({a, b}) = g
  BY <1>1, <1>3 DEF Max
<1> QED BY <1>4, <1>5 DEF l, g

\* The ring is as deep as the pre-roll and as a back-padded onset.
LEMMA RingIsDeep ==
  ASSUME NEW c \in Setting
  PROVE  /\ ringFrames(c) \in Nat \ {0}
         /\ ringFrames(c) >= c.backpad + c.start + c.gap
<1> DEFINE d == c.backpad + c.start + c.gap
           S == {c.preRoll, d, 1}
           N == c.preRoll + d + 1
<1>1. c.preRoll \in Nat /\ d \in Nat
  BY DEF Setting
<1> HIDE DEF d
<1>2. S \in SUBSET (0 .. N) /\ S # {} /\ N \in Nat
  BY <1>1
<1>3. Max(S) \in S /\ \A n \in S : n <= Max(S)
  BY <1>2, HasGreatest
<1>4. ringFrames(c) = Max(S)
  BY DEF ringFrames, d
<1> QED BY <1>1, <1>3, <1>4 DEF d

\* What run - 1 dips of the tolerated length come to, with one more.
LEMMA OneMoreDip ==
  ASSUME NEW r \in Int, NEW g \in Int
  PROVE  (r - 1) * g + g = r * g /\ (r - 1) * g \in Int /\ r * g \in Int
  OBVIOUS

\* A set of frames that lies between two places is finite, and to add a frame counts one.
LEMMA FramesCount ==
  ASSUME NEW a \in Int, NEW b \in Int, NEW S \in SUBSET (a .. b)
  PROVE  /\ IsFiniteSet(S) /\ Cardinality(S) \in Nat
         /\ Cardinality(S) <= IF a > b THEN 0 ELSE b - a + 1
         /\ \A T \in SUBSET S : IsFiniteSet(T) /\ Cardinality(T) \in Nat
                                /\ Cardinality(T) <= Cardinality(S)
<1>1. IsFiniteSet(a .. b) /\ Cardinality(a .. b) = IF a > b THEN 0 ELSE b - a + 1
  BY FS_Interval
<1>2. IsFiniteSet(S) /\ Cardinality(S) <= Cardinality(a .. b)
  BY <1>1, FS_Subset
<1>3. Cardinality(S) \in Nat
  BY <1>2, FS_CardinalityType
<1>4. ASSUME NEW T \in SUBSET S
      PROVE  IsFiniteSet(T) /\ Cardinality(T) \in Nat /\ Cardinality(T) <= Cardinality(S)
  <2>1. IsFiniteSet(T) /\ Cardinality(T) <= Cardinality(S)
    BY <1>2, FS_Subset
  <2> QED BY <2>1, FS_CardinalityType
<1> QED BY <1>1, <1>2, <1>3, <1>4
-----------------------------------------------------------------------------
(* Stretches of frames.                                                    *)

\* A stretch is the sequence of its frames.
LEMMA FramesAre ==
  ASSUME NEW a \in Nat, NEW b \in Nat, a <= b
  PROVE  /\ Frames(a, b) \in Seq(Nat) /\ Len(Frames(a, b)) = b - a
         /\ \A k \in 1 .. b - a : Frames(a, b)[k] = a + k - 1
<1>1. b - a \in Nat /\ \A k \in 1 .. b - a : a + k - 1 \in Nat
  OBVIOUS
<1>2. Frames(a, b) \in [1 .. b - a -> Nat]
  BY <1>1 DEF Frames
<1>3. Frames(a, b) \in Seq(Nat)
  BY <1>1, <1>2, SeqDef
<1>4. DOMAIN Frames(a, b) = 1 .. b - a /\ DOMAIN Frames(a, b) = 1 .. Len(Frames(a, b))
  BY <1>2, <1>3, LenProperties
<1>5. Len(Frames(a, b)) = b - a
  BY <1>1, <1>2, <1>3, <1>4
<1> QED BY <1>3, <1>5 DEF Frames

\* The next frame makes it one longer.
LEMMA FramesGrow ==
  ASSUME NEW a \in Nat, NEW b \in Nat, a <= b
  PROVE  Append(Frames(a, b), b) = Frames(a, b + 1)
<1> DEFINE s == Append(Frames(a, b), b)
           t == Frames(a, b + 1)
           n == b - a
<1>1. /\ Frames(a, b) \in Seq(Nat) /\ Len(Frames(a, b)) = n
      /\ \A k \in 1 .. n : Frames(a, b)[k] = a + k - 1
  BY FramesAre
<1>2. /\ t \in Seq(Nat) /\ Len(t) = n + 1 /\ \A k \in 1 .. n + 1 : t[k] = a + k - 1
  BY FramesAre
<1>3. /\ s \in Seq(Nat) /\ Len(s) = n + 1 /\ s[n + 1] = b
      /\ \A k \in 1 .. n : s[k] = Frames(a, b)[k]
  BY <1>1, AppendProperties
<1> HIDE DEF s, t
<1>4. \A k \in 1 .. n + 1 : s[k] = t[k]
  <2> SUFFICES ASSUME NEW k \in 1 .. n + 1 PROVE s[k] = t[k]
    OBVIOUS
  <2>1. CASE k = n + 1
    BY <1>2, <1>3, <2>1
  <2>2. CASE k # n + 1
    BY <1>1, <1>2, <1>3, <2>2
  <2> QED BY <2>1, <2>2
<1> QED BY <1>2, <1>3, <1>4, SeqEqual DEF s, t

\* Any part of it is a stretch.
LEMMA FramesCut ==
  ASSUME NEW a \in Nat, NEW b \in Nat, a <= b, NEW m \in 1 .. b - a + 1, NEW n \in m - 1 .. b - a
  PROVE  SubSeq(Frames(a, b), m, n) = Frames(a + m - 1, a + n)
<1> DEFINE f == Frames(a, b)
           s == SubSeq(f, m, n)
           t == Frames(a + m - 1, a + n)
           l == n - m + 1
<1>1. f \in Seq(Nat) /\ Len(f) = b - a /\ \A k \in 1 .. b - a : f[k] = a + k - 1
  BY FramesAre
<1>2. t \in Seq(Nat) /\ Len(t) = l /\ \A k \in 1 .. l : t[k] = (a + m - 1) + k - 1
  <2> DEFINE p == a + m - 1
             q == a + n
  <2>1. p \in Nat /\ q \in Nat /\ p <= q /\ q - p = l /\ t = Frames(p, q)
    OBVIOUS
  <2> HIDE DEF p, q, l, t
  <2>2. t \in Seq(Nat) /\ Len(t) = l /\ \A k \in 1 .. l : t[k] = p + k - 1
    BY <2>1, FramesAre
  <2> QED BY <2>2 DEF p
<1> HIDE DEF f, t
<1>3. /\ s \in Seq(Nat) /\ Len(s) = IF m <= n THEN l ELSE 0
      /\ \A k \in 1 .. l : s[k] = f[m + k - 1]
  <2>1. m \in Int /\ n \in Int /\ \A k \in m .. n : f[k] \in Nat
    BY <1>1
  <2> QED BY <2>1, SubSeqProperties
<1> HIDE DEF s
<1>4. Len(s) = l
  BY <1>3
<1>5. \A k \in 1 .. l : s[k] = t[k]
  BY <1>1, <1>2, <1>3
<1> QED BY <1>2, <1>3, <1>4, <1>5, SeqEqual DEF f, s, t

\* The first n frames of a window.
LEMMA WindowIs ==
  ASSUME NEW n \in Nat
  PROVE  /\ Frames(1, n + 1) \in Seq(Nat) /\ Len(Frames(1, n + 1)) = n
         /\ \A k \in 1 .. n : Frames(1, n + 1)[k] = k
<1> DEFINE b == n + 1
<1>1. b \in Nat /\ 1 \in Nat /\ 1 <= b /\ b - 1 = n /\ \A k \in 1 .. n : 1 + k - 1 = k
  OBVIOUS
<1> HIDE DEF b
<1>2. /\ Frames(1, b) \in Seq(Nat) /\ Len(Frames(1, b)) = b - 1
      /\ \A k \in 1 .. b - 1 : Frames(1, b)[k] = 1 + k - 1
  BY <1>1, FramesAre
<1>3. /\ Frames(1, b) \in Seq(Nat) /\ Len(Frames(1, b)) = n
      /\ \A k \in 1 .. n : Frames(1, b)[k] = k
  BY <1>1, <1>2
<1> QED BY <1>3 DEF b

\* Two that meet are one.
LEMMA FramesJoin ==
  ASSUME NEW n \in Nat, NEW m \in Nat
  PROVE  Frames(1, n + 1) \o [k \in 1 .. m |-> n + k] = Frames(1, (n + m) + 1)
<1> DEFINE f == Frames(1, n + 1)
           g == [k \in 1 .. m |-> n + k]
           s == f \o g
           t == Frames(1, (n + m) + 1)
<1>1. f \in Seq(Nat) /\ Len(f) = n /\ \A k \in 1 .. n : f[k] = k
  BY WindowIs
<1>2. t \in Seq(Nat) /\ Len(t) = n + m /\ \A k \in 1 .. n + m : t[k] = k
  <2> DEFINE l == n + m
  <2>1. l \in Nat
    OBVIOUS
  <2> HIDE DEF l
  <2>2. Frames(1, l + 1) \in Seq(Nat) /\ Len(Frames(1, l + 1)) = l
        /\ \A k \in 1 .. l : Frames(1, l + 1)[k] = k
    BY <2>1, WindowIs
  <2> QED BY <2>2 DEF l
<1>3. g \in [1 .. m -> Nat]
  OBVIOUS
<1>4. g \in Seq(Nat)
  BY <1>3, SeqDef
<1>5. Len(g) = m
  BY <1>3, <1>4, LenProperties
<1>6. \A k \in 1 .. m : g[k] = n + k
  OBVIOUS
<1> HIDE DEF f, g, t
<1>7. /\ s \in Seq(Nat) /\ Len(s) = Len(f) + Len(g)
      /\ \A k \in 1 .. Len(f) + Len(g) : s[k] = IF k <= Len(f) THEN f[k] ELSE g[k - Len(f)]
  BY <1>1, <1>4, ConcatProperties
<1> HIDE DEF s
<1>8. ASSUME NEW k \in 1 .. n + m PROVE s[k] = t[k]
  <2>1. s[k] = IF k <= n THEN f[k] ELSE g[k - n]
    BY <1>1, <1>5, <1>7
  <2>2. CASE k <= n
    BY <1>1, <1>2, <2>1, <2>2
  <2>3. CASE ~(k <= n)
    <3>1. k - n \in 1 .. m /\ n + (k - n) = k
      BY <2>3
    <3> QED BY <1>2, <1>6, <2>1, <2>3, <3>1
  <2> QED BY <2>2, <2>3
<1>9. Len(s) = n + m /\ Len(t) = n + m /\ t \in Seq(Nat)
  BY <1>1, <1>2, <1>5, <1>7
<1>10. \A k \in 1 .. Len(s) : s[k] = t[k]
  BY <1>8, <1>9
<1>11. s = t
  BY <1>7, <1>9, <1>10, SeqEqual
<1> QED BY <1>11 DEF f, g, s, t
-----------------------------------------------------------------------------
(* A judgement more.                                                       *)

\* What was judged before it stays as it was.
LEMMA JudgedStays ==
  ASSUME NEW j \in Seq(BOOLEAN), NEW x \in BOOLEAN, NEW a \in Nat \ {0},
         NEW b \in Int, b <= Len(j), NEW c \in Setting
  PROVE  LET k == Append(j, x)
         IN  /\ Voiced(k, a, b) = Voiced(j, a, b) /\ Unvoiced(k, a, b) = Unvoiced(j, a, b)
             /\ Tolerated(c, k, a, b) <=> Tolerated(c, j, a, b)
<1> DEFINE k == Append(j, x)
<1>1. Len(j) \in Nat /\ \A i \in 1 .. Len(j) : k[i] = j[i]
  BY AppendProperties
<1> HIDE DEF k
<1>2. c.gap \in Nat
  BY DEF Setting
<1>3. \A i \in a .. b : k[i] = j[i]
  BY <1>1
<1>4. ASSUME NEW i \in a .. b, i + c.gap <= b, NEW d \in i .. (i + c.gap) PROVE k[d] = j[d]
  BY <1>2, <1>3, <1>4
<1>5. Tolerated(c, k, a, b) <=> Tolerated(c, j, a, b)
  BY <1>4 DEF Tolerated
<1>6. Voiced(k, a, b) = Voiced(j, a, b) /\ Unvoiced(k, a, b) = Unvoiced(j, a, b)
  BY <1>3 DEF Voiced, Unvoiced
<1> QED BY <1>5, <1>6 DEF k

\* And the voiced frames are one more, if it is one.
LEMMA JudgedGrows ==
  ASSUME NEW j \in Seq(BOOLEAN), NEW x \in BOOLEAN, NEW a \in 1 .. Len(j) + 1
  PROVE  LET k == Append(j, x)
             n == Len(j) + 1
         IN  /\ k[n] => /\ Voiced(k, a, n) = Voiced(j, a, Len(j)) \cup {n}
                        /\ Cardinality(Voiced(k, a, n)) = Cardinality(Voiced(j, a, Len(j))) + 1
             /\ ~k[n] => Voiced(k, a, n) = Voiced(j, a, Len(j))
             /\ IsFiniteSet(Voiced(k, a, n)) /\ Cardinality(Voiced(k, a, n)) \in Nat
             /\ Cardinality(Voiced(j, a, Len(j))) \in Nat
<1> DEFINE k == Append(j, x)
           m == Len(j)
           n == m + 1
           V == Voiced(j, a, m)
           W == Voiced(k, a, n)
<1>1. m \in Nat /\ \A i \in 1 .. m : k[i] = j[i]
  BY AppendProperties
<1> HIDE DEF k, m
<1>2. \A i \in a .. n : i = n \/ i \in a .. m
  BY <1>1
<1>3. n \in a .. n /\ \A i \in a .. m : i \in a .. n /\ i # n /\ k[i] = j[i]
  BY <1>1 DEF m
<1>4. (k[n] => W = V \cup {n}) /\ (~k[n] => W = V)
  BY <1>2, <1>3 DEF Voiced
<1>5. n \notin V /\ V \in SUBSET (a .. m)
  BY <1>1 DEF Voiced
<1> HIDE DEF V, W
<1>6. a \in Int /\ m \in Int
  BY <1>1
<1>7. IsFiniteSet(V) /\ Cardinality(V) \in Nat
  BY <1>5, <1>6, FramesCount
<1>8. IsFiniteSet(V \cup {n}) /\ Cardinality(V \cup {n}) = Cardinality(V) + 1
  BY <1>5, <1>7, FS_AddElement
<1>9. IsFiniteSet(W) /\ Cardinality(W) \in Nat /\ (k[n] => Cardinality(W) = Cardinality(V) + 1)
  <2> HIDE DEF n
  <2>1. CASE W = V \cup {n}
    <3>1. Cardinality(W) = Cardinality(V) + 1
      BY <1>8, <2>1
    <3> QED BY <1>7, <1>8, <2>1, <3>1
  <2>2. CASE W = V /\ ~k[n]
    BY <1>7, <2>2
  <2> QED BY <1>4, <2>1, <2>2
<1> QED BY <1>4, <1>7, <1>9 DEF k, m, V, W
\* An utterance that is over stays as sound as it was.
LEMMA SoundStays ==
  ASSUME NEW c \in Setting, NEW j \in Seq(BOOLEAN), NEW x \in BOOLEAN, NEW s,
         s.onset \in Nat \ {0}, s.end \in Nat, s.end <= Len(j) + 1, Sound(c, j, s)
  PROVE  Sound(c, Append(j, x), s)
<1> DEFINE k == Append(j, x)
           O == s.onset .. (s.end - 1)
<1>1. Len(j) \in Nat
  OBVIOUS
<1>2. ASSUME NEW d \in O
      PROVE  Voiced(k, s.onset, d) = Voiced(j, s.onset, d)
             /\ Unvoiced(k, s.onset, d) = Unvoiced(j, s.onset, d)
  <2>1. d \in Int /\ d <= Len(j)
    BY <1>1
  <2> QED BY <2>1, JudgedStays
<1> HIDE DEF k
<1>3. Enough(c, k, s) = Enough(c, j, s)
  BY <1>2 DEF Enough
<1>4. Enough(c, j, s) \in SUBSET O /\ Enough(c, j, s) # {} /\ O \in SUBSET Nat
  BY DEF Enough, Sound
<1>5. Min(Enough(c, j, s)) \in O
  BY <1>4, HasLeast
<1>6. DipsOf(c, k, s) = DipsOf(c, j, s)
  BY <1>2, <1>3, <1>5 DEF DipsOf
<1>7. Sound(c, k, s)
  BY <1>3, <1>6 DEF Sound
<1> QED BY <1>7 DEF k

\* What is added behind leaves the least of a set what it was.
LEMMA LeastStays ==
  ASSUME NEW S \in SUBSET Nat, NEW T \in SUBSET Nat, S # {}, S \subseteq T,
         \A t \in T : t \in S \/ \A s \in S : s <= t
  PROVE  Min(T) = Min(S)
<1>1. Min(S) \in S /\ \A s \in S : Min(S) <= s
  BY HasLeast
<1>2. Min(T) \in T /\ \A t \in T : Min(T) <= t
  BY HasLeast
<1>3. Min(T) <= Min(S) /\ Min(S) <= Min(T)
  BY <1>1, <1>2
<1>4. Min(S) \in Nat /\ Min(T) \in Nat
  BY <1>1, <1>2
<1> QED BY <1>3, <1>4

\* One that hears a frame more is as sound with it.
LEMMA SoundGrows ==
  ASSUME NEW c \in Setting, NEW j \in Seq(BOOLEAN), NEW x \in BOOLEAN, NEW s, NEW t,
         s.onset \in 1 .. Len(j), s.from \in 1 .. Len(j), s.end = Len(j) + 1,
         t.onset = s.onset, t.from = s.from, t.base = s.base, t.end = s.end + 1,
         t.samples = Append(s.samples, s.end), Sound(c, j, s)
  PROVE  Sound(c, Append(j, x), t)
<1> DEFINE k == Append(j, x)
           O == s.onset .. Len(j)
           S == Enough(c, j, s)
           T == Enough(c, k, t)
<1>1. Len(j) \in Nat /\ s.end \in Nat /\ s.end - 1 = Len(j) /\ t.end - 1 = Len(j) + 1
  OBVIOUS
<1>2. ASSUME NEW d \in O
      PROVE  Voiced(k, s.onset, d) = Voiced(j, s.onset, d)
             /\ Unvoiced(k, s.onset, d) = Unvoiced(j, s.onset, d)
  <2>1. d \in Int /\ d <= Len(j) /\ s.onset \in Nat \ {0}
    BY <1>1
  <2> QED BY <2>1, JudgedStays
<1> HIDE DEF k
<1>3. S \in SUBSET O /\ S # {} /\ O \in SUBSET Nat
  BY <1>1 DEF Enough, Sound
<1>4. T \in SUBSET (s.onset .. Len(j) + 1) /\ T \in SUBSET Nat
  BY <1>1 DEF Enough
<1>5. S \subseteq T
  <2>1. \A d \in O : d \in s.onset .. Len(j) + 1
    BY <1>1
  <2> QED BY <1>1, <1>2, <2>1 DEF Enough
<1>6. \A d \in T : d \in O => d \in S
  BY <1>1, <1>2 DEF Enough
<1> HIDE DEF S, T
<1>7. \A d \in T : d \in S \/ \A e \in S : e <= d
  <2> SUFFICES ASSUME NEW d \in T, d \notin S, NEW e \in S PROVE e <= d
    OBVIOUS
  <2>1. d \notin O /\ d \in s.onset .. Len(j) + 1 /\ e \in O
    BY <1>3, <1>4, <1>6
  <2> QED BY <1>1, <2>1
<1>8. Min(T) = Min(S) /\ Min(S) \in O
  <2>1. Min(T) = Min(S)
    BY <1>3, <1>4, <1>5, <1>7, LeastStays
  <2>2. Min(S) \in S
    BY <1>3, HasLeast
  <2> QED BY <1>3, <2>1, <2>2
<1>9. DipsOf(c, k, t) = DipsOf(c, j, s)
  BY <1>2, <1>8 DEF DipsOf, S, T
<1>10. t.samples = Frames(t.from, t.end)
  <2>1. s.from \in Nat /\ s.from <= s.end
    BY <1>1
  <2>2. s.samples = Frames(s.from, s.end)
    BY DEF Sound
  <2> QED BY <1>1, <2>1, <2>2, FramesGrow
<1>11. T # {}
  BY <1>3, <1>5
<1>12. Sound(c, k, t)
  BY <1>9, <1>10, <1>11 DEF Sound, T
<1> QED BY <1>12 DEF k
-----------------------------------------------------------------------------
(* What a frame does.                                                      *)

\* Frame n is judged, and taken into the ring.
Judges(v, b, x) == x \in Detector /\ x.base = v.base /\ x.judged = Append(v.judged, b)

depth(c, v) == IF Len(v.ring) + 1 <= ringFrames(c) THEN Len(v.ring) + 1 ELSE ringFrames(c)

Rings(c, n, v, x) == Len(x.ring) = depth(c, v) /\ x.ring = Frames(n + 1 - depth(c, v), n + 1)

\* An utterance goes on,
Continues(c, n, v, b, x) ==
  /\ Rings(c, n, v, x) /\ x.inSpeech /\ x.out = v.out
  /\ x.onset = v.onset /\ x.from = v.from /\ x.samples = Append(v.samples, n)
  /\ x.silence = IF b THEN 0 ELSE v.silence + 1

\* or ends.
Ends(c, n, v, b, x) ==
  /\ Rings(c, n, v, x) /\ ~x.inSpeech /\ x.run = 0 /\ x.gap = 0
  /\ x.out = Append(v.out, [onset |-> v.onset, from |-> v.from, end |-> n + 1,
                            samples |-> Append(v.samples, n), base |-> v.base])
  /\ (IF b THEN 0 ELSE v.silence + 1) >= c.end \/ (n + 1) - v.onset >= c.max

begun(n, v) == IF v.run = 0 THEN n ELSE v.start

\* A voiced frame opens one,
Opens(c, n, v, b, x) ==
  /\ b /\ v.run + 1 >= c.start
  /\ x.ring = <<>> /\ x.inSpeech /\ x.out = v.out /\ x.silence = 0
  /\ x.onset = begun(n, v) /\ x.from = n + 1 - depth(c, v)
  /\ x.samples = Frames(n + 1 - depth(c, v), n + 1)

\* or is counted;
Runs(c, n, v, b, x) ==
  /\ b /\ v.run + 1 < c.start
  /\ Rings(c, n, v, x) /\ ~x.inSpeech /\ x.out = v.out
  /\ x.run = v.run + 1 /\ x.gap = 0 /\ x.start = begun(n, v)

\* another pauses the run, or discards it.
Waits(c, n, v, b, x) ==
  /\ ~b /\ Rings(c, n, v, x) /\ ~x.inSpeech /\ x.out = v.out
  /\ \/ v.run = 0 /\ x.run = 0 /\ x.gap = v.gap
     \/ v.run # 0 /\ v.gap + 1 > c.gap /\ x.run = 0 /\ x.gap = 0
     \/ v.run # 0 /\ v.gap + 1 <= c.gap /\ x.run = v.run /\ x.gap = v.gap + 1
                  /\ x.start = v.start

\* The ring takes the frame, and lets go of the oldest if it is full.
LEMMA RingTakes ==
  ASSUME NEW c \in Setting, NEW n \in Nat, NEW r \in Seq(Nat), Len(r) <= n,
         r = Frames(n + 1 - Len(r), n + 1)
  PROVE  LET l == IF Len(r) + 1 <= ringFrames(c) THEN Len(r) + 1 ELSE ringFrames(c)
             s == Append(r, n + 1)
             q == SubSeq(s, Len(s) + 1 - Min({Len(s), ringFrames(c)}), Len(s))
         IN  /\ l \in 1 .. n + 1 /\ q \in Seq(Nat) /\ Len(q) = l /\ Len(q) - 1 = l - 1
             /\ q = Frames((n + 1) + 1 - l, (n + 1) + 1)
<1> DEFINE R == ringFrames(c)
           L == Len(r)
           l == IF L + 1 <= R THEN L + 1 ELSE R
           s == Append(r, n + 1)
           a == n + 1 - L
           b == n + 2
           m == L + 2 - l
           p == L + 1
<1>1. R \in Nat \ {0} /\ L \in Nat
  BY RingIsDeep
<1> HIDE DEF R, L
<1>2. a \in Nat /\ b \in Nat /\ n + 1 \in Nat /\ a <= n + 1 /\ a <= b /\ b - a = L + 1
      /\ l \in 1 .. L + 1 /\ l \in 1 .. n + 1 /\ (n + 1) + 1 = b
  BY <1>1 DEF L
<1>3. s = Frames(a, b)
  <2> HIDE DEF a, b
  <2>1. r = Frames(a, n + 1)
    BY DEF a, L
  <2>2. Append(Frames(a, n + 1), n + 1) = Frames(a, (n + 1) + 1)
    BY <1>2, FramesGrow
  <2> QED BY <1>2, <2>1, <2>2
<1>4. Len(s) = L + 1
  <2> HIDE DEF a, b, s
  <2>1. Len(Frames(a, b)) = b - a
    BY <1>2, FramesAre
  <2> QED BY <1>2, <1>3, <2>1
<1>5. Min({Len(s), R}) = l
  BY <1>1, <1>4, OfTwo
<1> HIDE DEF s, l
<1>6. m \in 1 .. b - a + 1 /\ p \in m - 1 .. b - a /\ m = (L + 1) + 1 - l
      /\ a + m - 1 = b - l /\ a + p = b
  BY <1>1, <1>2
<1> HIDE DEF a, b, m, p
<1>7. SubSeq(Frames(a, b), m, p) = Frames(b - l, b)
  <2>1. a \in Nat /\ b \in Nat /\ a <= b /\ m \in 1 .. b - a + 1 /\ p \in m - 1 .. b - a
    BY <1>2, <1>6
  <2>2. SubSeq(Frames(a, b), m, p) = Frames(a + m - 1, a + p)
    BY <2>1, FramesCut
  <2> QED BY <1>6, <2>2
<1>8. SubSeq(s, Len(s) + 1 - Min({Len(s), R}), Len(s)) = Frames(b - l, b)
  BY <1>3, <1>4, <1>5, <1>6, <1>7 DEF p
<1>9. Frames(b - l, b) \in Seq(Nat) /\ Len(Frames(b - l, b)) = l
  <2> DEFINE d == b - l
  <2>1. d \in Nat /\ d <= b /\ b - d = l
    BY <1>2 DEF b
  <2> HIDE DEF d
  <2>2. Frames(d, b) \in Seq(Nat) /\ Len(Frames(d, b)) = l
    BY <1>2, <2>1, FramesAre
  <2> QED BY <2>2 DEF d
<1> DEFINE q == SubSeq(s, Len(s) + 1 - Min({Len(s), R}), Len(s))
<1>10. /\ q \in Seq(Nat) /\ Len(q) = l /\ Len(q) - 1 = l - 1
       /\ q = Frames((n + 1) + 1 - l, (n + 1) + 1)
  <2>1. q = Frames(b - l, b)
    BY <1>8
  <2> HIDE DEF q
  <2>2. (n + 1) + 1 - l = b - l /\ (n + 1) + 1 = b
    BY <1>2
  <2>3. q \in Seq(Nat) /\ Len(q) = l
    BY <1>9, <2>1
  <2>4. q = Frames((n + 1) + 1 - l, (n + 1) + 1)
    BY <2>1, <2>2, Zenon
  <2> QED BY <2>3, <2>4
<1>11. l \in 1 .. n + 1
  BY <1>2
<1> QED BY <1>10, <1>11 DEF R, L, l, s, q

\* A frame does one of these.
LEMMA FrameDoes ==
  ASSUME NEW c \in Setting, NEW h, NEW n \in Nat, h \in Seq(Levels), Len(h) = n + 1,
         NEW v \in Detector, Len(v.ring) <= n, v.ring = Frames(n + 1 - Len(v.ring), n + 1)
  PROVE  \E b \in BOOLEAN : LET x == processFrame(c, h, v) IN
           /\ b => h[n + 1] >= c.energy
           /\ Judges(v, b, x)
           /\ v.inSpeech => Continues(c, n + 1, v, b, x) \/ Ends(c, n + 1, v, b, x)
           /\ ~v.inSpeech => \/ Opens(c, n + 1, v, b, x) \/ Runs(c, n + 1, v, b, x)
                             \/ Waits(c, n + 1, v, b, x)
<1> DEFINE N == n + 1
           b == IsVoiced(c, h, v)
           s == Append(v.ring, N)
           q == SubSeq(s, Len(s) + 1 - Min({Len(s), ringFrames(c)}), Len(s))
           l == depth(c, v)
           w == [v EXCEPT !.judged = Append(@, b), !.ring = q]
           x == processFrame(c, h, v)
<1>1. b \in BOOLEAN /\ (b => h[N] >= c.energy)
  <2> HIDE DEF N
  <2>1. b <=> /\ h[N] >= c.energy
              /\ c.adaptive =>
                   5*h[N] >= 8*Ambient(h, Max({v.base + 1, (N + 1) - Min({NoiseFrames, N})}) .. N)
    BY DEF IsVoiced, N
  <2>2. b \in BOOLEAN
    BY DEF IsVoiced
  <2> QED BY <2>1, <2>2
<1>2. v.ring \in Seq(Nat) /\ v.judged \in Seq(BOOLEAN)
  BY DEF Detector
<1>3. l \in 1 .. N /\ q \in Seq(Nat) /\ Len(q) = l /\ q = Frames(N + 1 - l, N + 1)
  BY <1>2, RingTakes DEF depth
<1>4. x = IF w.inSpeech THEN extendUtterance(c, w, N, b)
          ELSE IF b THEN extendRun(c, w, N) ELSE pauseRun(c, w)
  BY DEF processFrame
<1>5. N \in Nat /\ N + 1 \in Nat /\ N + 1 - l \in Nat /\ N - (Len(q) - 1) = N + 1 - l
  <2> DEFINE L == Len(q)
  <2>1. L = l /\ l \in 1 .. N /\ N \in Nat
    <3> HIDE DEF q, l
    <3> QED BY <1>3
  <2> HIDE DEF l, L, N
  <2>2. N + 1 \in Nat /\ N + 1 - l \in Nat /\ N - (L - 1) = N + 1 - l
    BY <2>1
  <2> QED BY <2>1, <2>2 DEF L
<1> HIDE DEF b, q, s, l, N, x
<1>6. Append(v.judged, b) \in Seq(BOOLEAN)
  BY <1>1, <1>2
<1>7. /\ w \in Detector /\ w.judged = Append(v.judged, b) /\ w.ring = q
      /\ w.base = v.base /\ w.run = v.run /\ w.gap = v.gap /\ w.start = v.start
      /\ w.inSpeech = v.inSpeech /\ w.onset = v.onset /\ w.from = v.from
      /\ w.samples = v.samples /\ w.silence = v.silence /\ w.out = v.out
  BY <1>3, <1>6 DEF Detector
<1> HIDE DEF w
<1>8. /\ v.run \in Nat /\ v.gap \in Nat /\ v.start \in Nat /\ v.silence \in Nat
      /\ v.inSpeech \in BOOLEAN /\ v.onset \in Nat /\ v.from \in Nat /\ v.base \in Nat
      /\ v.samples \in Seq(Nat) /\ v.out \in Seq(Segment)
  BY DEF Detector
<1>9. c.start \in Nat /\ c.end \in Nat /\ c.max \in Nat /\ c.gap \in Nat
  BY DEF Setting
<1>10. CASE v.inSpeech
  <2> DEFINE a == Append(v.samples, N)
             d == IF b THEN 0 ELSE v.silence + 1
             u == [w EXCEPT !.samples = a, !.silence = d]
             g == [onset |-> v.onset, from |-> v.from, end |-> N + 1, samples |-> a,
                   base |-> v.base]
             o == Append(v.out, g)
  <2>1. a \in Seq(Nat) /\ d \in Nat
    <3>1. a \in Seq(Nat)
      BY <1>5, <1>8
    <3>2. d \in Nat
      <4> DEFINE z == v.silence
      <4>1. z \in Nat
        BY <1>8
      <4> HIDE DEF z
      <4>2. (IF b THEN 0 ELSE z + 1) \in Nat
        BY <4>1
      <4> QED BY <4>2 DEF z
    <3> HIDE DEF a, d
    <3> QED BY <3>1, <3>2
  <2>2. x = IF u.silence >= c.end \/ (N + 1) - u.onset >= c.max THEN emit(u, N + 1) ELSE u
    BY <1>4, <1>7, <1>10 DEF extendUtterance
  <2>3. g \in Segment
    BY <1>5, <1>8, <2>1 DEF Segment
  <2> HIDE DEF a, d, g
  <2>4. o \in Seq(Segment)
    BY <1>8, <2>3
  <2> HIDE DEF o
  <2>5. /\ u \in Detector /\ u.judged = w.judged /\ u.ring = q /\ u.base = v.base
        /\ u.inSpeech = v.inSpeech /\ u.onset = v.onset /\ u.from = v.from
        /\ u.samples = a /\ u.silence = d /\ u.out = v.out
    BY <1>7, <2>1 DEF Detector
  <2> HIDE DEF u
  <2>6. CASE d >= c.end \/ (N + 1) - v.onset >= c.max
    <3> DEFINE e == [u EXCEPT !.out = o, !.inSpeech = FALSE, !.run = 0, !.gap = 0,
                              !.silence = 0, !.samples = <<>>]
    <3>1. x = e
      BY <2>2, <2>5, <2>6 DEF emit, o, g
    <3>2. <<>> \in Seq(Nat)
      OBVIOUS
    <3>3. /\ e \in Detector /\ e.judged = w.judged /\ e.ring = q /\ e.base = v.base
          /\ ~e.inSpeech /\ e.run = 0 /\ e.gap = 0 /\ e.out = o
      BY <2>4, <2>5, <3>2 DEF Detector
    <3> HIDE DEF e
    <3>4. Judges(v, b, x) /\ Rings(c, N, v, x)
      BY <1>3, <1>7, <3>1, <3>3 DEF Judges, Rings, l
    <3>5. Ends(c, N, v, b, x)
      BY <2>6, <3>1, <3>3, <3>4 DEF Ends, o, g, a, d
    <3> QED BY <1>1, <1>10, <3>4, <3>5 DEF N, x
  <2>7. CASE ~(d >= c.end \/ (N + 1) - v.onset >= c.max)
    <3>1. x = u
      BY <2>2, <2>5, <2>7
    <3>2. Judges(v, b, x) /\ Rings(c, N, v, x)
      BY <1>3, <1>7, <2>5, <3>1 DEF Judges, Rings, l
    <3>3. Continues(c, N, v, b, x)
      BY <1>10, <2>5, <3>1, <3>2 DEF Continues, a, d
    <3> QED BY <1>1, <1>10, <3>2, <3>3 DEF N, x
  <2> QED BY <2>6, <2>7
<1>11. CASE ~v.inSpeech /\ b
  <2> DEFINE t == begun(N, v)
             r == v.run + 1
             u == [w EXCEPT !.start = t, !.run = r, !.gap = 0]
  <2>1. t \in Nat /\ r \in Nat
    <3>1. t \in Nat
      BY <1>5, <1>8 DEF begun
    <3>2. r \in Nat
      <4> DEFINE k == v.run
      <4>1. k \in Nat
        BY <1>8
      <4> HIDE DEF k
      <4>2. k + 1 \in Nat
        BY <4>1
      <4> QED BY <4>2 DEF k
    <3> HIDE DEF t, r
    <3> QED BY <3>1, <3>2
  <2>2. x = IF u.run >= c.start THEN declareOnset(u, N) ELSE u
    BY <1>4, <1>7, <1>11 DEF extendRun, begun
  <2> HIDE DEF t, r
  <2>3. /\ u \in Detector /\ u.judged = w.judged /\ u.ring = q /\ u.base = v.base
        /\ ~u.inSpeech /\ u.start = t /\ u.run = r /\ u.gap = 0 /\ u.out = v.out
    BY <1>7, <1>11, <2>1 DEF Detector
  <2> HIDE DEF u
  <2>4. CASE r >= c.start
    <3> DEFINE f == N + 1 - l
               e == [u EXCEPT !.inSpeech = TRUE, !.onset = t, !.silence = 0, !.from = f,
                              !.samples = q, !.ring = <<>>]
    <3>1. x = e
      BY <1>5, <2>2, <2>3, <2>4 DEF declareOnset
    <3>2. <<>> \in Seq(Nat) /\ f \in Nat
      BY <1>5
    <3> HIDE DEF f
    <3>3. /\ e \in Detector /\ e.judged = w.judged /\ e.ring = <<>> /\ e.base = v.base
          /\ e.inSpeech /\ e.silence = 0 /\ e.onset = t /\ e.from = f /\ e.samples = q
          /\ e.out = v.out
      <4>1. u \in Detector /\ q \in Seq(Nat)
        BY <1>3, <2>3
      <4>2. e \in Detector
        BY <2>1, <3>2, <4>1 DEF Detector
      <4>3. /\ e.judged = u.judged /\ e.ring = <<>> /\ e.base = u.base /\ e.inSpeech = TRUE
            /\ e.silence = 0 /\ e.onset = t /\ e.from = f /\ e.samples = q /\ e.out = u.out
        BY <4>1 DEF Detector
      <4> HIDE DEF e
      <4> QED BY <2>3, <4>2, <4>3
    <3> HIDE DEF e
    <3>4. Judges(v, b, x)
      BY <1>7, <3>1, <3>3 DEF Judges
    <3>5. Opens(c, N, v, b, x)
      BY <1>3, <1>11, <2>4, <3>1, <3>3 DEF Opens, l, t, r, f
    <3> QED BY <1>1, <1>11, <3>4, <3>5 DEF N, x
  <2>5. CASE ~(r >= c.start)
    <3>1. x = u
      BY <2>2, <2>3, <2>5
    <3>2. Judges(v, b, x) /\ Rings(c, N, v, x)
      BY <1>3, <1>7, <2>3, <3>1 DEF Judges, Rings, l
    <3>3. r < c.start
      BY <1>9, <2>1, <2>5
    <3>4. Runs(c, N, v, b, x)
      BY <1>11, <2>3, <3>1, <3>2, <3>3 DEF Runs, t, r
    <3> QED BY <1>1, <1>11, <3>2, <3>4 DEF N, x
  <2> QED BY <2>4, <2>5
<1>12. CASE ~v.inSpeech /\ ~b
  <2>1. x = pauseRun(c, w)
    BY <1>4, <1>7, <1>12
  <2>2. ASSUME x \in Detector, x.judged = w.judged, x.ring = q, x.base = v.base,
               ~x.inSpeech, x.out = v.out,
               \/ v.run = 0 /\ x.run = 0 /\ x.gap = v.gap
               \/ v.run # 0 /\ v.gap + 1 > c.gap /\ x.run = 0 /\ x.gap = 0
               \/ v.run # 0 /\ v.gap + 1 <= c.gap /\ x.run = v.run /\ x.gap = v.gap + 1
                            /\ x.start = v.start
        PROVE  Judges(v, b, x) /\ Waits(c, N, v, b, x)
    <3>1. Judges(v, b, x) /\ Rings(c, N, v, x)
      BY <1>3, <1>7, <2>2 DEF Judges, Rings, l
    <3> QED BY <1>12, <2>2, <3>1 DEF Waits
  <2>3. CASE v.run = 0
    <3>1. x = w
      BY <1>7, <2>1, <2>3 DEF pauseRun
    <3>2. Judges(v, b, x) /\ Waits(c, N, v, b, x)
      BY <1>7, <1>12, <2>2, <2>3, <3>1
    <3> QED BY <1>1, <1>12, <3>2 DEF N, x
  <2>4. CASE v.run # 0 /\ v.gap + 1 > c.gap
    <3> DEFINE e == [w EXCEPT !.run = 0, !.gap = 0]
    <3>1. x = e
      BY <1>7, <2>1, <2>4 DEF pauseRun
    <3>2. /\ e \in Detector /\ e.judged = w.judged /\ e.ring = q /\ e.base = v.base
          /\ ~e.inSpeech /\ e.run = 0 /\ e.gap = 0 /\ e.out = v.out
      BY <1>7, <1>12 DEF Detector
    <3> HIDE DEF e
    <3>3. Judges(v, b, x) /\ Waits(c, N, v, b, x)
      BY <2>2, <2>4, <3>1, <3>2
    <3> QED BY <1>1, <1>12, <3>3 DEF N, x
  <2>5. CASE v.run # 0 /\ ~(v.gap + 1 > c.gap)
    <3> DEFINE g == v.gap + 1
               e == [w EXCEPT !.gap = g]
    <3>1. x = e
      BY <1>7, <2>1, <2>5 DEF pauseRun
    <3>2. g \in Nat /\ g <= c.gap
      <4> HIDE DEF e
      <4>1. v.gap \in Nat /\ c.gap \in Nat /\ ~(g > c.gap)
        BY <1>8, <1>9, <2>5
      <4> QED BY <4>1
    <3> HIDE DEF g
    <3>3. /\ e \in Detector /\ e.judged = w.judged /\ e.ring = q /\ e.base = v.base
          /\ ~e.inSpeech /\ e.run = v.run /\ e.gap = g /\ e.start = v.start
          /\ e.out = v.out
      BY <1>7, <1>12, <3>2 DEF Detector
    <3> HIDE DEF e
    <3>4. Judges(v, b, x) /\ Waits(c, N, v, b, x)
      BY <2>2, <2>5, <3>1, <3>2, <3>3 DEF g
    <3> QED BY <1>1, <1>12, <3>4 DEF N, x
  <2> QED BY <2>3, <2>4, <2>5
<1>13. v.inSpeech \in BOOLEAN /\ b \in BOOLEAN
  BY <1>1, <1>8
<1> QED BY <1>10, <1>11, <1>12, <1>13
-----------------------------------------------------------------------------
(* A frame leaves the detector steady.                                     *)

\* A frame more is heard, and judged.
Hears(c, h, g, v, b, x) ==
  /\ c \in Setting /\ h \in Seq(Levels) /\ g \in Seq(Levels) /\ Len(g) = Len(h) + 1
  /\ v \in Detector /\ b \in BOOLEAN /\ Judges(v, b, x)
  /\ \A i \in 1 .. Len(h) : g[i] = h[i]
  /\ b => g[Len(h) + 1] >= c.energy

\* The numbers of a setting and of a detector.
LEMMA OfDetector ==
  ASSUME NEW v \in Detector
  PROVE  /\ v.base \in Nat /\ v.ring \in Seq(Nat) /\ v.run \in Nat /\ v.gap \in Nat
         /\ v.start \in Nat /\ v.inSpeech \in BOOLEAN /\ v.onset \in Nat /\ v.from \in Nat
         /\ v.samples \in Seq(Nat) /\ v.silence \in Nat /\ v.out \in Seq(Segment)
         /\ v.judged \in Seq(BOOLEAN) /\ Len(v.ring) \in Nat
BY DEF Detector

\* What a configuration may be.
LEMMA OfSetting ==
  ASSUME NEW c \in Setting
  PROVE  /\ c.energy \in Nat /\ c.start \in Nat /\ c.end \in Nat \ {0} /\ c.max \in Nat \ {0}
         /\ c.preRoll \in Nat /\ c.gap \in Nat /\ c.presence \in Nat /\ c.backpad \in Nat
         /\ LongestOnset(c) = c.start + (c.start - 1) * c.gap /\ LongestOnset(c) \in Int
<1>1. /\ c.energy \in Nat /\ c.start \in Nat /\ c.end \in Nat \ {0} /\ c.max \in Nat \ {0}
      /\ c.preRoll \in Nat /\ c.gap \in Nat /\ c.presence \in Nat /\ c.backpad \in Nat
  BY DEF Setting
<1>2. (c.start - 1) * c.gap \in Int
  BY <1>1, OneMoreDip
<1> QED BY <1>1, <1>2 DEF LongestOnset

\* What an utterance is made of.
LEMMA OfSegments ==
  ASSUME NEW v \in Detector, NEW s \in Range(v.out)
  PROVE  s \in Segment /\ s.onset \in Nat /\ s.from \in Nat /\ s.end \in Nat /\ s.base \in Nat
<1>1. v.out \in Seq(Segment)
  BY OfDetector
<1>2. s \in Segment
  BY <1>1, ElementOfSeq, LenProperties DEF Range
<1> QED BY <1>2 DEF Segment

\* The judgements go with the frames.
LEMMA JudgedKept ==
  ASSUME NEW c, NEW h, NEW g, NEW v, NEW b, NEW x, Hears(c, h, g, v, b, x), HasJudged(c, h, v)
  PROVE  /\ HasJudged(c, g, x) /\ Len(x.judged) = Len(v.judged) + 1 /\ Len(v.judged) = Len(h)
         /\ (x.judged[Len(h) + 1] <=> b) /\ \A i \in 1 .. Len(h) : x.judged[i] = v.judged[i]
<1>1. v.judged \in Seq(BOOLEAN) /\ v.base \in Nat /\ b \in BOOLEAN
  BY OfDetector DEF Hears
<1>2. /\ Len(x.judged) = Len(v.judged) + 1 /\ x.judged[Len(v.judged) + 1] = b
      /\ \A i \in 1 .. Len(v.judged) : x.judged[i] = v.judged[i]
  BY <1>1, AppendProperties DEF Hears, Judges
<1>3. /\ Len(v.judged) = Len(h) /\ v.base <= Len(h) /\ Len(g) = Len(h) + 1 /\ x.base = v.base
      /\ \A i \in 1 .. Len(h) : v.judged[i] => h[i] >= c.energy
  BY DEF HasJudged, Hears, Judges
<1>4. Len(h) \in Nat
  BY DEF Hears
<1>5. ASSUME NEW i \in 1 .. Len(g), x.judged[i] PROVE g[i] >= c.energy
  <2>1. CASE i = Len(h) + 1
    BY <1>2, <1>3, <1>5, <2>1 DEF Hears
  <2>2. CASE i # Len(h) + 1
    <3>1. i \in 1 .. Len(h)
      BY <1>3, <1>4, <2>2
    <3> QED BY <1>2, <1>3, <1>5, <3>1 DEF Hears
  <2> QED BY <2>1, <2>2
<1>6. HasJudged(c, g, x)
  BY <1>2, <1>3, <1>4, <1>5, <1>1 DEF HasJudged
<1> QED BY <1>2, <1>3, <1>6

\* No frames make an empty stretch.
LEMMA NoFrames ==
  ASSUME NEW a \in Nat
  PROVE  <<>> = Frames(a, a) /\ Len(<<>>) = 0 /\ <<>> \in Seq(Nat)
<1>1. Frames(a, a) \in Seq(Nat) /\ Len(Frames(a, a)) = a - a
  BY FramesAre
<1>2. a - a = 0
  OBVIOUS
<1>3. Frames(a, a) = <<>>
  BY <1>1, <1>2, EmptySeq
<1> QED BY <1>3

\* The ring holds the latest frames, the new one with them.
LEMMA RingKept ==
  ASSUME NEW c, NEW h, NEW g, NEW v, NEW b, NEW x, Hears(c, h, g, v, b, x),
         HasJudged(c, h, v), HoldsLatest(c, h, v), Rings(c, Len(h) + 1, v, x)
  PROVE  /\ HoldsLatest(c, g, x) /\ Len(x.ring) = depth(c, v)
         /\ depth(c, v) \in 1 .. Len(h) + 1 - v.base
<1> DEFINE n == Len(h)
           l == Len(v.ring)
           d == depth(c, v)
<1>1. n \in Nat /\ l \in Nat /\ v.base \in Nat /\ v.base <= n /\ x.base = v.base /\ Len(g) = n + 1
  BY OfDetector DEF Hears, HasJudged, Judges
<1>2. l <= n - v.base /\ l <= ringFrames(c) /\ ringFrames(c) \in Nat \ {0}
  BY RingIsDeep DEF HoldsLatest, Hears
<1>3. d = IF l + 1 <= ringFrames(c) THEN l + 1 ELSE ringFrames(c)
  BY DEF depth
<1>4. Len(x.ring) = d /\ x.ring = Frames((n + 1) + 1 - d, (n + 1) + 1)
  BY DEF Rings
<1> HIDE DEF n, l, d
<1>5. d \in 1 .. n + 1 - v.base /\ d <= ringFrames(c) /\ d <= (n + 1) - v.base
  BY <1>1, <1>2, <1>3
<1>6. HoldsLatest(c, g, x)
  <2>1. x.ring = Frames(Len(g) + 1 - Len(x.ring), Len(g) + 1)
    BY <1>1, <1>4, Zenon DEF n
  <2>2. Len(x.ring) <= Len(g) - x.base /\ Len(x.ring) <= ringFrames(c)
    BY <1>1, <1>4, <1>5
  <2> QED BY <2>1, <2>2 DEF HoldsLatest
<1> QED BY <1>4, <1>5, <1>6 DEF n, d

\* An utterance that goes on fills the ring as fast as it grows, and so does silence in it.
LEMMA ReachGoesOn ==
  ASSUME NEW c, NEW h, NEW g, NEW v, NEW b, NEW x, Hears(c, h, g, v, b, x),
         HasJudged(c, h, v), HoldsLatest(c, h, v), ReachesBack(c, h, v),
         v.inSpeech, v.onset <= Len(h), Continues(c, Len(h) + 1, v, b, x)
  PROVE  ReachesBack(c, g, x)
<1> DEFINE n == Len(h)
           l == Len(v.ring)
           d == Len(x.ring)
           R == ringFrames(c)
<1>1. n \in Nat /\ l \in Nat /\ Len(g) = n + 1 /\ R \in Nat /\ v.onset \in Nat /\ v.silence \in Nat
      /\ LongestOnset(c) \in Int /\ b \in BOOLEAN
  BY OfDetector, OfSetting, RingIsDeep DEF Hears
<1>2. d = IF l + 1 <= R THEN l + 1 ELSE R
  BY DEF Continues, Rings, depth
<1>3. x.inSpeech /\ x.onset = v.onset /\ x.silence = IF b THEN 0 ELSE v.silence + 1
  BY DEF Continues
<1>4. l <= R
  BY DEF HoldsLatest
<1>5. l = R \/ (l >= v.silence /\ l + LongestOnset(c) >= n + 1 - v.onset)
  BY DEF ReachesBack
<1> HIDE DEF n, l, d, R
<1>6. d = R \/ (d >= x.silence /\ d + LongestOnset(c) >= (n + 1) + 1 - x.onset)
  <2> DEFINE o == v.onset
             z == v.silence
             y == x.silence
             M == LongestOnset(c)
  <2>1. /\ o \in Int /\ z \in Nat /\ M \in Int /\ (y = 0 \/ y = z + 1)
        /\ x.onset = o /\ (l = R \/ (l >= z /\ l + M >= n + 1 - o))
    BY <1>1, <1>3, <1>5
  <2> HIDE DEF o, z, y, M
  <2>2. CASE d = R
    BY <2>2
  <2>3. CASE d # R
    <3>1. d = l + 1 /\ l # R
      BY <1>1, <1>2, <1>4, <2>3
    <3>2. d >= y /\ d + M >= (n + 1) + 1 - o
      BY <1>1, <2>1, <3>1
    <3> QED BY <2>1, <3>2 DEF y, M
  <2> QED BY <2>2, <2>3
<1> QED BY <1>1, <1>3, <1>6 DEF ReachesBack, d, R

\* When it is over, the ring reaches back over the back-pad, or is full.
LEMMA ReachEnds ==
  ASSUME NEW c, NEW h, NEW g, NEW v, NEW b, NEW x, Hears(c, h, g, v, b, x), Proportioned(c),
         HasJudged(c, h, v), HoldsLatest(c, h, v), ReachesBack(c, h, v),
         v.inSpeech, v.onset <= Len(h), Ends(c, Len(h) + 1, v, b, x)
  PROVE  ReachesBack(c, g, x)
<1> DEFINE n == Len(h)
           l == Len(v.ring)
           d == Len(x.ring)
           R == ringFrames(c)
           s == x.out[Len(x.out)]
<1>1. /\ n \in Nat /\ l \in Nat /\ Len(g) = n + 1 /\ R \in Nat /\ v.onset \in Nat
      /\ v.silence \in Nat /\ LongestOnset(c) \in Int /\ b \in BOOLEAN /\ c.backpad \in Nat
      /\ c.end \in Nat \ {0} /\ c.max \in Nat
  BY OfDetector, OfSetting, RingIsDeep DEF Hears
<1>2. d = IF l + 1 <= R THEN l + 1 ELSE R
  BY DEF Ends, Rings, depth
<1>3. ~x.inSpeech /\ (v.silence + 1 >= c.end \/ ((n + 1) + 1) - v.onset >= c.max)
  <2>1. ~x.inSpeech /\ ((IF b THEN 0 ELSE v.silence + 1) >= c.end
                        \/ ((n + 1) + 1) - v.onset >= c.max)
    BY Zenon DEF Ends
  <2> HIDE DEF n, l, d, R, s
  <2>2. CASE ((n + 1) + 1) - v.onset >= c.max
    BY <2>1, <2>2, Zenon
  <2>3. CASE (IF b THEN 0 ELSE v.silence + 1) >= c.end
    <3> DEFINE z == v.silence
               e == c.end
    <3>1. z \in Nat /\ e \in Nat \ {0} /\ (0 >= e \/ z + 1 >= e)
      BY <1>1, <2>3
    <3> HIDE DEF z, e
    <3>2. z + 1 >= e
      BY <3>1
    <3> QED BY <2>1, <3>2, Zenon DEF z, e
  <2> QED BY <2>1, <2>2, <2>3, Zenon
<1>4. l <= R
  BY DEF HoldsLatest
<1>5. l = R \/ (l >= v.silence /\ l + LongestOnset(c) >= n + 1 - v.onset)
  BY DEF ReachesBack
<1>6. c.backpad <= c.end /\ LongestOnset(c) + c.backpad <= c.max
  BY DEF Proportioned
<1>7. s \in Range(x.out) /\ s.end = (n + 1) + 1
  <2> DEFINE t == [onset |-> v.onset, from |-> v.from, end |-> (n + 1) + 1,
                   samples |-> Append(v.samples, n + 1), base |-> v.base]
  <2>1. x.out = Append(v.out, t) /\ t.end = (n + 1) + 1
    BY DEF Ends
  <2> HIDE DEF t
  <2>2. v.out \in Seq(Segment) /\ x.out \in Seq(Segment)
    BY OfDetector DEF Hears, Judges
  <2>3. Len(x.out) = Len(v.out) + 1 /\ s = t /\ Len(v.out) \in Nat
    BY <2>1, <2>2
  <2> QED BY <2>1, <2>2, <2>3 DEF Range
<1> HIDE DEF n, l, d, R, s
<1>8. d = R \/ ((n + 1) + 1 - d) + c.backpad <= s.end
  <2>1. CASE l = R \/ R < l + 1
    BY <1>1, <1>2, <1>4, <2>1
  <2>2. CASE l # R /\ l + 1 <= R
    <3>1. d = l + 1
      BY <1>2, <2>2
    <3>2. l >= v.silence /\ l + LongestOnset(c) >= n + 1 - v.onset
      BY <1>5, <2>2
    <3>3. l + 1 >= c.backpad
      <4>1. CASE v.silence + 1 >= c.end
        <5> DEFINE z == v.silence
                   e == c.end
                   k == c.backpad
        <5>1. z \in Nat /\ e \in Nat /\ k \in Nat /\ z + 1 >= e /\ k <= e
              /\ l >= z /\ l \in Nat
          BY <1>1, <1>6, <3>2, <4>1
        <5> HIDE DEF z, e, k
        <5>2. l + 1 >= k
          BY <5>1
        <5> QED BY <5>2 DEF k
      <4>2. CASE ((n + 1) + 1) - v.onset >= c.max
        <5>1. \A p, q, r, o, m, k \in Int :
                p + r >= q + 1 - o /\ ((q + 1) + 1) - o >= m /\ r + k <= m => p + 1 >= k
          OBVIOUS
        <5>2. /\ l \in Int /\ n \in Int /\ LongestOnset(c) \in Int /\ v.onset \in Int
              /\ c.max \in Int /\ c.backpad \in Int
          BY <1>1
        <5> QED BY <1>6, <3>2, <4>2, <5>1, <5>2
      <4> QED BY <1>3, <4>1, <4>2
    <3> QED BY <1>1, <1>7, <3>1, <3>3
  <2> QED BY <1>1, <2>1, <2>2
<1> QED BY <1>1, <1>3, <1>7, <1>8 DEF ReachesBack, d, R

\* Between utterances it reaches as far back as before, until it is full.
LEMMA ReachListens ==
  ASSUME NEW c, NEW h, NEW g, NEW v, NEW b, NEW x, Hears(c, h, g, v, b, x),
         HasJudged(c, h, v), HoldsLatest(c, h, v), ReachesBack(c, h, v),
         ~v.inSpeech, ~x.inSpeech, x.out = v.out, Rings(c, Len(h) + 1, v, x)
  PROVE  ReachesBack(c, g, x)
<1> DEFINE n == Len(h)
           l == Len(v.ring)
           d == Len(x.ring)
           R == ringFrames(c)
<1>1. /\ n \in Nat /\ l \in Nat /\ Len(g) = n + 1 /\ R \in Nat /\ c.backpad \in Nat
      /\ v.base \in Nat /\ x.base = v.base
  BY OfDetector, OfSetting, RingIsDeep DEF Hears, Judges
<1>2. d = IF l + 1 <= R THEN l + 1 ELSE R
  BY DEF Rings, depth
<1>3. l <= R
  BY DEF HoldsLatest
<1>4. l = R \/ l = n - v.base \/ \E s \in Range(v.out) : n + 1 - l + c.backpad <= s.end
  BY DEF ReachesBack
<1> HIDE DEF n, l, d, R
<1>5. d = R \/ (d = l + 1 /\ n + 1 - l = (n + 1) + 1 - d /\ l # R)
  BY <1>1, <1>2, <1>3
<1>6. CASE d = R
  BY <1>6 DEF ReachesBack, d, R
<1>7. CASE d = l + 1 /\ n + 1 - l = (n + 1) + 1 - d /\ l = n - v.base
  <2>1. l + 1 = (n + 1) - v.base
    <3>1. l \in Int /\ n \in Int /\ v.base \in Int
      BY <1>1
    <3>2. l = n - v.base
      BY <1>7
    <3>3. \A p, q, r \in Int : p = q - r => p + 1 = (q + 1) - r
      OBVIOUS
    <3> QED BY <3>1, <3>2, <3>3
  <2>2. d = Len(g) - x.base
    BY <1>1, <1>7, <2>1
  <2> QED BY <2>2 DEF ReachesBack, d
<1>8. CASE /\ d = l + 1 /\ n + 1 - l = (n + 1) + 1 - d
           /\ \E s \in Range(v.out) : n + 1 - l + c.backpad <= s.end
  <2>1. \E s \in Range(x.out) : Len(g) + 1 - d + c.backpad <= s.end
    BY <1>1, <1>8
  <2> QED BY <2>1 DEF ReachesBack, d
<1> QED BY <1>4, <1>5, <1>6, <1>7, <1>8
\* A run that is counted on, or begun, with a voiced frame.
RunOn(c, n, v, x) ==
  LET t == begun(n, v)
  IN  /\ t \in (v.base + 1) .. n /\ x.judged[t]
      /\ Cardinality(Voiced(x.judged, t, n)) = v.run + 1
      /\ n + 1 - t <= (v.run + 1) + v.run * c.gap
      /\ v.run = 0 \/ v.run < c.start
      /\ \A d \in t .. n : Cardinality(Voiced(x.judged, t, d)) > v.run => d = n
      /\ \A s \in Range(v.out) : s.end <= t

\* The frame is the last of the run, and the first one if there was none.
LEMMA RunGoesOn ==
  ASSUME NEW c, NEW h, NEW g, NEW v, NEW b, NEW x, Hears(c, h, g, v, b, x),
         x.judged[Len(h) + 1],
         HasJudged(c, h, v), Listens(c, h, v), AllSound(c, h, v)
  PROVE  RunOn(c, Len(h) + 1, v, x)
<1> DEFINE n == Len(h)
           N == n + 1
           t == begun(N, v)
           V(d) == Voiced(x.judged, t, d)
<1>1. /\ n \in Nat /\ v.base \in Nat /\ v.base <= n /\ v.run \in Nat /\ v.gap \in Nat
      /\ v.start \in Nat /\ c.gap \in Nat /\ v.judged \in Seq(BOOLEAN) /\ c \in Setting
  BY OfDetector, OfSetting DEF Hears, HasJudged
<1>2. /\ Len(v.judged) = n /\ Len(x.judged) = N /\ x.judged[N]
      /\ \A i \in 1 .. n : x.judged[i] = v.judged[i]
  BY JudgedKept
<1>3. x.judged = Append(v.judged, b) /\ b \in BOOLEAN
  BY DEF Hears, Judges
<1>0. \A s \in Range(v.out) : s.end <= N
  BY DEF AllSound
<1> HIDE DEF n
<1>4. CASE v.run = 0
  <2>1. t = N
    BY <1>4 DEF begun
  <2>2. N \in (v.base + 1) .. N /\ N \in 1 .. N /\ \A d \in N .. N : d = N
    BY <1>1
  <2>3. Cardinality(V(N)) = 1
    <3>1. V(N) = {N}
      BY <1>2, <2>1, <2>2 DEF Voiced
    <3> QED BY <3>1, FS_Singleton
  <2>4. N + 1 - t <= (v.run + 1) + v.run * c.gap
    BY <1>1, <1>4, <2>1
  <2>5. \A s \in Range(v.out) : s.end <= t
    BY <1>0, <2>1
  <2> HIDE DEF t
  <2>6. t \in (v.base + 1) .. N /\ x.judged[t] /\ \A d \in t .. N : d = N
    BY <1>2, <2>1, <2>2
  <2>7. Cardinality(V(N)) = v.run + 1
    BY <1>4, <2>3
  <2> HIDE DEF N
  <2>8. RunOn(c, N, v, x)
    BY <1>4, <2>4, <2>5, <2>6, <2>7 DEF RunOn, t
  <2> QED BY <2>8 DEF N, n
<1>5. CASE v.run # 0
  <2>1. t = v.start
    BY <1>5 DEF begun
  <2>2. /\ v.start \in (v.base + 1) .. n /\ v.judged[v.start]
        /\ Cardinality(Voiced(v.judged, v.start, n)) = v.run
        /\ v.run < c.start /\ v.gap <= c.gap
        /\ n + 1 - v.start <= v.run + (v.run - 1) * c.gap + v.gap
        /\ \A s \in Range(v.out) : s.end <= v.start
    BY <1>1, <1>5 DEF Listens, OnsetRun, n
  <2> HIDE DEF t
  <2>3. t \in 1 .. n /\ t \in (v.base + 1) .. N /\ x.judged[t]
    <3>1. t \in (v.base + 1) .. n /\ v.judged[t]
      BY <2>1, <2>2
    <3>2. t \in 1 .. n /\ t \in (v.base + 1) .. N
      BY <1>1, <3>1
    <3> QED BY <1>2, <3>1, <3>2
  <2>4. Cardinality(V(N)) = v.run + 1
    <3>1. t \in 1 .. Len(v.judged) + 1
      BY <1>1, <1>2, <2>3
    <3>3. Cardinality(V(N)) = Cardinality(Voiced(v.judged, t, n)) + 1
      BY <1>1, <1>2, <1>3, <3>1, JudgedGrows
    <3> QED BY <2>1, <2>2, <3>3
  <2>5. ASSUME NEW d \in t .. N, Cardinality(V(d)) > v.run PROVE d = N
    <3> SUFFICES ASSUME d # N PROVE FALSE
      OBVIOUS
    <3>1. d \in t .. n /\ t \in Nat \ {0} /\ d \in Int /\ d <= Len(v.judged)
      BY <1>1, <1>2, <2>3
    <3>2. V(d) = Voiced(v.judged, t, d)
      BY <1>1, <1>3, <3>1, JudgedStays
    <3>3. Voiced(v.judged, t, d) \in SUBSET Voiced(v.judged, t, n)
      BY <1>1, <3>1 DEF Voiced
    <3>4. Voiced(v.judged, t, n) \in SUBSET (t .. n) /\ t \in Int /\ n \in Int
      BY <1>1, <3>1 DEF Voiced
    <3>5. /\ Cardinality(Voiced(v.judged, t, d)) <= Cardinality(Voiced(v.judged, t, n))
          /\ Cardinality(Voiced(v.judged, t, d)) \in Nat
      BY <3>3, <3>4, FramesCount
    <3> QED BY <1>1, <2>1, <2>2, <2>5, <3>2, <3>5
  <2>6. N + 1 - t <= (v.run + 1) + v.run * c.gap
    <3>1. (v.run - 1) * c.gap + c.gap = v.run * c.gap /\ (v.run - 1) * c.gap \in Int
          /\ v.run * c.gap \in Int
      BY <1>1, OneMoreDip
    <3> DEFINE y == (v.run - 1) * c.gap
               z == v.run * c.gap
    <3>3. /\ n + 1 - t <= v.run + y + v.gap /\ y + c.gap = z /\ y \in Int /\ z \in Int
          /\ t \in Int /\ v.gap <= c.gap
      BY <2>1, <2>2, <2>3, <3>1
    <3> HIDE DEF y, z
    <3>4. \A p, q, r, k, m, w, u \in Int :
            p + 1 - q <= r + w + k /\ w + m = u /\ k <= m => (p + 1) + 1 - q <= (r + 1) + u
      OBVIOUS
    <3>5. n \in Int /\ v.run \in Int /\ v.gap \in Int /\ c.gap \in Int
      BY <1>1
    <3>6. (n + 1) + 1 - t <= (v.run + 1) + z
      BY <3>3, <3>4, <3>5
    <3> QED BY <3>6 DEF z
  <2>7. \A s \in Range(v.out) : s.end <= t
    BY <2>1, <2>2
  <2>8. v.run < c.start
    BY <2>2
  <2>9. \A d \in t .. N : Cardinality(V(d)) > v.run => d = N
    BY <2>5
  <2> HIDE DEF N
  <2>10. RunOn(c, N, v, x)
    BY <2>3, <2>4, <2>6, <2>7, <2>8, <2>9 DEF RunOn, t
  <2> QED BY <2>10 DEF N, n
<1> QED BY <1>4, <1>5

\* The frames of a stretch are the voiced and the others.
LEMMA VoicedOrNot ==
  ASSUME NEW j, NEW a \in Int, NEW n \in Int, a <= n
  PROVE  /\ Cardinality(Voiced(j, a, n)) + Cardinality(Unvoiced(j, a, n)) = n - a + 1
         /\ Cardinality(Voiced(j, a, n)) \in Nat /\ Cardinality(Unvoiced(j, a, n)) \in Nat
<1> DEFINE V == Voiced(j, a, n)
           U == Unvoiced(j, a, n)
<1>1. V \in SUBSET (a .. n) /\ U \in SUBSET (a .. n) /\ V \cap U = {} /\ V \cup U = a .. n
  BY DEF Voiced, Unvoiced
<1> HIDE DEF V, U
<1>2. /\ IsFiniteSet(V) /\ IsFiniteSet(U) /\ Cardinality(V) \in Nat /\ Cardinality(U) \in Nat
  BY <1>1, FramesCount
<1>3. Cardinality(a .. n) = n - a + 1
  BY FS_Interval
<1>4. Cardinality(V \cup U) = Cardinality(V) + Cardinality(U) - Cardinality(V \cap U)
  BY <1>2, FS_Union
<1>5. Cardinality(V \cap U) = 0
  BY <1>1, FS_EmptySet
<1>6. n - a + 1 = Cardinality(V) + Cardinality(U) - 0
  BY <1>1, <1>3, <1>4, <1>5, Zenon
<1>7. \A p, q, r \in Int : r = p + q - 0 => p + q = r
  OBVIOUS
<1>8. Cardinality(V) + Cardinality(U) = n - a + 1
  BY <1>2, <1>6, <1>7
<1> QED BY <1>2, <1>8 DEF V, U

\* What an utterance begins with is sound: whatever it dips on its way, if in all it is no
\* longer than tolerated, it has its back-pad or all there was.
LEMMA OpensSound ==
  ASSUME NEW c, NEW h, NEW g, NEW v, NEW b, NEW x, Hears(c, h, g, v, b, x),
         HasJudged(c, h, v), HoldsLatest(c, h, v), Proportioned(c) => ReachesBack(c, h, v),
         ~v.inSpeech, RunOn(c, Len(h) + 1, v, x), Opens(c, Len(h) + 1, v, b, x)
  PROVE  Sound(c, x.judged, Current(x, Len(g) + 1))
<1> DEFINE n == Len(h)
           N == n + 1
           t == begun(N, v)
           d == depth(c, v)
           l == Len(v.ring)
           R == ringFrames(c)
           s == Current(x, N + 1)
           U == Unvoiced(x.judged, t, N)
           k == Cardinality(U)
<1>1. /\ n \in Nat /\ v.base \in Nat /\ v.base <= n /\ v.run \in Nat /\ c.gap \in Nat
      /\ c.start \in Nat /\ c.backpad \in Nat /\ Len(g) = N /\ l \in Nat /\ R \in Nat \ {0}
      /\ R >= c.backpad + c.start + c.gap
  BY OfDetector, OfSetting, RingIsDeep DEF Hears, HasJudged
<1>2. /\ s.onset = t /\ s.from = N + 1 - d /\ s.end = N + 1 /\ s.base = v.base
      /\ s.samples = Frames(N + 1 - d, N + 1) /\ v.run + 1 >= c.start
  BY DEF Opens, Current, Hears, Judges
<1> HIDE DEF s
<1>3. /\ t \in (v.base + 1) .. N
      /\ Cardinality(Voiced(x.judged, t, N)) = v.run + 1
      /\ v.run = 0 \/ v.run < c.start
      /\ \A e \in t .. N : Cardinality(Voiced(x.judged, t, e)) > v.run => e = N
      /\ \A u \in Range(v.out) : u.end <= t
  BY DEF RunOn
<1> HIDE DEF t
<1>4. t \in Nat /\ t <= N /\ N \in t .. N /\ N \in Int /\ (N + 1) - 1 = N
  BY <1>1, <1>3
<1>5. N \in Enough(c, x.judged, s)
  BY <1>2, <1>3, <1>4 DEF Enough
<1>6. s.samples = Frames(s.from, s.end)
  BY <1>2
<1>7. ASSUME Proportioned(c), Cardinality(DipsOf(c, x.judged, s)) <= c.gap
      PROVE  s.onset - s.from >= Min({c.backpad, s.onset - 1 - s.base})
  <2>1. c.start > 0 /\ c.start = v.run + 1
    BY <1>1, <1>2, <1>3, <1>7 DEF Proportioned
  <2>2. \A e \in Enough(c, x.judged, s) : e = N
    <3> SUFFICES ASSUME NEW e \in Enough(c, x.judged, s) PROVE e = N
      OBVIOUS
    <3>1. e \in t .. N /\ Cardinality(Voiced(x.judged, t, e)) >= c.start
      BY <1>2, <1>4 DEF Enough
    <3>2. Cardinality(Voiced(x.judged, t, e)) > v.run
      <4>1. Voiced(x.judged, t, e) \in SUBSET (t .. e) /\ t \in Int /\ e \in Int
        BY <1>4, <3>1 DEF Voiced
      <4>2. Cardinality(Voiced(x.judged, t, e)) \in Nat
        BY <4>1, FramesCount
      <4> QED BY <1>1, <2>1, <3>1, <4>2
    <3> QED BY <1>3, <3>1, <3>2
  <2>3. Min(Enough(c, x.judged, s)) = N
    <3>1. Enough(c, x.judged, s) = {N}
      BY <1>5, <2>2
    <3>2. {N} = {N, N} /\ N <= N
      BY <1>4
    <3> QED BY <1>4, <3>1, <3>2, OfTwo
  <2>4. DipsOf(c, x.judged, s) = U
    BY <1>2, <2>3 DEF DipsOf
  <2>5. k <= c.gap /\ k \in Nat /\ c.start + k = N - t + 1
    BY <1>3, <1>4, <1>7, <2>1, <2>4, VoicedOrNot
  <2> HIDE DEF k, U
  <2>6. d = IF l + 1 <= R THEN l + 1 ELSE R
    BY DEF depth
  <2>7. \/ l = R \/ l = n - v.base
        \/ \E u \in Range(v.out) : n + 1 - l + c.backpad <= u.end
    BY <1>7 DEF ReachesBack
  <2>8. l <= R
    BY DEF HoldsLatest
  <2> HIDE DEF n, d, l, R
  <2> DEFINE q == t - 1 - v.base
             y == t - (N + 1 - d)
  <2>9. ASSUME y >= c.backpad \/ y = q
        PROVE  s.onset - s.from >= Min({c.backpad, s.onset - 1 - s.base})
    <3>1. c.backpad \in Int /\ q \in Int /\ y \in Int
      BY <1>1, <1>4, <2>6
    <3>2. s.onset - s.from = y /\ s.onset - 1 - s.base = q
      BY <1>2
    <3> HIDE DEF q, y
    <3>3. Min({c.backpad, q}) = IF c.backpad <= q THEN c.backpad ELSE q
      BY <3>1, OfTwo
    <3>4. y >= Min({c.backpad, q})
      BY <2>9, <3>1, <3>3
    <3> QED BY <3>2, <3>4
  <2>10. CASE d = R
    <3>1. y >= c.backpad
      BY <1>1, <1>4, <2>5, <2>10
    <3> QED BY <2>9, <3>1
  <2>11. CASE d = l + 1 /\ l = n - v.base
    <3>1. l \in Int /\ n \in Int /\ v.base \in Int /\ t \in Int
      BY <1>1, <1>4
    <3>2. l + v.base = n
      <4> DEFINE B == v.base
      <4>1. B \in Int /\ l = n - B
        BY <2>11, <3>1
      <4> HIDE DEF B
      <4>2. l + B = n
        BY <3>1, <4>1
      <4> QED BY <4>2 DEF B
    <3>3. n + 1 - l = v.base + 1
      BY <3>1, <3>2
    <3>4. t - ((n + 1) + 1 - (l + 1)) = t - 1 - v.base
      BY <3>1, <3>2, <3>3
    <3>5. y = q
      BY <2>11, <3>4, Zenon
    <3> QED BY <2>9, <3>5
  <2>12. CASE d = l + 1 /\ \E u \in Range(v.out) : n + 1 - l + c.backpad <= u.end
    <3>1. PICK u \in Range(v.out) : n + 1 - l + c.backpad <= u.end
      BY <2>12
    <3>2. u.end \in Int /\ u.end <= t
      BY <1>3, OfSegments DEF Hears
    <3>3. \A i, j, r, z, e \in Int :
            j + 1 - i + r <= e /\ e <= z => z - ((j + 1) + 1 - (i + 1)) >= r
      OBVIOUS
    <3>4. l \in Int /\ n \in Int /\ c.backpad \in Int /\ t \in Int
      BY <1>1, <1>4
    <3>5. y >= c.backpad
      BY <2>12, <3>1, <3>2, <3>3, <3>4
    <3> QED BY <2>9, <3>5
  <2>13. d = R \/ (d = l + 1 /\ l # R)
    BY <1>1, <2>6, <2>8
  <2> QED BY <2>7, <2>10, <2>11, <2>12, <2>13
<1>8. Sound(c, x.judged, s)
  BY <1>5, <1>6, <1>7 DEF Sound
<1> QED BY <1>1, <1>8 DEF s
\* The utterance that is opened is in order.
LEMMA OpensSpeaks ==
  ASSUME NEW c, NEW h, NEW g, NEW v, NEW b, NEW x, Hears(c, h, g, v, b, x),
         HasJudged(c, h, v), HoldsLatest(c, h, v), Proportioned(c) => ReachesBack(c, h, v),
         ~v.inSpeech, RunOn(c, Len(h) + 1, v, x), Opens(c, Len(h) + 1, v, b, x)
  PROVE  /\ Speaks(c, g, x) /\ HoldsLatest(c, g, x)
         /\ Proportioned(c) => ReachesBack(c, g, x)
<1> DEFINE n == Len(h)
           N == n + 1
           d == depth(c, v)
           R == ringFrames(c)
<1>1. /\ n \in Nat /\ v.base \in Nat /\ v.base <= n /\ v.run \in Nat /\ c.gap \in Nat
      /\ c.start \in Nat /\ Len(g) = N /\ R \in Nat \ {0} /\ x.base = v.base
  BY OfDetector, OfSetting, RingIsDeep DEF Hears, HasJudged, Judges
<1>2. Sound(c, x.judged, Current(x, Len(g) + 1))
  BY OpensSound
<1>3. /\ x.onset \in (v.base + 1) .. N /\ N + 1 - x.onset <= (v.run + 1) + v.run * c.gap
      /\ v.run = 0 \/ v.run < c.start
      /\ \A s \in Range(x.out) : s.end <= x.onset
  BY DEF RunOn, Opens
<1>4. x.ring = <<>> /\ x.inSpeech /\ x.silence = 0 /\ x.from = N + 1 - d /\ v.run + 1 >= c.start
  BY DEF Opens
<1>5. Len(v.ring) <= n - v.base /\ Len(v.ring) \in Nat
  BY OfDetector DEF HoldsLatest, Hears
<1>6. d = IF Len(v.ring) + 1 <= R THEN Len(v.ring) + 1 ELSE R
  BY DEF depth
<1> HIDE DEF n, d, R
<1>7. d \in 1 .. N - v.base
  <2> DEFINE L == Len(v.ring)
             B == v.base
  <2>1. /\ L \in Nat /\ B \in Nat /\ L <= n - B /\ B <= n
        /\ d = IF L + 1 <= R THEN L + 1 ELSE R
    BY <1>1, <1>5, <1>6
  <2> HIDE DEF L, B
  <2>2. d \in 1 .. (n + 1) - B
    BY <1>1, <2>1
  <2> QED BY <2>2 DEF B
<1>8. x.from \in (v.base + 1) .. N
  BY <1>1, <1>4, <1>7
<1>9. Speaks(c, g, x)
  BY <1>1, <1>2, <1>3, <1>8 DEF Speaks
<1>10. HoldsLatest(c, g, x)
  <2> DEFINE a == Len(g) + 1
  <2>1. a \in Nat /\ Len(g) + 1 - 0 = a /\ 0 <= Len(g) - x.base /\ 0 <= ringFrames(c)
    BY <1>1 DEF R
  <2> HIDE DEF a
  <2>2. x.ring = Frames(a, a) /\ Len(x.ring) = 0
    BY <1>4, <2>1, NoFrames
  <2>3. x.ring = Frames(Len(g) + 1 - Len(x.ring), Len(g) + 1)
    BY <2>1, <2>2 DEF a
  <2> QED BY <2>1, <2>2, <2>3 DEF HoldsLatest
<1>11. ASSUME Proportioned(c) PROVE ReachesBack(c, g, x)
  <2>1. c.start = v.run + 1
    BY <1>1, <1>3, <1>4, <1>11 DEF Proportioned
  <2>2. LongestOnset(c) = (v.run + 1) + v.run * c.gap /\ v.run * c.gap \in Int
    <3>1. (v.run + 1) - 1 = v.run
      BY <1>1
    <3>2. v.run * c.gap \in Int
      BY <1>1, OneMoreDip
    <3> QED BY <2>1, <3>1, <3>2 DEF LongestOnset
  <2>3. Len(x.ring) = 0
    BY <1>4, NoFrames
  <2> DEFINE z == v.run * c.gap
             o == x.onset
  <2>4. N + 1 - o <= (v.run + 1) + z /\ z \in Int /\ o \in Int
    BY <1>1, <1>3, <2>2
  <2>5. 0 + LongestOnset(c) >= N + 1 - x.onset
    <3>1. LongestOnset(c) = (v.run + 1) + z
      BY <2>2
    <3> HIDE DEF z, o
    <3>2. 0 + LongestOnset(c) >= N + 1 - o
      BY <1>1, <2>4, <3>1
    <3> QED BY <3>2 DEF o
  <2> QED BY <1>1, <1>4, <2>3, <2>5 DEF ReachesBack
<1> QED BY <1>9, <1>10, <1>11

\* What is tolerated to the new frame was so to the one before.
LEMMA ToleratedBefore ==
  ASSUME NEW c \in Setting, NEW j \in Seq(BOOLEAN), NEW y \in BOOLEAN, NEW a \in 1 .. Len(j),
         Append(j, y)[a], Tolerated(c, Append(j, y), a, Len(j) + 1)
  PROVE  j[a] /\ Tolerated(c, j, a, Len(j))
<1> DEFINE k == Append(j, y)
           n == Len(j)
<1>1. n \in Nat /\ \A i \in 1 .. n : k[i] = j[i]
  BY AppendProperties
<1>2. k[a] /\ Tolerated(c, k, a, n + 1) /\ c.gap \in Nat
  BY OfSetting
<1> HIDE DEF k, n
<1>3. j[a]
  BY <1>1, <1>2 DEF n
<1>4. ASSUME NEW i \in a .. n, i + c.gap <= n PROVE \E d \in i .. (i + c.gap) : j[d]
  <2>1. i \in a .. n + 1 /\ i + c.gap <= n + 1 /\ a \in 1 .. n
    BY <1>1, <1>2, <1>4 DEF n
  <2>2. PICK d \in i .. (i + c.gap) : k[d]
    BY <1>2, <2>1 DEF Tolerated
  <2>3. d \in 1 .. n
    BY <1>1, <1>2, <1>4, <2>1
  <2> QED BY <1>1, <2>2, <2>3
<1> QED BY <1>3, <1>4 DEF Tolerated, n

\* A voiced frame that opens nothing goes on with the run.
LEMMA RunsListens ==
  ASSUME NEW c, NEW h, NEW g, NEW v, NEW b, NEW x, Hears(c, h, g, v, b, x),
         HasJudged(c, h, v), Listens(c, h, v),
         RunOn(c, Len(h) + 1, v, x), Runs(c, Len(h) + 1, v, b, x)
  PROVE  Listens(c, g, x)
<1> DEFINE n == Len(h)
           N == n + 1
<1>1. /\ n \in Nat /\ v.base \in Nat /\ v.base <= n /\ v.run \in Nat /\ c.gap \in Nat
      /\ c.start \in Nat /\ Len(g) = N /\ x.base = v.base /\ c \in Setting /\ b \in BOOLEAN
      /\ v.judged \in Seq(BOOLEAN) /\ Len(v.judged) = n /\ x.judged = Append(v.judged, b)
  BY OfDetector, OfSetting DEF Hears, HasJudged, Judges
<1>2. /\ x.start \in (v.base + 1) .. N /\ N + 1 - x.start <= (v.run + 1) + v.run * c.gap
      /\ x.judged[x.start] /\ Cardinality(Voiced(x.judged, x.start, N)) = v.run + 1
      /\ \A s \in Range(x.out) : s.end <= x.start
  BY DEF RunOn, Runs
<1>3. /\ x.run = v.run + 1 /\ x.gap = 0 /\ v.run + 1 < c.start /\ x.out = v.out
      /\ x.start = IF v.run = 0 THEN N ELSE v.start
  BY DEF Runs, begun
<1>4. \A a \in (v.base + 1) .. n :
        /\ v.judged[a] /\ Tolerated(c, v.judged, a, n)
        /\ \A s \in Range(v.out) : s.end <= a
        => v.run > 0 /\ v.start <= a
  BY DEF Listens
<1> HIDE DEF n
<1>5. OnsetRun(c, g, x)
  <2>1. (x.run - 1) * c.gap = v.run * c.gap /\ v.run * c.gap \in Int /\ x.run - 1 = v.run
    <3>1. x.run - 1 = v.run
      BY <1>1, <1>3
    <3>2. v.run * c.gap \in Int
      BY <1>1, OneMoreDip
    <3>3. (x.run - 1) * c.gap = v.run * c.gap
      BY <3>1, Zenon
    <3> QED BY <3>1, <3>2, <3>3
  <2> DEFINE z == v.run * c.gap
  <2>2. N + 1 - x.start <= x.run + z + x.gap
    <3>1. N + 1 - x.start <= (v.run + 1) + z /\ z \in Int
      BY <1>2, <2>1
    <3> HIDE DEF z
    <3> QED BY <1>1, <1>2, <1>3, <3>1
  <2>3. Len(g) + 1 - x.start <= x.run + (x.run - 1) * c.gap + x.gap
    BY <1>1, <2>1, <2>2
  <2>4. \A i \in (N + 1 - x.gap) .. N : ~x.judged[i]
    BY <1>1, <1>3
  <2>5. x.run < c.start /\ x.gap <= c.gap
    BY <1>1, <1>3
  <2>6. Cardinality(Voiced(x.judged, x.start, N)) = x.run
    BY <1>2, <1>3
  <2> HIDE DEF N
  <2> QED BY <1>1, <1>2, <2>3, <2>4, <2>5, <2>6 DEF OnsetRun
<1>6. ASSUME NEW a \in (x.base + 1) .. N, x.judged[a], Tolerated(c, x.judged, a, N),
             \A s \in Range(x.out) : s.end <= a
      PROVE  x.run > 0 /\ x.start <= a
  <2>1. x.run > 0
    BY <1>1, <1>3
  <2>2. CASE a = N
    BY <1>1, <1>2, <2>1, <2>2
  <2>3. CASE a # N
    <3>1. a \in (v.base + 1) .. n /\ a \in 1 .. Len(v.judged)
      BY <1>1, <2>3
    <3>2. v.judged[a] /\ Tolerated(c, v.judged, a, Len(v.judged))
      <4>1. Append(v.judged, b)[a] /\ Tolerated(c, Append(v.judged, b), a, Len(v.judged) + 1)
        BY <1>1, <1>6
      <4> QED BY <1>1, <3>1, <4>1, ToleratedBefore
    <3>3. v.run > 0 /\ v.start <= a
      BY <1>1, <1>3, <1>4, <1>6, <3>1, <3>2
    <3> QED BY <1>1, <1>3, <2>1, <3>3
  <2> QED BY <2>2, <2>3
<1> QED BY <1>1, <1>3, <1>5, <1>6 DEF Listens
\* A frame that is not voiced keeps the run waiting, or ends what nothing can be counted from.
LEMMA WaitsListens ==
  ASSUME NEW c, NEW h, NEW g, NEW v, NEW b, NEW x, Hears(c, h, g, v, b, x),
         HasJudged(c, h, v), Listens(c, h, v), Waits(c, Len(h) + 1, v, b, x)
  PROVE  Listens(c, g, x)
<1> DEFINE n == Len(h)
           N == n + 1
<1>1. /\ n \in Nat /\ v.base \in Nat /\ v.base <= n /\ v.run \in Nat /\ c.gap \in Nat
      /\ v.gap \in Nat /\ v.start \in Nat
      /\ c.start \in Nat /\ Len(g) = N /\ x.base = v.base /\ c \in Setting /\ b \in BOOLEAN
      /\ v.judged \in Seq(BOOLEAN) /\ Len(v.judged) = n /\ x.judged = Append(v.judged, b)
  BY OfDetector, OfSetting DEF Hears, HasJudged, Judges
<1>2. x.out = v.out /\ \/ v.run = 0 /\ x.run = 0 /\ x.gap = v.gap
                       \/ v.run # 0 /\ v.gap + 1 > c.gap /\ x.run = 0 /\ x.gap = 0
                       \/ v.run # 0 /\ v.gap + 1 <= c.gap /\ x.run = v.run
                                    /\ x.gap = v.gap + 1 /\ x.start = v.start
  BY DEF Waits
<1>3. ~x.judged[N] /\ \A i \in 1 .. n : x.judged[i] = v.judged[i]
  <2>1. x.judged[N] <=> b
    BY JudgedKept
  <2>2. \A i \in 1 .. n : x.judged[i] = v.judged[i]
    BY JudgedKept
  <2>3. ~b
    BY DEF Waits
  <2> QED BY <2>1, <2>2, <2>3
<1>4. /\ v.run = 0 => v.gap = 0
      /\ v.run > 0 => OnsetRun(c, h, v)
      /\ \A a \in (v.base + 1) .. n :
           /\ v.judged[a] /\ Tolerated(c, v.judged, a, n)
           /\ \A s \in Range(v.out) : s.end <= a
           => v.run > 0 /\ v.start <= a
  BY DEF Listens
<1>5. v.run # 0 => /\ v.start \in (v.base + 1) .. n /\ v.judged[v.start]
                   /\ Cardinality(Voiced(v.judged, v.start, n)) = v.run
                   /\ v.run < c.start /\ v.gap <= c.gap
                   /\ \A i \in (n + 1 - v.gap) .. n : ~v.judged[i]
                   /\ n + 1 - v.start <= v.run + (v.run - 1) * c.gap + v.gap
                   /\ \A s \in Range(v.out) : s.end <= v.start
  BY <1>1, <1>4 DEF OnsetRun
<1> HIDE DEF n
<1>6. ASSUME NEW a \in (x.base + 1) .. N, x.judged[a], Tolerated(c, x.judged, a, N),
             \A s \in Range(x.out) : s.end <= a
      PROVE  a \in 1 .. n /\ v.judged[a] /\ v.run > 0 /\ v.start <= a
  <2>1. a # N
    BY <1>3, <1>6
  <2>2. a \in (v.base + 1) .. n /\ a \in 1 .. Len(v.judged)
    BY <1>1, <2>1
  <2>3. v.judged[a] /\ Tolerated(c, v.judged, a, Len(v.judged))
    <3>1. Append(v.judged, b)[a] /\ Tolerated(c, Append(v.judged, b), a, Len(v.judged) + 1)
      BY <1>1, <1>6
    <3> QED BY <1>1, <2>2, <3>1, ToleratedBefore
  <2> QED BY <1>1, <1>2, <1>4, <1>6, <2>2, <2>3
<1>7. CASE v.run = 0 /\ x.run = 0 /\ x.gap = v.gap
  <2>1. \A a \in (x.base + 1) .. N :
          ~(x.judged[a] /\ Tolerated(c, x.judged, a, N) /\ \A s \in Range(x.out) : s.end <= a)
    BY <1>6, <1>7
  <2> QED BY <1>1, <1>4, <1>7, <2>1 DEF Listens
<1>8. CASE v.run # 0 /\ v.gap + 1 > c.gap /\ x.run = 0 /\ x.gap = 0
  <2>1. ASSUME NEW a \in (x.base + 1) .. N, x.judged[a], Tolerated(c, x.judged, a, N),
               \A s \in Range(x.out) : s.end <= a
        PROVE  FALSE
    <3>1. a \in 1 .. n /\ v.judged[a]
      BY <1>6, <2>1
    <3> DEFINE G == c.gap
               i == N - G
    <3>2. v.gap = G /\ G \in Nat /\ n \in Nat
      <4> DEFINE w == v.gap
      <4>1. w \in Nat /\ G \in Nat /\ n \in Nat /\ w <= G /\ w + 1 > G
        BY <1>1, <1>5, <1>8
      <4> HIDE DEF w, G
      <4>2. w = G
        BY <4>1
      <4> QED BY <4>1, <4>2 DEF w
    <3>20. \A d \in (n + 1 - G) .. n : ~v.judged[d]
      BY <1>5, <1>8, <3>2
    <3> HIDE DEF G
    <3>3. i \in Int /\ i = n + 1 - G /\ a < i
      <4>1. i \in Int /\ i = n + 1 - G
        BY <3>2
      <4>2. a \notin i .. n
        BY <3>1, <3>20, <4>1
      <4> QED BY <3>1, <3>2, <4>1, <4>2
    <3>4. i \in a .. N /\ i + G <= N /\ i + G = N
      BY <3>1, <3>2, <3>3
    <3> HIDE DEF i, N
    <3>5. PICK d \in i .. (i + G) : x.judged[d]
      BY <2>1, <3>4 DEF Tolerated, G
    <3>6. d = N \/ d \in i .. n
      BY <3>2, <3>3, <3>4 DEF N
    <3>7. d \in i .. n => d \in 1 .. n /\ ~v.judged[d]
      BY <3>1, <3>2, <3>20, <3>3
    <3> QED BY <1>3, <3>5, <3>6, <3>7
  <2>2. (x.run = 0 => x.gap = 0) /\ ~(x.run > 0)
    BY <1>8
  <2> HIDE DEF N
  <2> QED BY <1>1, <2>1, <2>2 DEF Listens
<1>9. CASE v.run # 0 /\ v.gap + 1 <= c.gap /\ x.run = v.run /\ x.gap = v.gap + 1
           /\ x.start = v.start
  <2>1. v.start \in 1 .. n /\ v.start \in (v.base + 1) .. N /\ x.judged[v.start]
    <3>1. v.start \in (v.base + 1) .. n /\ v.judged[v.start]
      BY <1>5, <1>9
    <3>2. v.start \in 1 .. n /\ v.start \in (v.base + 1) .. N
      BY <1>1, <3>1
    <3> QED BY <1>3, <3>1, <3>2
  <2>2. Cardinality(Voiced(x.judged, v.start, N)) = v.run
    <3>1. v.start \in 1 .. Len(v.judged) + 1
      BY <1>1, <2>1
    <3>2. ~Append(v.judged, b)[Len(v.judged) + 1]
      BY <1>1, <1>3
    <3>3. Voiced(Append(v.judged, b), v.start, Len(v.judged) + 1)
            = Voiced(v.judged, v.start, Len(v.judged))
      BY <1>1, <3>1, <3>2, JudgedGrows
    <3>4. Voiced(x.judged, v.start, N) = Voiced(v.judged, v.start, n)
      BY <1>1, <3>3
    <3> QED BY <1>5, <1>9, <3>4
  <2>3. \A i \in (N + 1 - x.gap) .. N : ~x.judged[i]
    <3> SUFFICES ASSUME NEW i \in (N + 1 - x.gap) .. N PROVE ~x.judged[i]
      OBVIOUS
    <3>1. i = N \/ (i \in (n + 1 - v.gap) .. n /\ i \in 1 .. n)
      <4>1. v.start <= n - v.gap
        <5>1. v.start \notin (n + 1 - v.gap) .. n
          BY <1>5, <1>9
        <5> QED BY <1>1, <2>1, <5>1
      <4> DEFINE t == v.start
                 k == v.gap
                 y == x.gap
      <4>2. n \in Nat /\ k \in Nat /\ t \in 1 .. n /\ t <= n - k /\ y = k + 1
        BY <1>1, <1>9, <2>1, <4>1
      <4>3. i \in (N + 1 - y) .. N
        OBVIOUS
      <4> HIDE DEF t, k, y
      <4>4. i = n + 1 \/ (i \in (n + 1 - k) .. n /\ i \in 1 .. n)
        BY <4>2, <4>3
      <4> QED BY <4>4 DEF k
    <3> QED BY <1>3, <1>5, <1>9, <3>1
  <2>4. N + 1 - x.start <= x.run + (x.run - 1) * c.gap + x.gap
    <3> DEFINE z == (v.run - 1) * c.gap
    <3>1. z \in Int
      BY <1>1, OneMoreDip
    <3>2. n + 1 - v.start <= v.run + z + v.gap
      BY <1>5, <1>9
    <3> DEFINE o == v.start
               r == v.run
               w == v.gap
    <3>3. n + 1 - o <= r + z + w /\ o \in Int /\ r \in Int /\ w \in Int /\ n \in Int
      BY <1>1, <3>2
    <3> HIDE DEF z, o, r, w
    <3>4. N + 1 - o <= r + z + (w + 1)
      BY <3>1, <3>3
    <3>5. N + 1 - v.start <= v.run + z + (v.gap + 1)
      BY <3>4 DEF o, r, w
    <3> QED BY <1>9, <3>5 DEF z
  <2>5. OnsetRun(c, g, x)
    <3> HIDE DEF N
    <3> QED BY <1>1, <1>2, <1>5, <1>9, <2>1, <2>2, <2>3, <2>4 DEF OnsetRun
  <2> QED BY <1>1, <1>2, <1>6, <1>9, <2>5 DEF Listens
<1> QED BY <1>2, <1>7, <1>8, <1>9

\* An utterance that goes on stays in order.
LEMMA ContinuesSpeaks ==
  ASSUME NEW c, NEW h, NEW g, NEW v, NEW b, NEW x, Hears(c, h, g, v, b, x),
         HasJudged(c, h, v), Speaks(c, h, v), Continues(c, Len(h) + 1, v, b, x)
  PROVE  Speaks(c, g, x)
<1> DEFINE n == Len(h)
           N == n + 1
           s == Current(v, n + 1)
           t == Current(x, N + 1)
<1>1. /\ n \in Nat /\ Len(g) = N /\ x.base = v.base /\ c \in Setting /\ b \in BOOLEAN
      /\ v.judged \in Seq(BOOLEAN) /\ Len(v.judged) = n /\ x.judged = Append(v.judged, b)
      /\ v.base \in Nat
  BY OfDetector DEF Hears, HasJudged, Judges
<1>2. /\ v.onset \in (v.base + 1) .. n /\ v.from \in (v.base + 1) .. n
      /\ Sound(c, v.judged, s) /\ \A u \in Range(v.out) : u.end <= v.onset
  BY DEF Speaks
<1>3. /\ x.onset = v.onset /\ x.from = v.from /\ x.samples = Append(v.samples, N)
      /\ x.out = v.out
  BY DEF Continues
<1>4. /\ s.onset = v.onset /\ s.from = v.from /\ s.end = n + 1 /\ s.base = v.base
      /\ s.samples = v.samples
      /\ t.onset = x.onset /\ t.from = x.from /\ t.end = N + 1 /\ t.base = x.base
      /\ t.samples = x.samples
  BY DEF Current
<1> HIDE DEF n, s, t
<1>5. v.onset \in 1 .. n /\ v.from \in 1 .. n
  BY <1>1, <1>2
<1>6. Sound(c, x.judged, t)
  <2>1. /\ s.onset \in 1 .. Len(v.judged) /\ s.from \in 1 .. Len(v.judged)
        /\ s.end = Len(v.judged) + 1 /\ t.onset = s.onset /\ t.from = s.from
        /\ t.base = s.base /\ t.end = s.end + 1 /\ t.samples = Append(s.samples, s.end)
    BY <1>1, <1>3, <1>4, <1>5
  <2>2. Sound(c, Append(v.judged, b), t)
    BY <1>1, <1>2, <2>1, SoundGrows
  <2> QED BY <1>1, <2>2
<1>7. x.onset \in (x.base + 1) .. N /\ x.from \in (x.base + 1) .. N
  <2> DEFINE B == v.base
             o == v.onset
             a == v.from
  <2>1. /\ n \in Nat /\ B \in Nat /\ o \in (B + 1) .. n /\ a \in (B + 1) .. n
        /\ x.base = B /\ x.onset = o /\ x.from = a
    BY <1>1, <1>2, <1>3
  <2> HIDE DEF B, o, a
  <2>2. o \in (B + 1) .. n + 1 /\ a \in (B + 1) .. n + 1
    BY <2>1
  <2> QED BY <2>1, <2>2
<1> QED BY <1>1, <1>2, <1>3, <1>6, <1>7 DEF Speaks, t

\* What a sequence has with one more at its end.
LEMMA AppendRange ==
  ASSUME NEW S, NEW q \in Seq(S), NEW e \in S
  PROVE  /\ Range(Append(q, e)) = Range(q) \cup {e}
         /\ DOMAIN Append(q, e) = 1 .. Len(q) + 1 /\ DOMAIN q = 1 .. Len(q) /\ Len(q) \in Nat
         /\ Append(q, e)[Len(q) + 1] = e /\ \A i \in 1 .. Len(q) : Append(q, e)[i] = q[i]
<1> DEFINE r == Append(q, e)
           n == Len(q)
<1>1. /\ DOMAIN r = 1 .. n + 1 /\ DOMAIN q = 1 .. n /\ n \in Nat
      /\ r[n + 1] = e /\ \A i \in 1 .. n : r[i] = q[i]
  BY AppendProperties
<1> HIDE DEF r, n
<1>2. \A i \in 1 .. n + 1 : i = n + 1 \/ i \in 1 .. n
  BY <1>1
<1>3. n + 1 \in 1 .. n + 1 /\ \A i \in 1 .. n : i \in 1 .. n + 1
  BY <1>1
<1>4. Range(r) = Range(q) \cup {e}
  BY <1>1, <1>2, <1>3 DEF Range
<1> QED BY <1>1, <1>4 DEF r, n

\* An utterance that is over leaves nothing to count on.
LEMMA EndsListens ==
  ASSUME NEW c, NEW h, NEW g, NEW v, NEW b, NEW x, Hears(c, h, g, v, b, x),
         Ends(c, Len(h) + 1, v, b, x)
  PROVE  Listens(c, g, x)
<1> DEFINE n == Len(h)
           t == [onset |-> v.onset, from |-> v.from, end |-> (n + 1) + 1,
                 samples |-> Append(v.samples, n + 1), base |-> v.base]
<1>1. /\ n \in Nat /\ Len(g) = n + 1 /\ x.base = v.base /\ v.base \in Nat
      /\ v.out \in Seq(Segment) /\ v.onset \in Nat /\ v.from \in Nat /\ v.samples \in Seq(Nat)
  BY OfDetector DEF Hears, Judges
<1>2. x.out = Append(v.out, t) /\ x.run = 0 /\ x.gap = 0
  BY DEF Ends
<1> HIDE DEF n
<1>3. t \in Segment /\ t.end = (n + 1) + 1
  <2>1. Append(v.samples, n + 1) \in Seq(Nat) /\ (n + 1) + 1 \in Nat
    BY <1>1
  <2> QED BY <1>1, <2>1 DEF Segment
<1> HIDE DEF t
<1>4. t \in Range(x.out)
  BY <1>1, <1>2, <1>3, AppendRange
<1>5. \A a \in (x.base + 1) .. Len(g) : ~(t.end <= a)
  BY <1>1, <1>3
<1>6. \A a \in (x.base + 1) .. Len(g) : ~(\A s \in Range(x.out) : s.end <= a)
  BY <1>4, <1>5
<1> QED BY <1>2, <1>6 DEF Listens

\* The utterances there are stay in order, and one that ends joins them.
LEMMA AllSoundKept ==
  ASSUME NEW c, NEW h, NEW g, NEW v, NEW b, NEW x, Hears(c, h, g, v, b, x),
         HasJudged(c, h, v), AllSound(c, h, v),
         x.out = v.out \/ (Speaks(c, h, v) /\ Ends(c, Len(h) + 1, v, b, x))
  PROVE  AllSound(c, g, x)
<1> DEFINE n == Len(h)
           N == n + 1
<1>1. /\ n \in Nat /\ Len(g) = N /\ x.base = v.base /\ c \in Setting /\ b \in BOOLEAN
      /\ v.judged \in Seq(BOOLEAN) /\ Len(v.judged) = n /\ x.judged = Append(v.judged, b)
      /\ v.base \in Nat /\ v \in Detector /\ v.out \in Seq(Segment) /\ v.onset \in Nat
      /\ v.from \in Nat /\ v.samples \in Seq(Nat)
  BY OfDetector DEF Hears, HasJudged, Judges
<1>2. /\ \A s \in Range(v.out) : Sound(c, v.judged, s) /\ 1 <= s.onset /\ s.onset < s.end
                                 /\ s.end <= n + 1
      /\ \A j, k \in DOMAIN v.out : j < k => v.out[j].end <= v.out[k].onset
  BY DEF AllSound
<1> HIDE DEF n
<1>3. ASSUME NEW s \in Range(v.out)
      PROVE  Sound(c, x.judged, s) /\ 1 <= s.onset /\ s.onset < s.end /\ s.end <= N + 1
  <2>1. s.onset \in Nat /\ s.end \in Nat
    BY <1>1, OfSegments
  <2>2. s.onset \in Nat \ {0} /\ s.end <= Len(v.judged) + 1 /\ s.end <= N + 1
    BY <1>1, <1>2, <2>1
  <2>3. Sound(c, Append(v.judged, b), s)
    BY <1>1, <1>2, <2>1, <2>2, SoundStays
  <2> QED BY <1>1, <1>2, <2>2, <2>3
<1>4. CASE x.out = v.out
  BY <1>1, <1>2, <1>3, <1>4 DEF AllSound
<1>5. CASE Speaks(c, h, v) /\ Ends(c, Len(h) + 1, v, b, x)
  <2> DEFINE s == Current(v, n + 1)
             t == [onset |-> v.onset, from |-> v.from, end |-> N + 1,
                   samples |-> Append(v.samples, N), base |-> v.base]
             m == Len(v.out)
  <2>1. /\ v.onset \in (v.base + 1) .. n /\ v.from \in (v.base + 1) .. n
        /\ Sound(c, v.judged, s) /\ \A u \in Range(v.out) : u.end <= v.onset
    BY <1>5 DEF Speaks, n
  <2>2. x.out = Append(v.out, t)
    BY <1>5 DEF Ends, n
  <2>3. /\ s.onset = v.onset /\ s.from = v.from /\ s.end = n + 1 /\ s.base = v.base
        /\ s.samples = v.samples
    BY DEF Current
  <2>4. /\ t.onset = v.onset /\ t.from = v.from /\ t.end = N + 1 /\ t.base = v.base
        /\ t.samples = Append(v.samples, N)
    OBVIOUS
  <2>5. t \in Segment
    <3>1. Append(v.samples, N) \in Seq(Nat) /\ N + 1 \in Nat
      BY <1>1
    <3> QED BY <1>1, <3>1 DEF Segment
  <2> HIDE DEF s, t
  <2>6. v.onset \in 1 .. n /\ v.from \in 1 .. n
    BY <1>1, <2>1
  <2>7. Sound(c, x.judged, t)
    <3>1. /\ s.onset \in 1 .. Len(v.judged) /\ s.from \in 1 .. Len(v.judged)
          /\ s.end = Len(v.judged) + 1 /\ t.onset = s.onset /\ t.from = s.from
          /\ t.base = s.base /\ t.end = s.end + 1 /\ t.samples = Append(s.samples, s.end)
      BY <1>1, <2>3, <2>4, <2>6
    <3>2. Sound(c, Append(v.judged, b), t)
      BY <1>1, <2>1, <3>1, SoundGrows
    <3> QED BY <1>1, <3>2
  <2>8. 1 <= t.onset /\ t.onset < t.end /\ t.end <= N + 1
    BY <1>1, <2>4, <2>6
  <2>9. /\ Range(x.out) = Range(v.out) \cup {t} /\ DOMAIN x.out = 1 .. m + 1
        /\ DOMAIN v.out = 1 .. m /\ m \in Nat
        /\ x.out[m + 1] = t /\ \A i \in 1 .. m : x.out[i] = v.out[i]
    BY <1>1, <2>2, <2>5, AppendRange
  <2> HIDE DEF m
  <2>10. \A i \in 1 .. m : v.out[i] \in Range(v.out)
    BY <2>9 DEF Range
  <2>11. ASSUME NEW j \in 1 .. m + 1, NEW k \in 1 .. m + 1, j < k
         PROVE  x.out[j].end <= x.out[k].onset
    <3>1. j \in 1 .. m
      BY <2>9, <2>11
    <3>2. CASE k = m + 1
      BY <2>1, <2>4, <2>9, <2>10, <3>1, <3>2
    <3>3. CASE k # m + 1
      <4>1. k \in 1 .. m
        BY <2>9, <3>3
      <4> QED BY <1>2, <2>9, <2>11, <3>1, <4>1
    <3> QED BY <3>2, <3>3
  <2> QED BY <1>1, <1>3, <2>7, <2>8, <2>9, <2>11 DEF AllSound
<1> QED BY <1>4, <1>5
\* A run that is not in an utterance yet is being counted, and is too short for one.
LEMMA CountedRun ==
  ASSUME NEW c \in Setting, NEW g, g \in Seq(Levels), NEW x \in Detector, HasJudged(c, g, x),
         Listens(c, g, x), NEW p \in (x.base + 1) .. Len(g), Run(c, x.judged, p, Len(g))
  PROVE  \E s \in Range(x.out) : s.end > p
<1> SUFFICES ASSUME \A s \in Range(x.out) : ~(s.end > p) PROVE FALSE
  OBVIOUS
<1> DEFINE n == Len(g)
<1>1. n \in Nat /\ x.base \in Nat /\ p \in Nat /\ x.run \in Nat /\ c.start \in Nat
  BY OfDetector, OfSetting
<1>2. \A s \in Range(x.out) : s.end <= p
  <2> SUFFICES ASSUME NEW s \in Range(x.out) PROVE s.end <= p
    OBVIOUS
  <2>1. s.end \in Nat /\ ~(s.end > p)
    BY OfSegments
  <2> QED BY <1>1, <2>1
<1>3. x.run > 0 /\ x.start <= p
  BY <1>2 DEF Run, Listens
<1>4. /\ x.start \in (x.base + 1) .. n /\ Cardinality(Voiced(x.judged, x.start, n)) = x.run
      /\ x.run < c.start
  BY <1>3 DEF Listens, OnsetRun
<1>5. Cardinality(Voiced(x.judged, p, n)) >= c.start
  BY DEF Run
<1> HIDE DEF n
<1>6. x.start \in Int
  BY <1>1, <1>4
<1>7. Voiced(x.judged, p, n) \in SUBSET Voiced(x.judged, x.start, n)
      /\ Voiced(x.judged, x.start, n) \in SUBSET (x.start .. n)
  BY <1>1, <1>3, <1>6 DEF Voiced
<1>8. /\ Cardinality(Voiced(x.judged, p, n)) <= Cardinality(Voiced(x.judged, x.start, n))
      /\ Cardinality(Voiced(x.judged, p, n)) \in Nat
  <2> DEFINE o == x.start
             S == Voiced(x.judged, o, n)
             T == Voiced(x.judged, p, n)
  <2>1. o \in Int /\ n \in Int /\ S \in SUBSET (o .. n) /\ T \in SUBSET S
    BY <1>1, <1>6, <1>7
  <2>2. Cardinality(T) <= Cardinality(S) /\ Cardinality(T) \in Nat
    <3> HIDE DEF o, S, T
    <3> QED BY <2>1, FramesCount
  <2> QED BY <2>2
<1> QED BY <1>1, <1>4, <1>5, <1>8

\* No onset run is missed by the frame.
LEMMA NoneMissedKept ==
  ASSUME NEW c, NEW h, NEW g, NEW v, NEW b, NEW x, Hears(c, h, g, v, b, x),
         HasJudged(c, h, v), AllSound(c, h, v), NoneMissed(c, h, v),
         \/ /\ v.inSpeech /\ Speaks(c, h, v)
            /\ Continues(c, Len(h) + 1, v, b, x) \/ Ends(c, Len(h) + 1, v, b, x)
         \/ ~v.inSpeech /\ RunOn(c, Len(h) + 1, v, x) /\ Opens(c, Len(h) + 1, v, b, x)
         \/ ~v.inSpeech /\ ~x.inSpeech /\ x.out = v.out /\ Listens(c, g, x)
  PROVE  NoneMissed(c, g, x)
<1> DEFINE n == Len(h)
           N == n + 1
           Heard(p, q) == \/ \E s \in Range(x.out) : s.onset <= q /\ s.end > p
                          \/ x.inSpeech /\ x.onset <= q
<1>1. /\ n \in Nat /\ Len(g) = N /\ x.base = v.base /\ c \in Setting /\ b \in BOOLEAN
      /\ v.judged \in Seq(BOOLEAN) /\ Len(v.judged) = n /\ x.judged = Append(v.judged, b)
      /\ v.base \in Nat /\ v \in Detector /\ x \in Detector /\ g \in Seq(Levels)
      /\ HasJudged(c, g, x) /\ v.base <= n /\ v.out \in Seq(Segment)
  BY OfDetector, JudgedKept DEF Hears, HasJudged, Judges
<1> SUFFICES ASSUME NEW p \in (x.base + 1) .. N, NEW q \in (x.base + 1) .. N, p <= q,
                    Run(c, x.judged, p, q)
             PROVE  Heard(p, q)
  BY <1>1 DEF NoneMissed
<1>2. ASSUME q <= n
      PROVE  \/ \E s \in Range(v.out) : s.onset <= q /\ s.end > p
             \/ v.inSpeech /\ v.onset <= q
  <2> HIDE DEF n
  <2>1. p \in (v.base + 1) .. n /\ q \in (v.base + 1) .. n /\ p \in 1 .. n /\ q \in 1 .. n
    BY <1>1, <1>2
  <2>2. Run(c, v.judged, p, q)
    <3>1. p \in Nat \ {0} /\ q \in Int /\ q <= Len(v.judged)
      BY <1>1, <2>1
    <3>2. /\ Voiced(x.judged, p, q) = Voiced(v.judged, p, q)
          /\ Tolerated(c, x.judged, p, q) => Tolerated(c, v.judged, p, q)
      <4> DEFINE j == v.judged
                 k == Append(j, b)
      <4>1. j \in Seq(BOOLEAN) /\ b \in BOOLEAN /\ q <= Len(j) /\ c \in Setting /\ x.judged = k
        BY <1>1, <3>1
      <4> HIDE DEF j
      <4>2. /\ Voiced(k, p, q) = Voiced(j, p, q)
            /\ Tolerated(c, k, p, q) <=> Tolerated(c, j, p, q)
        BY <3>1, <4>1, JudgedStays
      <4> QED BY <4>1, <4>2 DEF j
    <3>3. x.judged[p] = v.judged[p] /\ x.judged[q] = v.judged[q]
      BY <2>1, JudgedKept DEF n
    <3> QED BY <3>2, <3>3 DEF Run
  <2> QED BY <2>1, <2>2 DEF NoneMissed, n
<1>3. ASSUME NEW e, x.out = Append(v.out, e), e \in Segment
      PROVE  e \in Range(x.out) /\ Range(v.out) \subseteq Range(x.out)
  BY <1>1, <1>3, AppendRange
<1>4. CASE v.inSpeech /\ Speaks(c, h, v) /\ Continues(c, Len(h) + 1, v, b, x)
  <2>1. x.out = v.out /\ x.inSpeech /\ x.onset = v.onset /\ v.onset <= n
    BY <1>4 DEF Continues, Speaks
  <2>2. CASE q <= n
    BY <1>2, <2>1, <2>2
  <2>3. CASE ~(q <= n)
    <3>1. v.onset <= q
      <4>1. v.onset \in Int
        BY <1>1, OfDetector
      <4> HIDE DEF n
      <4> QED BY <1>1, <2>1, <2>3, <4>1
    <3> QED BY <2>1, <3>1
  <2> QED BY <2>2, <2>3
<1>5. CASE v.inSpeech /\ Speaks(c, h, v) /\ Ends(c, Len(h) + 1, v, b, x)
  <2> DEFINE e == [onset |-> v.onset, from |-> v.from, end |-> N + 1,
                   samples |-> Append(v.samples, N), base |-> v.base]
  <2>1. x.out = Append(v.out, e) /\ v.onset <= n
    BY <1>5 DEF Ends, Speaks
  <2>2. /\ v.onset \in Nat /\ v.from \in Nat /\ v.samples \in Seq(Nat) /\ v.base \in Nat
    BY <1>1, OfDetector
  <2>3. e \in Segment /\ e.onset = v.onset /\ e.end = N + 1
    <3> HIDE DEF n
    <3>1. Append(v.samples, N) \in Seq(Nat) /\ N + 1 \in Nat
      BY <1>1, <2>2
    <3> QED BY <2>2, <3>1 DEF Segment
  <2> HIDE DEF e
  <2>4. e \in Range(x.out) /\ Range(v.out) \subseteq Range(x.out)
    BY <1>3, <2>1, <2>3
  <2>5. ASSUME v.onset <= q PROVE Heard(p, q)
    <3>1. e.onset <= q /\ e.end > p
      <4> HIDE DEF n
      <4> QED BY <1>1, <2>3, <2>5
    <3> QED BY <2>4, <3>1
  <2>6. CASE q <= n
    BY <1>2, <2>4, <2>5, <2>6
  <2>7. CASE ~(q <= n)
    <3>1. v.onset <= q
      <4> HIDE DEF n
      <4> QED BY <1>1, <2>1, <2>2, <2>7
    <3> QED BY <2>5, <3>1
  <2> QED BY <2>6, <2>7
<1>6. CASE ~v.inSpeech /\ RunOn(c, Len(h) + 1, v, x) /\ Opens(c, Len(h) + 1, v, b, x)
  <2>1. x.out = v.out /\ x.inSpeech /\ x.onset \in (v.base + 1) .. N
    BY <1>6 DEF Opens, RunOn
  <2>2. CASE q <= n
    BY <1>2, <1>6, <2>1, <2>2
  <2>3. CASE ~(q <= n)
    <3>1. x.onset <= q
      <4> HIDE DEF n
      <4> QED BY <1>1, <2>1, <2>3
    <3> QED BY <2>1, <3>1
  <2> QED BY <2>2, <2>3
<1>7. CASE ~v.inSpeech /\ ~x.inSpeech /\ x.out = v.out /\ Listens(c, g, x)
  <2>1. CASE q <= n
    BY <1>2, <1>7, <2>1
  <2>2. CASE ~(q <= n)
    <3>1. q = N /\ p \in (x.base + 1) .. Len(g) /\ q = Len(g)
      <4> HIDE DEF n
      <4> QED BY <1>1, <2>2
    <3>2. PICK s \in Range(x.out) : s.end > p
      <4>1. Run(c, x.judged, p, Len(g))
        BY <3>1
      <4>2. /\ c \in Setting /\ g \in Seq(Levels) /\ x \in Detector /\ HasJudged(c, g, x)
            /\ Listens(c, g, x) /\ p \in (x.base + 1) .. Len(g)
        BY <1>1, <1>7, <3>1
      <4> QED BY <4>1, <4>2, CountedRun
    <3>3. s.onset < s.end /\ s.end <= n + 1 /\ s \in Segment /\ s.onset \in Nat /\ s.end \in Nat
      BY <1>1, <1>7, OfSegments DEF AllSound
    <3>4. s.onset <= q
      <4> HIDE DEF n
      <4> QED BY <1>1, <3>1, <3>3
    <3> QED BY <3>2, <3>4
  <2> QED BY <2>1, <2>2
<1> QED BY <1>4, <1>5, <1>6, <1>7

\* It takes start_ms of frames at the gate to open an utterance.
LEMMA CountsKept ==
  ASSUME NEW c, NEW h, NEW g, NEW v, NEW b, NEW x, Hears(c, h, g, v, b, x),
         HasJudged(c, h, v), Counts(c, h, v),
         \/ (x.inSpeech \/ x.out # <<>>) => (v.inSpeech \/ v.out # <<>>)
         \/ RunOn(c, Len(h) + 1, v, x) /\ Opens(c, Len(h) + 1, v, b, x)
  PROVE  Counts(c, g, x)
<1> DEFINE n == Len(h)
           N == n + 1
<1>1. /\ n \in Nat /\ Len(g) = N /\ c.start \in Nat /\ v.base \in Nat /\ v.run \in Nat
      /\ HasJudged(c, g, x) /\ \A i \in 1 .. n : g[i] = h[i]
  <2>1. HasJudged(c, g, x)
    BY JudgedKept
  <2>2. /\ n \in Nat /\ Len(g) = N /\ v \in Detector /\ c \in Setting
        /\ \A i \in 1 .. n : g[i] = h[i]
    BY DEF Hears
  <2> QED BY <2>1, <2>2, OfDetector, OfSetting
<1> HIDE DEF n
<1>2. Loud(c, h) \in SUBSET Loud(c, g) /\ Loud(c, g) \in SUBSET (1 .. N) /\ 1 \in Int /\ N \in Int
  <2>1. \A i \in 1 .. n : i \in 1 .. N
    BY <1>1
  <2> QED BY <1>1, <2>1 DEF Loud, n
<1>3. CASE (x.inSpeech \/ x.out # <<>>) => (v.inSpeech \/ v.out # <<>>)
  <2> SUFFICES ASSUME x.inSpeech \/ x.out # <<>> PROVE Cardinality(Loud(c, g)) >= c.start
    BY DEF Counts
  <2>1. Cardinality(Loud(c, h)) >= c.start
    BY <1>3 DEF Counts
  <2>2. /\ Cardinality(Loud(c, h)) <= Cardinality(Loud(c, g))
        /\ Cardinality(Loud(c, h)) \in Nat /\ Cardinality(Loud(c, g)) \in Nat
    BY <1>2, FramesCount
  <2> QED BY <1>1, <2>1, <2>2
<1>4. CASE RunOn(c, Len(h) + 1, v, x) /\ Opens(c, Len(h) + 1, v, b, x)
  <2> DEFINE t == begun(N, v)
  <2>1. t \in (v.base + 1) .. N /\ Cardinality(Voiced(x.judged, t, N)) = v.run + 1
    BY <1>4 DEF RunOn, n
  <2>2. v.run + 1 >= c.start
    BY <1>4 DEF Opens
  <2> HIDE DEF t
  <2>3. Voiced(x.judged, t, N) \in SUBSET Loud(c, g)
    <3>1. \A i \in t .. N : i \in 1 .. Len(g)
      BY <1>1, <2>1
    <3> QED BY <1>1, <3>1 DEF Voiced, Loud, HasJudged
  <2>4. /\ Cardinality(Voiced(x.judged, t, N)) <= Cardinality(Loud(c, g))
        /\ Cardinality(Loud(c, g)) \in Nat
    BY <1>2, <2>3, FramesCount
  <2>5. Cardinality(Loud(c, g)) >= c.start
    BY <1>1, <2>1, <2>2, <2>4
  <2> QED BY <2>5 DEF Counts
<1> QED BY <1>3, <1>4

\* A frame leaves a steady detector steady.
LEMMA FrameKeeps ==
  ASSUME NEW c \in Setting, NEW h, h \in Seq(Levels), NEW v, Steady(c, h, v), NEW level \in Levels
  PROVE  Steady(c, Append(h, level), processFrame(c, Append(h, level), v))
<1> DEFINE g == Append(h, level)
           n == Len(h)
           x == processFrame(c, g, v)
<1>1. /\ g \in Seq(Levels) /\ Len(g) = n + 1 /\ n \in Nat /\ \A i \in 1 .. n : g[i] = h[i]
  BY AppendProperties
<1> HIDE DEF g
<1>2. /\ v \in Detector /\ HasJudged(c, h, v) /\ HoldsLatest(c, h, v)
      /\ Proportioned(c) => ReachesBack(c, h, v)
      /\ v.inSpeech => Speaks(c, h, v)
      /\ ~v.inSpeech => Listens(c, h, v)
      /\ AllSound(c, h, v) /\ NoneMissed(c, h, v) /\ Counts(c, h, v)
  BY DEF Steady
<1>3. /\ Len(v.ring) <= n /\ v.ring = Frames(n + 1 - Len(v.ring), n + 1)
  <2>1. Len(v.ring) \in Nat /\ v.base \in Nat /\ v.base <= n /\ Len(v.ring) <= n - v.base
    BY <1>2, OfDetector DEF HoldsLatest, HasJudged
  <2>2. v.ring = Frames(n + 1 - Len(v.ring), n + 1)
    BY <1>2 DEF HoldsLatest
  <2> DEFINE l == Len(v.ring)
             B == v.base
  <2>3. l <= n
    <3> HIDE DEF n, l, B
    <3> QED BY <1>1, <2>1 DEF n, l, B
  <2> QED BY <2>2, <2>3
<1>4. PICK b \in BOOLEAN :
        /\ b => g[n + 1] >= c.energy
        /\ Judges(v, b, x)
        /\ v.inSpeech => Continues(c, n + 1, v, b, x) \/ Ends(c, n + 1, v, b, x)
        /\ ~v.inSpeech => \/ Opens(c, n + 1, v, b, x) \/ Runs(c, n + 1, v, b, x)
                          \/ Waits(c, n + 1, v, b, x)
  BY <1>1, <1>2, <1>3, FrameDoes
<1> HIDE DEF x
<1>5. Hears(c, h, g, v, b, x)
  BY <1>1, <1>2, <1>4 DEF Hears
<1>6. HasJudged(c, g, x) /\ x \in Detector /\ v.inSpeech \in BOOLEAN
  BY <1>2, <1>4, <1>5, JudgedKept, OfDetector DEF Judges
<1>7. CASE v.inSpeech /\ Continues(c, n + 1, v, b, x)
  <2>1. Speaks(c, g, x) /\ v.onset <= n
    BY <1>2, <1>5, <1>7, ContinuesSpeaks DEF Speaks
  <2>2. x.inSpeech /\ x.out = v.out /\ Rings(c, n + 1, v, x)
    BY <1>7 DEF Continues
  <2>3. HoldsLatest(c, g, x)
    BY <1>2, <1>5, <2>2, RingKept
  <2>4. Proportioned(c) => ReachesBack(c, g, x)
    BY <1>2, <1>5, <1>7, <2>1, ReachGoesOn
  <2>5. AllSound(c, g, x)
    BY <1>2, <1>5, <2>2, AllSoundKept
  <2>6. NoneMissed(c, g, x)
    BY <1>2, <1>5, <1>7, NoneMissedKept
  <2>7. Counts(c, g, x)
    BY <1>2, <1>5, <1>7, CountsKept
  <2> QED BY <1>6, <2>1, <2>2, <2>3, <2>4, <2>5, <2>6, <2>7 DEF Steady, g, x
<1>8. CASE v.inSpeech /\ Ends(c, n + 1, v, b, x)
  <2>1. ~x.inSpeech /\ Rings(c, n + 1, v, x) /\ x.run = 0 /\ x.gap = 0
    BY <1>8 DEF Ends
  <2>2. Speaks(c, h, v) /\ v.onset <= n
    BY <1>2, <1>8 DEF Speaks
  <2>3. HoldsLatest(c, g, x)
    BY <1>2, <1>5, <2>1, RingKept
  <2>4. Proportioned(c) => ReachesBack(c, g, x)
    BY <1>2, <1>5, <1>8, <2>2, ReachEnds
  <2>5. AllSound(c, g, x)
    BY <1>2, <1>5, <1>8, <2>2, AllSoundKept
  <2>6. NoneMissed(c, g, x)
    BY <1>2, <1>5, <1>8, NoneMissedKept
  <2>7. Counts(c, g, x)
    BY <1>2, <1>5, <1>8, CountsKept
  <2>8. Listens(c, g, x)
    BY <1>1, <1>2, <1>5, <1>8, <2>1, EndsListens
  <2> QED BY <1>6, <2>1, <2>3, <2>4, <2>5, <2>6, <2>7, <2>8 DEF Steady, g, x
<1>9. ASSUME ~v.inSpeech, Opens(c, n + 1, v, b, x) \/ Runs(c, n + 1, v, b, x)
      PROVE  RunOn(c, n + 1, v, x)
  <2>1. b
    BY <1>9 DEF Opens, Runs
  <2>2. x.judged[n + 1] <=> b
    BY <1>2, <1>5, JudgedKept
  <2> QED BY <1>2, <1>5, <1>9, <2>1, <2>2, RunGoesOn
<1>10. CASE ~v.inSpeech /\ Opens(c, n + 1, v, b, x)
  <2>1. RunOn(c, n + 1, v, x) /\ x.inSpeech /\ x.out = v.out
    BY <1>9, <1>10 DEF Opens
  <2>2. Speaks(c, g, x) /\ HoldsLatest(c, g, x) /\ (Proportioned(c) => ReachesBack(c, g, x))
    BY <1>2, <1>5, <1>10, <2>1, OpensSpeaks
  <2>3. AllSound(c, g, x)
    BY <1>2, <1>5, <2>1, AllSoundKept
  <2>4. NoneMissed(c, g, x)
    BY <1>2, <1>5, <1>10, <2>1, NoneMissedKept
  <2>5. Counts(c, g, x)
    BY <1>2, <1>5, <1>10, <2>1, CountsKept
  <2> QED BY <1>6, <2>1, <2>2, <2>3, <2>4, <2>5 DEF Steady, g, x
<1>11. CASE ~v.inSpeech /\ (Runs(c, n + 1, v, b, x) \/ Waits(c, n + 1, v, b, x))
  <2>1. ~x.inSpeech /\ x.out = v.out /\ Rings(c, n + 1, v, x)
    BY <1>11 DEF Runs, Waits
  <2>2. Listens(c, g, x)
    BY <1>2, <1>5, <1>9, <1>11, RunsListens, WaitsListens
  <2>3. HoldsLatest(c, g, x)
    BY <1>2, <1>5, <2>1, RingKept
  <2>4. Proportioned(c) => ReachesBack(c, g, x)
    BY <1>2, <1>5, <1>11, <2>1, ReachListens
  <2>5. AllSound(c, g, x)
    BY <1>2, <1>5, <2>1, AllSoundKept
  <2>6. NoneMissed(c, g, x)
    BY <1>2, <1>5, <1>11, <2>1, <2>2, NoneMissedKept
  <2>7. Counts(c, g, x)
    BY <1>2, <1>5, <1>11, <2>1, CountsKept
  <2> QED BY <1>6, <2>1, <2>2, <2>3, <2>4, <2>5, <2>6, <2>7 DEF Steady, g, x
<1> QED BY <1>4, <1>6, <1>7, <1>8, <1>10, <1>11
-----------------------------------------------------------------------------
(* A chunk, frame by frame.                                                *)

\* What push does for one frame.
Feed(c, s, level) ==
  LET fed == Append(s.h, level) IN [h |-> fed, v |-> processFrame(c, fed, s.v)]

\* What a fold over the frames of q is when the first n are heard, on every set of their places.
Folds(c, f, b, q, n) ==
  f = [s \in SUBSET (1 .. n) |-> IF s = {} THEN b ELSE Feed(c, f[s \ {Max(s)}], q[Max(s)])]

\* The greatest of the first n + 1 numbers is n + 1 itself.
LEMMA LastIsMax ==
  ASSUME NEW n \in Nat, NEW s \in SUBSET (1 .. n + 1), n + 1 \in s
  PROVE  Max(s) = n + 1 /\ s \ {n + 1} \in SUBSET (1 .. n)
<1>1. \A y \in s : n + 1 >= y
  OBVIOUS
<1>2. ASSUME NEW x \in s, \A y \in s : x >= y PROVE x = n + 1
  BY <1>2
<1>3. Max(s) = n + 1
  BY <1>1, <1>2 DEF Max
<1>4. \A i \in 1 .. n + 1 : i \in 1 .. n \/ i = n + 1
  OBVIOUS
<1> QED BY <1>3, <1>4

\* There is such a function, for a chunk of any length.
LEMMA FoldExists ==
  ASSUME NEW c, NEW b, NEW q, NEW N \in Nat
  PROVE  \E f : Folds(c, f, b, q, N)
<1> DEFINE S == {n \in Nat : \E f : Folds(c, f, b, q, n)}
<1>1. 0 \in S
  <2> DEFINE f == [s \in SUBSET (1 .. 0) |-> b]
  <2>1. \A s \in SUBSET (1 .. 0) : s = {}
    OBVIOUS
  <2>2. Folds(c, f, b, q, 0)
    BY <2>1 DEF Folds
  <2> HIDE DEF f
  <2> QED BY <2>2
<1>2. ASSUME NEW n \in Nat, n \in S PROVE n + 1 \in S
  <2>1. PICK f : Folds(c, f, b, q, n)
    BY <1>2
  <2> DEFINE g == [s \in SUBSET (1 .. n + 1) |->
                     IF n + 1 \in s THEN Feed(c, f[s \ {n + 1}], q[n + 1]) ELSE f[s]]
             step == [s \in SUBSET (1 .. n + 1) |->
                        IF s = {} THEN b ELSE Feed(c, g[s \ {Max(s)}], q[Max(s)])]
  <2>2. ASSUME NEW s \in SUBSET (1 .. n + 1)
        PROVE  g[s] = IF s = {} THEN b ELSE Feed(c, g[s \ {Max(s)}], q[Max(s)])
    <3>1. CASE n + 1 \in s
      <4>1. Max(s) = n + 1 /\ s \ {n + 1} \in SUBSET (1 .. n)
        BY <3>1, LastIsMax
      <4>2. SUBSET (1 .. n) \subseteq SUBSET (1 .. n + 1)
        OBVIOUS
      <4>3. g[s \ {n + 1}] = f[s \ {n + 1}]
        BY <4>1, <4>2
      <4>4. g[s] = Feed(c, f[s \ {n + 1}], q[n + 1])
        BY <3>1
      <4> HIDE DEF g
      <4> QED BY <3>1, <4>1, <4>3, <4>4
    <3>2. CASE n + 1 \notin s
      <4>1. s \in SUBSET (1 .. n)
        <5>1. \A i \in 1 .. n + 1 : i \in 1 .. n \/ i = n + 1
          OBVIOUS
        <5> QED BY <3>2, <5>1
      <4>2. f[s] = IF s = {} THEN b ELSE Feed(c, f[s \ {Max(s)}], q[Max(s)])
        BY <2>1, <4>1 DEF Folds
      <4>3. g[s] = f[s]
        BY <3>2
      <4>4. g[s \ {Max(s)}] = f[s \ {Max(s)}]
        BY <3>2
      <4> HIDE DEF g
      <4> QED BY <4>2, <4>3, <4>4
    <3> QED BY <3>1, <3>2
  <2>3. g = [s \in SUBSET (1 .. n + 1) |-> g[s]]
    OBVIOUS
  <2> HIDE DEF g
  <2>4. g = step
    BY <2>2, <2>3
  <2>5. Folds(c, g, b, q, n + 1)
    BY <2>4 DEF Folds
  <2> QED BY <2>5
<1>3. Nat \subseteq S
  BY <1>1, <1>2, Counting
<1> QED BY <1>3

\* g[k] is the detector, and what it has heard, when it has taken k frames of the chunk q.
Takes(c, h, v, q, g) ==
  /\ g[0] = [h |-> h, v |-> v]
  /\ \A k \in Nat : k < Len(q) => g[k + 1] = Feed(c, g[k], q[k + 1])
  /\ push(c, h, v, q) = g[Len(q)]

\* A chunk is heard frame by frame, in the order of its frames.
LEMMA PushSteps ==
  ASSUME NEW c, NEW h, NEW v, NEW q \in Seq(Levels)
  PROVE  \E g : Takes(c, h, v, q, g)
<1> DEFINE b == [h |-> h, v |-> v]
           n == Len(q)
           N == DOMAIN q
           f == CHOOSE e : e = [s \in SUBSET N |->
                  IF s = {} THEN b ELSE Feed(c, e[s \ {Max(s)}], q[Max(s)])]
           g == [k \in 0 .. n |-> f[1 .. k]]
<1>1. n \in Nat /\ N = 1 .. n
  OBVIOUS
<1>2. push(c, h, v, q) = f[N]
  BY DEF push, FoldLeft, MapThenFoldSet, Feed
<1> HIDE DEF b, n
<1>3. f = CHOOSE e : Folds(c, e, b, q, n)
  BY <1>1 DEF Folds
<1> HIDE DEF f, N
<1>4. Folds(c, f, b, q, n)
  BY <1>1, <1>3, FoldExists
<1>5. g[0] = b
  <2>1. 1 .. 0 = {}
    OBVIOUS
  <2>2. f[{}] = b
    BY <1>4 DEF Folds
  <2> QED BY <1>1, <2>1, <2>2
<1>6. ASSUME NEW k \in Nat, k < n PROVE g[k + 1] = Feed(c, g[k], q[k + 1])
  <2>1. k \in 0 .. n /\ k + 1 \in 0 .. n
    BY <1>1, <1>6
  <2>2. 1 .. k + 1 \in SUBSET (1 .. n) /\ k + 1 \in 1 .. k + 1
    BY <1>1, <1>6
  <2>3. Max(1 .. k + 1) = k + 1
    BY <2>2, LastIsMax
  <2>4. (1 .. k + 1) \ {k + 1} = 1 .. k
    OBVIOUS
  <2>5. f[1 .. k + 1] = Feed(c, f[1 .. k], q[k + 1])
    BY <1>4, <2>2, <2>3, <2>4 DEF Folds
  <2> QED BY <2>1, <2>5
<1>7. push(c, h, v, q) = g[n]
  BY <1>1, <1>2
<1> HIDE DEF g
<1> QED BY <1>5, <1>6, <1>7 DEF Takes, b, n

\* A chunk leaves a steady detector steady.
LEMMA PushKeeps ==
  ASSUME NEW c \in Setting, NEW h \in Seq(Levels), NEW v, Steady(c, h, v), NEW q \in Seq(Levels)
  PROVE  LET p == push(c, h, v, q)
         IN  p.h \in Seq(Levels) /\ Len(p.h) = Len(h) + Len(q) /\ Steady(c, p.h, p.v)
<1>0. PICK g : Takes(c, h, v, q, g)
  BY PushSteps
<1>1. /\ g[0] = [h |-> h, v |-> v]
      /\ \A k \in Nat : k < Len(q) => g[k + 1] = Feed(c, g[k], q[k + 1])
      /\ push(c, h, v, q) = g[Len(q)]
  BY <1>0 DEF Takes
<1> DEFINE Fed(k) == /\ g[k].h \in Seq(Levels) /\ Len(g[k].h) = Len(h) + k
                     /\ Steady(c, g[k].h, g[k].v)
           S == {k \in Nat : k <= Len(q) => Fed(k)}
<1>2. Len(q) \in Nat /\ Len(h) \in Nat
  OBVIOUS
<1>3. 0 \in S
  BY <1>1, <1>2
<1>4. ASSUME NEW k \in Nat, k \in S PROVE k + 1 \in S
  <2> SUFFICES ASSUME k + 1 <= Len(q) PROVE Fed(k + 1)
    OBVIOUS
  <2>1. Fed(k) /\ k < Len(q) /\ q[k + 1] \in Levels
    BY <1>2, <1>4
  <2> DEFINE y == g[k].h
             z == Append(y, q[k + 1])
  <2>2. g[k + 1].h = z /\ g[k + 1].v = processFrame(c, z, g[k].v)
    <3>1. g[k + 1] = Feed(c, g[k], q[k + 1])
      BY <1>1, <2>1
    <3>2. Feed(c, g[k], q[k + 1]) = [h |-> z, v |-> processFrame(c, z, g[k].v)]
      BY DEF Feed
    <3> HIDE DEF z
    <3> QED BY <3>1, <3>2
  <2>3. Steady(c, z, processFrame(c, z, g[k].v))
    BY <2>1, FrameKeeps
  <2>4. z \in Seq(Levels) /\ Len(z) = Len(h) + (k + 1)
    <3>1. y \in Seq(Levels) /\ Len(y) = Len(h) + k
      BY <2>1
    <3> HIDE DEF y
    <3>2. z \in Seq(Levels) /\ Len(z) = Len(y) + 1
      BY <2>1, <3>1, AppendProperties
    <3> QED BY <1>2, <3>1, <3>2
  <2> QED BY <2>2, <2>3, <2>4
<1> HIDE DEF Fed
<1>5. Nat \subseteq S
  BY <1>3, <1>4, Counting
<1>6. Fed(Len(q))
  BY <1>2, <1>5
<1> QED BY <1>1, <1>6 DEF Fed

\* A detector that has just been built is steady.
LEMMA ResetKeeps ==
  ASSUME NEW c \in Setting, NEW h \in Seq(Levels), NEW v \in Detector,
         HasJudged(c, h, v), AllSound(c, h, v), Counts(c, h, v)
  PROVE  Steady(c, h, resetVad(v, Len(h)))
<1> DEFINE n == Len(h)
           x == resetVad(v, n)
<1>1. n \in Nat /\ v.out \in Seq(Segment) /\ v.judged \in Seq(BOOLEAN)
  BY OfDetector
<1>2. /\ x.base = n /\ x.ring = <<>> /\ x.run = 0 /\ x.gap = 0 /\ x.inSpeech = FALSE
      /\ x.out = v.out /\ x.judged = v.judged /\ x \in Detector
  <2> HIDE DEF n
  <2>1. <<>> \in Seq(Nat)
    OBVIOUS
  <2> QED BY <1>1, <2>1 DEF resetVad, FreshVad, Detector
<1> HIDE DEF x
<1>3. HasJudged(c, h, x)
  BY <1>1, <1>2 DEF HasJudged
<1>4. Len(x.ring) = 0
  BY <1>2
<1>5. HoldsLatest(c, h, x)
  <2>1. 0 <= n - n /\ 0 <= ringFrames(c)
    BY <1>1, RingIsDeep
  <2>2. <<>> = Frames(n + 1, n + 1) /\ n + 1 - 0 = n + 1
    BY <1>1, NoFrames
  <2> QED BY <1>2, <1>4, <2>1, <2>2 DEF HoldsLatest
<1>6. ReachesBack(c, h, x)
  <2>1. 0 = n - n
    BY <1>1
  <2> QED BY <1>2, <1>4, <2>1 DEF ReachesBack
<1>7. (n + 1) .. n = {}
  BY <1>1
<1>8. Listens(c, h, x) /\ NoneMissed(c, h, x)
  BY <1>2, <1>7 DEF Listens, NoneMissed
<1>9. AllSound(c, h, x) /\ Counts(c, h, x)
  BY <1>2 DEF AllSound, Counts
<1> QED BY <1>2, <1>3, <1>5, <1>6, <1>8, <1>9 DEF Steady, x

\* What the detector of a new window knows of it.
LEMMA FreshIsSteady ==
  ASSUME NEW c \in Setting
  PROVE  /\ Steady(c, <<>>, FreshVad(0)) /\ FreshVad(0) \in Detector
         /\ AllSound(c, <<>>, FreshVad(0)) /\ Counts(c, <<>>, FreshVad(0))
<1> DEFINE v == FreshVad(0)
           h == <<>>
<1>1. <<>> \in Seq(Nat) /\ <<>> \in Seq(Segment) /\ <<>> \in Seq(BOOLEAN) /\ h \in Seq(Levels)
  OBVIOUS
<1>2. v \in Detector /\ v.out = <<>> /\ v.judged = <<>> /\ v.base = 0 /\ v.inSpeech = FALSE
      /\ resetVad(v, 0) = v
  BY <1>1 DEF FreshVad, resetVad, Detector
<1> HIDE DEF v
<1>3. Len(h) = 0 /\ 1 .. 0 = {} /\ Range(<<>>) = {} /\ DOMAIN <<>> = {}
  BY DEF Range
<1>4. HasJudged(c, h, v)
  BY <1>2, <1>3 DEF HasJudged
<1>5. AllSound(c, h, v) /\ Counts(c, h, v)
  BY <1>2, <1>3 DEF AllSound, Counts
<1>6. Steady(c, h, resetVad(v, Len(h)))
  BY <1>1, <1>2, <1>4, <1>5, ResetKeeps
<1> QED BY <1>2, <1>3, <1>5, <1>6 DEF v

\* To flush the detector ends the utterance that is open.
LEMMA FlushKeeps ==
  ASSUME NEW c \in Setting, NEW h \in Seq(Levels), NEW v, Steady(c, h, v)
  PROVE  LET x == flush(v, Len(h))
         IN  x \in Detector /\ AllSound(c, h, x) /\ Counts(c, h, x)
<1> DEFINE n == Len(h)
           x == flush(v, n)
           e == Current(v, n + 1)
<1>1. /\ v \in Detector /\ AllSound(c, h, v) /\ Counts(c, h, v)
      /\ v.inSpeech => Speaks(c, h, v)
  BY DEF Steady
<1>2. CASE ~v.inSpeech
  BY <1>1, <1>2 DEF flush
<1>3. CASE v.inSpeech
  <2>1. /\ n \in Nat /\ v.out \in Seq(Segment) /\ v.judged \in Seq(BOOLEAN) /\ v.onset \in Nat
        /\ v.from \in Nat /\ v.samples \in Seq(Nat) /\ v.base \in Nat
    BY <1>1, OfDetector
  <2>2. /\ v.onset \in (v.base + 1) .. n /\ Sound(c, v.judged, e)
        /\ \A s \in Range(v.out) : s.end <= v.onset
    BY <1>1, <1>3 DEF Speaks
  <2>3. e \in Segment /\ e.onset = v.onset /\ e.end = n + 1
    <3> HIDE DEF n
    <3> QED BY <2>1 DEF Current, Segment
  <2>4. x = emit(v, n + 1) /\ x.out = Append(v.out, e) /\ x.judged = v.judged
    <3>1. x = emit(v, n + 1)
      BY <1>3 DEF flush
    <3> HIDE DEF x
    <3> QED BY <1>1, <3>1 DEF emit, Current, Detector
  <2> HIDE DEF e
  <2>5. x \in Detector
    <3>1. Append(v.out, e) \in Seq(Segment) /\ <<>> \in Seq(Nat)
      BY <2>1, <2>3
    <3>2. x = [v EXCEPT !.out = Append(v.out, e), !.inSpeech = FALSE, !.run = 0, !.gap = 0,
                        !.silence = 0, !.samples = <<>>]
      BY <2>4 DEF emit, Current, e
    <3> HIDE DEF x
    <3> QED BY <1>1, <3>1, <3>2 DEF Detector
  <2> HIDE DEF x
  <2>6. /\ Range(x.out) = Range(v.out) \cup {e}
        /\ DOMAIN x.out = 1 .. Len(v.out) + 1 /\ DOMAIN v.out = 1 .. Len(v.out)
        /\ Len(v.out) \in Nat /\ x.out[Len(v.out) + 1] = e
        /\ \A i \in 1 .. Len(v.out) : x.out[i] = v.out[i]
    <3> DEFINE r == v.out
    <3>1. r \in Seq(Segment) /\ e \in Segment
      BY <2>1, <2>3
    <3>2. x.out = Append(r, e)
      BY <2>4
    <3> HIDE DEF r
    <3>3. /\ Range(Append(r, e)) = Range(r) \cup {e}
          /\ DOMAIN Append(r, e) = 1 .. Len(r) + 1 /\ DOMAIN r = 1 .. Len(r) /\ Len(r) \in Nat
          /\ Append(r, e)[Len(r) + 1] = e /\ \A i \in 1 .. Len(r) : Append(r, e)[i] = r[i]
      BY <3>1, AppendRange
    <3> QED BY <3>2, <3>3 DEF r
  <2>7. 1 <= e.onset /\ e.onset < e.end /\ e.end <= n + 1
    <3> DEFINE o == v.onset
               B == v.base
    <3>1. e.onset = o /\ o \in (B + 1) .. n /\ B \in Nat
      BY <2>1, <2>2, <2>3
    <3> HIDE DEF n, o, B
    <3> QED BY <2>1, <2>3, <3>1
  <2>8. ASSUME NEW s \in Range(x.out)
        PROVE  Sound(c, x.judged, s) /\ 1 <= s.onset /\ s.onset < s.end /\ s.end <= Len(h) + 1
    BY <1>1, <2>2, <2>4, <2>6, <2>7 DEF AllSound
  <2>9. ASSUME NEW j \in DOMAIN x.out, NEW k \in DOMAIN x.out, j < k
        PROVE  x.out[j].end <= x.out[k].onset
    <3> DEFINE m == Len(v.out)
    <3>1. CASE k \in 1 .. m
      <4>1. j \in 1 .. m
        <5> HIDE DEF m
        <5> QED BY <2>6, <2>9, <3>1 DEF m
      <4> QED BY <1>1, <2>6, <2>9, <3>1, <4>1 DEF AllSound
    <3>2. CASE k \notin 1 .. m
      <4>1. k = m + 1 /\ j \in 1 .. m
        <5> HIDE DEF m
        <5> QED BY <2>6, <2>9, <3>2 DEF m
      <4>2. x.out[j] \in Range(v.out)
        BY <2>6, <4>1 DEF Range
      <4> QED BY <2>2, <2>3, <2>6, <4>1, <4>2
    <3> QED BY <3>1, <3>2
  <2>10. AllSound(c, h, x)
    BY <2>8, <2>9 DEF AllSound
  <2>11. Counts(c, h, x)
    BY <1>1, <1>3 DEF Counts
  <2> QED BY <2>5, <2>10, <2>11 DEF x
<1> QED BY <1>2, <1>3
-----------------------------------------------------------------------------
(* The window.                                                             *)

\* A prefix of what is put together is the first part.
LEMMA FirstOfTwo ==
  ASSUME NEW f \in Seq(Nat), NEW g \in Seq(Nat)
  PROVE  SubSeq(f \o g, 1, Len(f)) = f /\ Len(f \o g) = Len(f) + Len(g)
<1> DEFINE s == f \o g
           n == Len(f)
           t == SubSeq(s, 1, n)
<1>1. /\ s \in Seq(Nat) /\ Len(s) = n + Len(g) /\ n \in Nat /\ Len(g) \in Nat
      /\ \A i \in 1 .. n : s[i] = f[i]
  <2>1. s \in Seq(Nat) /\ Len(s) = n + Len(g) /\ n \in Nat /\ Len(g) \in Nat
    BY ConcatProperties
  <2>2. ASSUME NEW i \in 1 .. n PROVE s[i] = f[i]
    <3>1. i \in 1 .. Len(f) + Len(g) /\ i <= Len(f)
      BY <2>1
    <3> QED BY <3>1, ConcatProperties
  <2> QED BY <2>1, <2>2
<1> HIDE DEF s
<1>2. t \in Seq(Nat) /\ Len(t) = n /\ \A i \in 1 .. n : t[i] = s[i]
  <2> HIDE DEF n
  <2>1. 1 \in Int /\ n \in Int /\ \A i \in 1 .. n : s[i] \in Nat
    BY <1>1
  <2>2. /\ t \in Seq(Nat) /\ Len(t) = IF 1 <= n THEN n - 1 + 1 ELSE 0
        /\ \A i \in 1 .. n - 1 + 1 : t[i] = s[1 + i - 1]
    BY <2>1, SubSeqProperties
  <2> QED BY <1>1, <2>2
<1> HIDE DEF t
<1>3. t = f
  BY <1>1, <1>2, SeqEqual
<1> QED BY <1>1, <1>3 DEF s, t

\* The first m frames of a window.
LEMMA FirstFrames ==
  ASSUME NEW n \in Nat, NEW m \in 0 .. n
  PROVE  SubSeq(Frames(1, n + 1), 1, m) = Frames(1, m + 1)
<1> DEFINE N == n + 1
<1>1. N \in Nat /\ 1 <= N /\ 1 \in 1 .. N - 1 + 1 /\ m \in 1 - 1 .. N - 1 /\ m \in Int
  OBVIOUS
<1> HIDE DEF N
<1>2. SubSeq(Frames(1, N), 1, m) = Frames(1 + 1 - 1, 1 + m)
  BY <1>1, FramesCut
<1>3. 1 + 1 - 1 = 1 /\ 1 + m = m + 1
  BY <1>1
<1> QED BY <1>2, <1>3 DEF N

\* The buffer of a window takes a chunk: it keeps its first 2 * max frames.
LEMMA BufferGrows ==
  ASSUME NEW c \in Setting, NEW n \in Nat, NEW m \in Nat
  PROVE  retain(c, Buffer(c, n) \o [k \in 1 .. m |-> n + k]) = Buffer(c, n + m)
<1> DEFINE M == 2 * c.max
           g == [k \in 1 .. m |-> n + k]
           N == n + m
<1>1. M \in Nat /\ N \in Nat
  <2>1. c.max \in Nat
    BY OfSetting
  <2> QED BY <2>1
<1>2. retain(c, Buffer(c, n) \o g) = LET s == Frames(1, Min({n, M}) + 1) \o g
                                     IN  SubSeq(s, 1, Min({Len(s), M}))
  BY DEF retain, Buffer
<1>3. Buffer(c, N) = Frames(1, Min({N, M}) + 1)
  BY DEF Buffer
<1> HIDE DEF M
<1>4. /\ Min({n, M}) = IF n <= M THEN n ELSE M
      /\ Min({N, M}) = IF N <= M THEN N ELSE M
  BY <1>1, OfTwo
<1>5. CASE n <= M
  <2> DEFINE s == Frames(1, n + 1) \o g
  <2>1. s = Frames(1, N + 1)
    BY FramesJoin
  <2>2. Len(s) = N
    <3> HIDE DEF N, s
    <3> QED BY <1>1, <2>1, WindowIs
  <2>3. Min({n, M}) = n
    BY <1>4, <1>5
  <2> DEFINE l == Min({N, M})
  <2>4. l \in 0 .. N
    <3> HIDE DEF N
    <3> QED BY <1>1, <1>4
  <2>5. retain(c, Buffer(c, n) \o g) = SubSeq(Frames(1, N + 1), 1, l)
    BY <1>2, <2>1, <2>2, <2>3
  <2> HIDE DEF N, l
  <2>6. SubSeq(Frames(1, N + 1), 1, l) = Frames(1, l + 1)
    BY <1>1, <2>4, FirstFrames
  <2> QED BY <1>3, <2>5, <2>6 DEF l, N
<1>6. CASE ~(n <= M)
  <2> DEFINE f == Frames(1, M + 1)
             s == f \o g
  <2>1. f \in Seq(Nat) /\ Len(f) = M
    BY <1>1, WindowIs
  <2>2. g \in Seq(Nat) /\ Len(g) = m
    <3>1. g \in [1 .. m -> Nat]
      OBVIOUS
    <3> HIDE DEF g
    <3>2. g \in Seq(Nat)
      BY <3>1, SeqDef
    <3>3. DOMAIN g = 1 .. m /\ DOMAIN g = 1 .. Len(g) /\ Len(g) \in Nat
      BY <3>1, <3>2, LenProperties
    <3> QED BY <3>2, <3>3
  <2>3. Min({n, M}) = M /\ Min({N, M}) = M
    <3>1. ~(N <= M) \/ N = M
      BY <1>1, <1>6
    <3> QED BY <1>4, <1>6, <3>1
  <2>4. SubSeq(s, 1, M) = f /\ Len(s) = M + m
    <3> HIDE DEF f, g
    <3> QED BY <2>1, <2>2, FirstOfTwo
  <2>5. Min({M + m, M}) = M
    <3>1. M + m \in Int /\ M \in Int
      BY <1>1
    <3>2. Min({M + m, M}) = IF M + m <= M THEN M + m ELSE M
      BY <3>1, OfTwo
    <3> QED BY <1>1, <3>2
  <2>6. retain(c, Buffer(c, n) \o g) = SubSeq(s, 1, Min({Len(s), M}))
    BY <1>2, <2>3
  <2> HIDE DEF s
  <2> QED BY <1>3, <2>3, <2>4, <2>5, <2>6
<1> QED BY <1>5, <1>6

\* The verdict spends the window, and an empty one is not spent.
LEMMA Spent ==
  ASSUME NEW c, NEW h, NEW frames
  PROVE  finish(c, h, frames).done = TRUE /\ None.done = FALSE
BY DEF finish, None

\* The chunks are in both, the detector and the window, until the verdict.
LEMMA HearKeeps ==
  ASSUME NEW w \in BOOLEAN, NEW h \in Seq(Levels), NEW v, NEW k, NEW q \in Seq(Levels),
         cfg \in Setting, Steady(cfg, h, v), w => k = Buffer(cfg, Len(h)), hear(w, h, v, k, q)
  PROVE  /\ heard' \in Seq(Levels) /\ Steady(cfg, heard', vad')
         /\ w /\ ~utterance'.done => kept' = Buffer(cfg, Len(heard'))
         /\ w /\ utterance'.done => utterance' = finish(cfg, heard', Buffer(cfg, Len(heard')))
<1> DEFINE fed == push(cfg, h, v, q)
           all == retain(cfg, k \o [n \in 1 .. Len(q) |-> Len(h) + n])
           endpoint == w /\ Len(fed.v.out) > Len(v.out)
<1>1. /\ heard' = fed.h /\ vad' = fed.v
      /\ kept' = IF ~w THEN k ELSE IF endpoint THEN <<>> ELSE all
      /\ utterance' = IF endpoint THEN finish(cfg, fed.h, all) ELSE None
  BY DEF hear
<1>2. fed.h \in Seq(Levels) /\ Len(fed.h) = Len(h) + Len(q) /\ Steady(cfg, fed.h, fed.v)
  BY PushKeeps
<1>3. ASSUME w PROVE all = Buffer(cfg, Len(fed.h))
  <2> DEFINE n == Len(h)
             m == Len(q)
  <2>1. n \in Nat /\ m \in Nat
    OBVIOUS
  <2>2. k = Buffer(cfg, n)
    BY <1>3
  <2>3. retain(cfg, Buffer(cfg, n) \o [j \in 1 .. m |-> n + j]) = Buffer(cfg, n + m)
    <3> HIDE DEF n, m
    <3> QED BY <2>1, BufferGrows
  <2> QED BY <1>2, <2>2, <2>3
<1> HIDE DEF fed, all
<1>4. endpoint \in BOOLEAN
  OBVIOUS
<1>5. CASE endpoint
  <2>1. w /\ utterance' = finish(cfg, fed.h, all) /\ utterance'.done = TRUE
    BY <1>1, <1>5, Spent
  <2> QED BY <1>1, <1>2, <1>3, <2>1
<1>6. CASE ~endpoint
  <2>1. utterance'.done = FALSE /\ (w => kept' = all)
    BY <1>1, <1>6, Spent
  <2> HIDE DEF endpoint
  <2> QED BY <1>1, <1>2, <1>3, <2>1
<1> QED BY <1>5, <1>6

\* A setting is one of those Config may load.
LEMMA SettingsAre == ASSUME cfg \in Settings PROVE cfg \in Setting
BY SettingsAssumption DEF Setting

\* A chunk is a sequence of levels.
LEMMA ChunkIs ==
  ASSUME NEW n \in Nat, NEW q \in [1 .. n -> Levels]
  PROVE  q \in Seq(Levels)
BY SeqDef

\* What a steady detector is good for once the gate is shut.
LEMMA SteadyIs ==
  ASSUME NEW c, NEW h, NEW v, Steady(c, h, v)
  PROVE  v \in Detector /\ HasJudged(c, h, v) /\ AllSound(c, h, v) /\ Counts(c, h, v)
BY DEF Steady

\* The window begins with the gate shut and nothing heard.
LEMMA InvInit == Init => Inv
<1> SUFFICES ASSUME Init PROVE Inv
  OBVIOUS
<1>1. /\ cfg \in Settings /\ phase = "shut" /\ whole = FALSE
      /\ heard = <<>> /\ vad = FreshVad(0)
  BY DEF Init
<1>2. cfg \in Setting
  BY <1>1, SettingsAre
<1>3. /\ FreshVad(0) \in Detector /\ AllSound(cfg, <<>>, FreshVad(0))
      /\ Counts(cfg, <<>>, FreshVad(0))
  BY <1>2, FreshIsSteady
<1>4. heard \in Seq(Levels)
  BY <1>1
<1> QED BY <1>1, <1>3, <1>4 DEF Inv

\* Every call leaves the invariant true.
LEMMA InvNext == Inv /\ [Next]_vars => Inv'
<1> SUFFICES ASSUME Inv, [Next]_vars PROVE Inv'
  OBVIOUS
<1>1. /\ cfg \in Settings /\ heard \in Seq(Levels) /\ phase \in {"open", "shut"}
      /\ whole \in BOOLEAN /\ vad \in Detector /\ AllSound(cfg, heard, vad)
      /\ Counts(cfg, heard, vad) /\ (phase = "open" => Steady(cfg, heard, vad))
      /\ phase = "open" /\ whole /\ ~utterance.done => kept = Buffer(cfg, Len(heard))
      /\ whole /\ utterance.done => utterance = finish(cfg, heard, Buffer(cfg, Len(heard)))
  BY DEF Inv
<1>2. cfg \in Setting
  BY <1>1, SettingsAre
<1>3. ASSUME NEW w \in BOOLEAN, NEW n \in 0 .. MaxPreRoll, NEW q \in [1 .. n -> Levels],
             Open(w, q)
      PROVE  Inv'
  <2>1. /\ phase' = "open" /\ whole' = w /\ cfg' = cfg
        /\ hear(w, <<>>, FreshVad(0), <<>>, q)
    BY <1>3 DEF Open
  <2>2. q \in Seq(Levels) /\ <<>> \in Seq(Levels) /\ Len(<<>>) = 0
    BY SettingsAssumption, ChunkIs
  <2>3. Steady(cfg, <<>>, FreshVad(0))
    BY <1>2, FreshIsSteady
  <2>4. <<>> = Buffer(cfg, 0)
    <3>1. 2 * cfg.max \in Int /\ 0 <= 2 * cfg.max
      <4>1. cfg.max \in Nat
        BY <1>2, OfSetting
      <4> QED BY <4>1
    <3>2. Min({0, 2 * cfg.max}) = 0
      <4> DEFINE M == 2 * cfg.max
      <4>1. M \in Int /\ 0 <= M
        BY <3>1
      <4> HIDE DEF M
      <4>2. Min({0, M}) = 0
        BY <4>1, OfTwo
      <4> QED BY <4>2 DEF M
    <3>3. <<>> = Frames(1, 1) /\ 0 + 1 = 1
      BY NoFrames
    <3> QED BY <3>2, <3>3 DEF Buffer
  <2>5. /\ heard' \in Seq(Levels) /\ Steady(cfg, heard', vad')
        /\ w /\ ~utterance'.done => kept' = Buffer(cfg, Len(heard'))
        /\ w /\ utterance'.done => utterance' = finish(cfg, heard', Buffer(cfg, Len(heard')))
    BY <1>2, <2>1, <2>2, <2>3, <2>4, HearKeeps
  <2>6. vad' \in Detector /\ AllSound(cfg, heard', vad') /\ Counts(cfg, heard', vad')
    BY <2>5, SteadyIs
  <2> QED BY <1>1, <2>1, <2>5, <2>6 DEF Inv
<1>4. ASSUME NEW n \in 1 .. 2, NEW q \in [1 .. n -> Levels], Drain(q)
      PROVE  Inv'
  <2>1. /\ phase = "open" /\ ~utterance.done /\ cfg' = cfg /\ phase' = phase /\ whole' = whole
        /\ hear(whole, heard, vad, kept, q)
    BY <1>4 DEF Drain
  <2>2. q \in Seq(Levels)
    BY ChunkIs
  <2>3. /\ heard' \in Seq(Levels) /\ Steady(cfg, heard', vad')
        /\ whole /\ ~utterance'.done => kept' = Buffer(cfg, Len(heard'))
        /\ whole /\ utterance'.done => utterance' = finish(cfg, heard', Buffer(cfg, Len(heard')))
    BY <1>1, <1>2, <2>1, <2>2, HearKeeps
  <2>4. vad' \in Detector /\ AllSound(cfg, heard', vad') /\ Counts(cfg, heard', vad')
    BY <2>3, SteadyIs
  <2> QED BY <1>1, <2>1, <2>3, <2>4 DEF Inv
<1>5. CASE Reconnect
  <2>1. /\ phase = "open" /\ vad' = resetVad(vad, Len(heard))
        /\ cfg' = cfg /\ phase' = phase /\ whole' = whole /\ heard' = heard /\ kept' = kept
        /\ utterance' = utterance
    BY <1>5 DEF Reconnect
  <2>2. Steady(cfg, heard, resetVad(vad, Len(heard)))
    <3>1. HasJudged(cfg, heard, vad)
      BY <1>1, <2>1, SteadyIs
    <3> QED BY <1>1, <1>2, <3>1, ResetKeeps
  <2>3. Steady(cfg, heard, vad')
    BY <2>1, <2>2
  <2>4. vad' \in Detector /\ AllSound(cfg, heard, vad') /\ Counts(cfg, heard, vad')
    BY <2>3, SteadyIs
  <2> QED BY <1>1, <2>1, <2>3, <2>4 DEF Inv
<1>6. CASE Release
  <2>1. /\ phase = "open" /\ phase' = "shut" /\ cfg' = cfg /\ whole' = whole /\ heard' = heard
        /\ IF whole
           THEN /\ utterance' = IF utterance.done THEN utterance ELSE finish(cfg, heard, kept)
                /\ vad' = vad
           ELSE vad' = flush(vad, Len(heard))
    BY <1>6 DEF Release
  <2>2. CASE whole
    <3>1. utterance' = finish(cfg, heard, Buffer(cfg, Len(heard)))
      BY <1>1, <2>1, <2>2
    <3> QED BY <1>1, <2>1, <2>2, <3>1 DEF Inv
  <2>3. CASE ~whole
    <3>1. LET x == flush(vad, Len(heard))
          IN  x \in Detector /\ AllSound(cfg, heard, x) /\ Counts(cfg, heard, x)
      BY <1>1, <1>2, <2>1, FlushKeeps
    <3>2. vad' \in Detector /\ AllSound(cfg, heard, vad') /\ Counts(cfg, heard, vad')
      BY <2>1, <2>3, <3>1
    <3> QED BY <1>1, <2>1, <2>3, <3>2 DEF Inv
  <2> QED BY <2>2, <2>3
<1>7. CASE Shut
  <2>1. /\ phase' = "shut" /\ ~whole /\ cfg' = cfg /\ whole' = whole /\ heard' = heard
        /\ vad' = vad
    BY <1>7 DEF Shut
  <2> QED BY <1>1, <2>1 DEF Inv
<1>8. CASE UNCHANGED vars
  <2>1. /\ cfg' = cfg /\ phase' = phase /\ whole' = whole /\ heard' = heard /\ vad' = vad
        /\ kept' = kept /\ utterance' = utterance
    BY <1>8 DEF vars
  <2> QED BY <1>1, <2>1 DEF Inv
<1> QED BY <1>3, <1>4, <1>5, <1>6, <1>7, <1>8 DEF Next

\* Every reachable state is as Inv has it.
THEOREM SegmentationHoldsTogether == Spec => []Inv
BY InvInit, InvNext, PTL DEF Spec
-----------------------------------------------------------------------------
(* The verdict on a whole window.                                          *)

\* The frames of the window that are no louder than a level, and those below it.
UpTo(h, level) == {i \in 1 .. Len(h) : h[i] <= level}
Under(h, level) == {i \in 1 .. Len(h) : h[i] < level}

\* What has been heard is levels, and levels are numbers.
LEMMA OfHeard ==
  ASSUME NEW h \in Seq(Levels)
  PROVE  /\ Levels \subseteq Nat /\ h \in Seq(Nat) /\ Len(h) \in Nat /\ DOMAIN h = 1 .. Len(h)
         /\ TailKeep \in Nat /\ \A i \in 1 .. Len(h) : h[i] \in Levels /\ h[i] \in Nat
<1>1. Levels \subseteq Nat /\ TailKeep \in Nat
  BY SettingsAssumption
<1>2. Len(h) \in Nat /\ DOMAIN h = 1 .. Len(h) /\ \A i \in 1 .. Len(h) : h[i] \in Levels
  OBVIOUS
<1>3. h \in Seq(Nat)
  <2> DEFINE n == Len(h)
  <2>1. n \in Nat /\ h \in [1 .. n -> Levels]
    BY LenProperties
  <2> HIDE DEF n
  <2>2. h \in [1 .. n -> Nat]
    BY <1>1, <2>1
  <2> QED BY <2>1, <2>2, SeqDef
<1> QED BY <1>1, <1>2, <1>3

\* A window that is not empty has a loudest frame.
LEMMA HasPeak ==
  ASSUME NEW h \in Seq(Nat), Len(h) > 0
  PROVE  LET S == {h[i] : i \in 1 .. Len(h)}
         IN  Max(S) \in S /\ \A i \in 1 .. Len(h) : h[i] <= Max(S)
<1> DEFINE n == Len(h)
           S == {h[i] : i \in 1 .. n}
           B == {k \in Nat : k <= n => \E N \in Nat : \A i \in 1 .. k : h[i] <= N}
<1>1. n \in Nat /\ n > 0 /\ \A i \in 1 .. n : h[i] \in Nat
  OBVIOUS
<1> HIDE DEF n
<1>2. 0 \in B
  BY <1>1
<1>3. ASSUME NEW k \in Nat, k \in B PROVE k + 1 \in B
  <2> SUFFICES ASSUME k + 1 <= n PROVE \E N \in Nat : \A i \in 1 .. k + 1 : h[i] <= N
    OBVIOUS
  <2>1. PICK N \in Nat : \A i \in 1 .. k : h[i] <= N
    BY <1>1, <1>3
  <2>2. h[k + 1] \in Nat
    BY <1>1
  <2> DEFINE M == N + h[k + 1]
  <2>3. M \in Nat
    BY <2>2
  <2>4. ASSUME NEW i \in 1 .. k + 1 PROVE h[i] <= M
    <3>1. CASE i = k + 1
      BY <2>2, <3>1
    <3>2. CASE i # k + 1
      <4>1. i \in 1 .. k /\ i \in 1 .. n
        BY <1>1, <3>2
      <4>2. h[i] <= N /\ h[i] \in Nat
        BY <1>1, <2>1, <4>1
      <4> QED BY <2>2, <4>2
    <3> QED BY <3>1, <3>2
  <2> HIDE DEF M
  <2> QED BY <2>3, <2>4
<1>4. n \in B
  BY <1>1, <1>2, <1>3, Counting
<1>5. PICK N \in Nat : \A i \in 1 .. n : h[i] <= N
  BY <1>1, <1>4
<1>6. S \in SUBSET (0 .. N)
  BY <1>1, <1>5
<1>7. S # {}
  BY <1>1
<1>8. \A i \in 1 .. n : h[i] \in S
  OBVIOUS
<1> HIDE DEF S
<1>9. Max(S) \in S /\ \A k \in S : k <= Max(S)
  BY <1>6, <1>7, HasGreatest
<1> QED BY <1>8, <1>9 DEF n, S

\* A fifth of the frames is a number below theirs.
LEMMA Fifth == ASSUME NEW n \in Nat PROVE n \div 5 \in Nat /\ (n > 0 => n \div 5 < n)
OBVIOUS

\* The ambient level is the one the percentile asks for: there is one.
LEMMA AmbientIs ==
  ASSUME NEW h \in Seq(Levels), Len(h) > 0
  PROVE  LET A == Ambient(h, 1 .. Len(h))
         IN  A \in Nat /\ Cardinality(Under(h, A)) <= Len(h) \div 5
<1> DEFINE n == Len(h)
           idx == n \div 5
           G == {l \in Levels : Cardinality(UpTo(h, l)) > idx}
           L == Min(G)
           peaks == {h[i] : i \in 1 .. n}
           P == Max(peaks)
<1>1. /\ n \in Nat /\ n > 0 /\ Levels \subseteq Nat /\ h \in Seq(Nat)
      /\ \A i \in 1 .. n : h[i] \in Levels /\ h[i] \in Nat
  BY OfHeard
<1>2. idx \in Nat /\ idx < n
  BY <1>1, Fifth
<1>3. Cardinality(1 .. n) = n
  <2>1. 0 + n = n /\ 1 \in Int
    BY <1>1
  <2> HIDE DEF n
  <2>2. Cardinality(1 .. n) = n - 1 + 1
    BY <1>1, FS_Interval
  <2> QED BY <1>1, <2>2
<1>4. ASSUME NEW l
      PROVE  /\ UpTo(h, l) \in SUBSET (1 .. n) /\ Under(h, l) \in SUBSET (1 .. n)
             /\ Cardinality(UpTo(h, l)) \in Nat /\ Cardinality(Under(h, l)) \in Nat
             /\ \A T \in SUBSET UpTo(h, l) : Cardinality(T) <= Cardinality(UpTo(h, l))
  <2>1. UpTo(h, l) \in SUBSET (1 .. n) /\ Under(h, l) \in SUBSET (1 .. n)
    BY DEF UpTo, Under
  <2> HIDE DEF n
  <2>2. 1 \in Int /\ n \in Int
    BY <1>1
  <2> QED BY <2>1, <2>2, FramesCount
<1>5. P \in peaks /\ \A i \in 1 .. n : h[i] <= P
  BY <1>1, HasPeak
<1>6. P \in Levels /\ UpTo(h, P) = 1 .. n
  <2>1. P \in Levels
    BY <1>1, <1>5
  <2> HIDE DEF P
  <2> QED BY <1>5, <2>1 DEF UpTo
<1> HIDE DEF P, peaks
<1>7. P \in G
  <2>1. Cardinality(UpTo(h, P)) = n
    BY <1>3, <1>6
  <2> HIDE DEF idx, n
  <2> QED BY <1>2, <1>6, <2>1
<1>8. G \in SUBSET Nat /\ G # {}
  BY <1>1, <1>7
<1>9. L \in G /\ \A l \in G : L <= l
  <2> HIDE DEF G
  <2> QED BY <1>8, HasLeast
<1> HIDE DEF L
<1>10. L \in Levels /\ L \in Nat /\ Cardinality(UpTo(h, L)) > idx
  BY <1>1, <1>9
<1>11. Cardinality(Under(h, L)) <= idx
  <2> SUFFICES ASSUME ~(Cardinality(Under(h, L)) <= idx) PROVE FALSE
    OBVIOUS
  <2> DEFINE S == Under(h, L)
             T == {h[i] : i \in S}
             m == Max(T)
  <2>1. S # {}
    <3> SUFFICES ASSUME S = {} PROVE FALSE
      OBVIOUS
    <3>1. Cardinality({}) = 0
      BY FS_EmptySet
    <3>2. ~(0 <= idx)
      BY <3>1
    <3> HIDE DEF idx
    <3> QED BY <1>2, <3>2
  <2>2. T \in SUBSET (0 .. L) /\ T # {} /\ \A i \in S : h[i] \in T
    <3>1. \A i \in S : i \in 1 .. n /\ h[i] < L
      BY DEF Under
    <3>2. \A i \in S : h[i] \in Nat /\ h[i] < L
      BY <1>1, <3>1
    <3> HIDE DEF S
    <3>3. \A i \in S : h[i] \in 0 .. L
      BY <1>10, <3>2
    <3> QED BY <2>1, <3>3
  <2>3. m \in T /\ \A k \in T : k <= m
    <3> HIDE DEF T
    <3> QED BY <1>10, <2>2, HasGreatest
  <2>4. m \in Levels /\ m < L /\ m \in Nat
    <3>1. PICK i \in S : m = h[i]
      BY <2>3
    <3> HIDE DEF m
    <3> QED BY <1>1, <3>1 DEF Under
  <2>5. S \in SUBSET UpTo(h, m)
    <3>1. \A i \in S : i \in 1 .. n /\ h[i] <= m
      <4>1. \A i \in S : h[i] <= m
        BY <2>2, <2>3
      <4> QED BY <4>1 DEF Under
    <3> HIDE DEF S, m
    <3> QED BY <3>1 DEF UpTo
  <2> HIDE DEF S, m
  <2>6. Cardinality(S) <= Cardinality(UpTo(h, m)) /\ Cardinality(S) \in Nat
        /\ Cardinality(UpTo(h, m)) \in Nat
    BY <1>4, <2>5 DEF S
  <2>7. Cardinality(UpTo(h, m)) > idx
    <3>1. ~(Cardinality(S) <= idx)
      BY DEF S
    <3> HIDE DEF idx
    <3> QED BY <1>2, <2>6, <3>1
  <2>8. m \in G
    BY <2>4, <2>7
  <2>9. L <= m
    BY <1>9, <2>8
  <2> QED BY <1>10, <2>4, <2>9
<1> DEFINE A == Ambient(h, 1 .. n)
<1>12. A = CHOOSE l \in Levels : Cardinality(Under(h, l)) <= idx /\ Cardinality(UpTo(h, l)) > idx
  <2>1. \A l : /\ {i \in 1 .. n : h[i] < l} = Under(h, l)
               /\ {i \in 1 .. n : h[i] <= l} = UpTo(h, l)
    BY DEF Under, UpTo
  <2> QED BY <1>3, <2>1 DEF Ambient
<1> HIDE DEF A, idx
<1>13. A \in Levels /\ Cardinality(Under(h, A)) <= idx
  BY <1>10, <1>11, <1>12
<1> QED BY <1>1, <1>13 DEF A, idx

\* With quiet in it, a window's threshold is one that every frame at the gate reaches.
LEMMA QuietThreshold ==
  ASSUME NEW c \in Setting, NEW h \in Seq(Levels), Len(h) > 0,
         Cardinality({i \in DOMAIN h : 3 * h[i] <= 2 * c.energy}) > Len(h) \div 5
  PROVE  PresenceTwice(c, h, Frames(1, Len(h) + 1)) <= 2 * c.energy
         /\ PresenceTwice(c, h, Frames(1, Len(h) + 1)) \in Int
<1> DEFINE n == Len(h)
           e == c.energy
           f == Frames(1, n + 1)
           A == Ambient(h, 1 .. n)
           peak == Max({h[i] : i \in 1 .. n})
           Q == {i \in 1 .. n : 3 * h[i] <= 2 * e}
<1>1. /\ n \in Nat /\ e \in Nat /\ h \in Seq(Nat) /\ DOMAIN h = 1 .. n
      /\ \A i \in 1 .. n : h[i] \in Nat
  BY OfHeard, OfSetting
<1>2. A \in Nat /\ Cardinality(Under(h, A)) <= n \div 5
  BY AmbientIs
<1>3. peak \in Nat
  <2>1. peak \in {h[i] : i \in 1 .. n}
    BY <1>1, HasPeak
  <2> HIDE DEF peak
  <2> QED BY <1>1, <2>1
<1>4. PresenceTwice(c, h, f) = Max({e, Min({3 * A, peak})})
  <2>1. /\ f \in Seq(Nat) /\ Len(f) = n /\ \A k \in 1 .. n : f[k] = k
    <3> HIDE DEF n
    <3> QED BY <1>1, WindowIs
  <2>2. DOMAIN f = 1 .. n
    <3> HIDE DEF f
    <3> QED BY <2>1
  <2> HIDE DEF f
  <2>3. {f[k] : k \in DOMAIN f} = 1 .. n
    BY <2>1, <2>2
  <2> QED BY <2>3 DEF PresenceTwice
<1>5. Cardinality(Q) > n \div 5
  BY <1>1
<1>6. 3 * A <= 2 * e
  <2> SUFFICES ASSUME ~(3 * A <= 2 * e) PROVE FALSE
    OBVIOUS
  <2> DEFINE U == Under(h, A)
             idx == n \div 5
  <2>1. Q \in SUBSET U
    <3> SUFFICES ASSUME NEW i \in Q PROVE i \in U
      OBVIOUS
    <3>1. i \in 1 .. n /\ 3 * h[i] <= 2 * e
      OBVIOUS
    <3> HIDE DEF A, e
    <3>2. h[i] < A
      BY <1>1, <1>2, <3>1
    <3> QED BY <3>1, <3>2 DEF Under
  <2>2. U \in SUBSET (1 .. n)
    BY DEF Under
  <2>3. Cardinality(Q) <= Cardinality(U) /\ Cardinality(Q) \in Nat /\ Cardinality(U) \in Nat
    <3> HIDE DEF Q, U, n
    <3>1. 1 \in Int /\ n \in Int
      BY <1>1
    <3> QED BY <2>1, <2>2, <3>1, FramesCount
  <2>4. idx \in Nat /\ Cardinality(U) <= idx /\ Cardinality(Q) > idx
    BY <1>1, <1>2, <1>5, Fifth
  <2> HIDE DEF Q, U, idx
  <2> QED BY <2>3, <2>4
<1> HIDE DEF A, peak, e
<1> DEFINE m == Min({3 * A, peak})
<1>7. m \in Int /\ m <= 3 * A
  <2>1. 3 * A \in Int /\ peak \in Int
    BY <1>2, <1>3
  <2>2. m = IF 3 * A <= peak THEN 3 * A ELSE peak
    BY <2>1, OfTwo
  <2> QED BY <2>1, <2>2
<1> HIDE DEF m
<1>8. Max({e, m}) = IF e >= m THEN e ELSE m
  <2>1. e \in Int /\ m \in Int
    BY <1>1, <1>7
  <2> QED BY <2>1, OfTwo
<1>9. Max({e, m}) <= 2 * e /\ Max({e, m}) \in Int
  BY <1>1, <1>2, <1>6, <1>7, <1>8
<1> QED BY <1>4, <1>9 DEF e, m

\* Somebody spoke, and what the cap leaves of it is kept.
LEMMA QuietIsForgiven ==
  ASSUME NEW c \in Setting, NEW h \in Seq(Levels), Cardinality(Loud(c, h)) >= c.start,
         Len(h) <= 2 * c.max, Proportioned(c),
         Cardinality({i \in DOMAIN h : 3 * h[i] <= 2 * c.energy}) > Len(h) \div 5
  PROVE  LET u == finish(c, h, Buffer(c, Len(h)))
         IN  /\ u.speech = TRUE
             /\ {i \in 1 .. Min({Len(h), c.max}) : h[i] >= c.energy} \subseteq Range(u.samples)
<1> DEFINE n == Len(h)
           f == Frames(1, n + 1)
           E == Energetic(c, h, f)
           p == PresenceTwice(c, h, f)
           e == c.energy
           top == c.max
<1>1. /\ n \in Nat /\ e \in Nat /\ top \in Nat \ {0} /\ c.start \in Nat /\ c.presence \in Nat
      /\ c.start > 0 /\ c.presence <= c.start /\ TailKeep \in Nat
      /\ \A i \in 1 .. n : h[i] \in Nat
  <2>1. c.start > 0 /\ c.presence <= c.start
    BY DEF Proportioned
  <2> QED BY <2>1, OfHeard, OfSetting
<1>2. Loud(c, h) \in SUBSET (1 .. n)
  BY DEF Loud
<1>3. n > 0
  <2> SUFFICES ASSUME n = 0 PROVE FALSE
    BY <1>1
  <2>1. Loud(c, h) = {}
    BY <1>2
  <2>2. Cardinality(Loud(c, h)) = 0
    BY <2>1, FS_EmptySet
  <2> QED BY <1>1, <2>2
<1>4. Buffer(c, n) = f
  <2>1. Min({n, 2 * top}) = n
    <3>1. 2 * top \in Int /\ n <= 2 * top
      BY <1>1
    <3> DEFINE M == 2 * top
    <3> HIDE DEF n, M
    <3>2. n \in Int /\ M \in Int
      BY <1>1, <3>1 DEF M
    <3>3. Min({n, M}) = IF n <= M THEN n ELSE M
      BY <3>2, OfTwo
    <3> QED BY <3>1, <3>3 DEF M
  <2> QED BY <2>1 DEF Buffer
<1>5. f \in Seq(Nat) /\ Len(f) = n /\ (\A k \in 1 .. n : f[k] = k) /\ DOMAIN f = 1 .. n
  <2>1. f \in Seq(Nat) /\ Len(f) = n /\ \A k \in 1 .. n : f[k] = k
    <3> HIDE DEF n
    <3> QED BY <1>1, WindowIs
  <2> HIDE DEF f
  <2> QED BY <2>1
<1>6. p <= 2 * e /\ p \in Int
  BY <1>3, QuietThreshold
<1> HIDE DEF f, p
<1>7. E \in SUBSET (1 .. n) /\ Loud(c, h) \in SUBSET E
  <2>1. E = {k \in 1 .. n : 2 * h[k] >= p}
    BY <1>5 DEF Energetic, p
  <2>2. ASSUME NEW k \in Loud(c, h) PROVE k \in E
    <3>1. k \in 1 .. n /\ h[k] >= e
      BY DEF Loud
    <3> HIDE DEF E, e
    <3>2. 2 * h[k] >= p
      BY <1>1, <1>6, <3>1
    <3> QED BY <2>1, <3>1, <3>2
  <2> HIDE DEF E
  <2> QED BY <2>1, <2>2
<1> HIDE DEF E
<1>8. Cardinality(E) >= c.presence
  <2>1. /\ Cardinality(Loud(c, h)) <= Cardinality(E)
        /\ Cardinality(Loud(c, h)) \in Nat /\ Cardinality(E) \in Nat
    <3> DEFINE L == Loud(c, h)
    <3>1. 1 \in Int /\ n \in Int /\ E \in SUBSET (1 .. n) /\ L \in SUBSET E
      BY <1>1, <1>7
    <3> HIDE DEF L, n
    <3>2. Cardinality(L) <= Cardinality(E) /\ Cardinality(L) \in Nat /\ Cardinality(E) \in Nat
      BY <3>1, FramesCount
    <3> QED BY <3>2 DEF L
  <2> QED BY <1>1, <2>1
<1>9. f # <<>> /\ detectSpeechPresence(c, h, f)
  <2>1. f # <<>>
    BY <1>3, <1>5
  <2> QED BY <1>8, <2>1 DEF detectSpeechPresence, E
<1> DEFINE last == Max(E \union {0})
           t == Min({n, last + TailKeep})
           m == Min({t, top})
<1>10. last \in 0 .. n /\ \A k \in E : k <= last
  <2> DEFINE F == E \union {0}
  <2>1. F \in SUBSET (0 .. n) /\ F # {}
    BY <1>1, <1>7
  <2>2. Max(F) \in F /\ \A k \in F : k <= Max(F)
    <3> HIDE DEF F, n
    <3> QED BY <1>1, <2>1, HasGreatest
  <2> QED BY <2>1, <2>2
<1> HIDE DEF last, n
<1>11. /\ t \in 0 .. n /\ t = IF n <= last + TailKeep THEN n ELSE last + TailKeep
  <2>1. last \in Int /\ last + TailKeep \in Int
    BY <1>1, <1>10
  <2>2. t = IF n <= last + TailKeep THEN n ELSE last + TailKeep
    BY <1>1, <2>1, OfTwo
  <2> QED BY <1>1, <1>10, <2>2
<1> HIDE DEF t, top
<1>12. m \in 0 .. t /\ m = IF t <= top THEN t ELSE top
  <2>1. t \in Int /\ top \in Int
    BY <1>1, <1>11
  <2>2. m = IF t <= top THEN t ELSE top
    BY <2>1, OfTwo
  <2> HIDE DEF m
  <2> QED BY <1>1, <1>11, <2>2
<1> HIDE DEF m
<1>13. trimTail(c, h, f) = Frames(1, t + 1)
  <2>1. trimTail(c, h, f) = SubSeq(f, 1, t)
    BY <1>5 DEF trimTail, t, last, E, n
  <2>2. SubSeq(Frames(1, n + 1), 1, t) = Frames(1, t + 1)
    BY <1>1, <1>11, FirstFrames
  <2> QED BY <2>1, <2>2 DEF f
<1>14. Capped(c, trimTail(c, h, f)) = Frames(1, m + 1)
  <2>1. t \in Nat
    BY <1>1, <1>11
  <2>2. Len(Frames(1, t + 1)) = t
    BY <2>1, WindowIs
  <2>3. Capped(c, Frames(1, t + 1)) = SubSeq(Frames(1, t + 1), 1, m)
    BY <2>2 DEF Capped, m, top
  <2>4. SubSeq(Frames(1, t + 1), 1, m) = Frames(1, m + 1)
    BY <1>12, <2>1, FirstFrames
  <2> QED BY <1>13, <2>3, <2>4
<1> DEFINE u == finish(c, h, Buffer(c, n))
<1>15. u.speech = TRUE /\ u.samples = Frames(1, m + 1)
  BY <1>4, <1>9, <1>14 DEF finish
<1>16. ASSUME NEW i \in 1 .. Min({n, top}), h[i] >= e PROVE i \in Range(u.samples)
  <2>1. Min({n, top}) = IF n <= top THEN n ELSE top
    BY <1>1, OfTwo
  <2>2. i \in 1 .. n /\ i <= top
    BY <1>1, <2>1
  <2>3. i \in E
    <3>1. i \in Loud(c, h)
      BY <1>16, <2>2 DEF Loud, n
    <3> QED BY <1>7, <3>1
  <2>4. i <= last
    BY <1>10, <2>3
  <2>5. i <= t
    BY <1>1, <1>10, <1>11, <2>2, <2>4
  <2>6. i \in 1 .. m /\ m \in Nat
    BY <1>1, <1>11, <1>12, <2>2, <2>5
  <2> DEFINE s == Frames(1, m + 1)
  <2>7. s \in Seq(Nat) /\ Len(s) = m /\ s[i] = i
    BY <2>6, WindowIs
  <2> HIDE DEF s
  <2>8. i \in DOMAIN s
    BY <2>6, <2>7
  <2>9. i \in Range(s)
    BY <2>7, <2>8 DEF Range
  <2> QED BY <1>15, <2>9 DEF s
<1> HIDE DEF u
<1>17. {i \in 1 .. Min({n, top}) : h[i] >= e} \subseteq Range(u.samples)
  BY <1>16
<1> QED BY <1>15, <1>17 DEF u, n, e, top

-----------------------------------------------------------------------------
(* The theorems.                                                           *)

\* Every utterance is sound: its frames, each once and in order, from its start to its end;
\* no sooner begun than the one before it ended; and with its back-pad, where one is due.
THEOREM SegmentationSegmentsAreSound == Spec => []SegmentsAreSound
<1>1. Inv => SegmentsAreSound
  <2> SUFFICES ASSUME Inv PROVE SegmentsAreSound
    OBVIOUS
  <2>1. AllSound(cfg, heard, vad)
    BY DEF Inv
  <2>2. ASSUME NEW s \in Emitted
        PROVE  /\ s.samples = [n \in 1 .. (s.end - s.from) |-> s.from + n - 1]
               /\ Proportioned(cfg) /\ Cardinality(Dips(s)) <= cfg.gap =>
                    LeadIn(s) >= Min({cfg.backpad, s.onset - 1 - s.base})
    <3>1. Sound(cfg, vad.judged, s)
      BY <2>1 DEF AllSound, Emitted
    <3>2. Dips(s) = DipsOf(cfg, vad.judged, s)
      BY DEF Dips, DipsOf, Enough, Voiced, Unvoiced
    <3>3. LeadIn(s) = s.onset - s.from
      BY DEF LeadIn
    <3> QED BY <3>1, <3>2, <3>3 DEF Sound, Frames
  <2> QED BY <2>1, <2>2 DEF AllSound, SegmentsAreSound
<1> QED BY <1>1, SegmentationHoldsTogether, PTL

\* However the stream is cut, while the gate is open every run of voiced frames that adds up
\* to an onset is in an utterance.
THEOREM SegmentationNoRunIsMissed == Spec => []NoRunIsMissed
<1>1. Inv => NoRunIsMissed
  <2> SUFFICES ASSUME Inv PROVE NoRunIsMissed
    OBVIOUS
  <2>1. phase = "open" \/ phase = "shut"
    BY DEF Inv
  <2>2. CASE phase = "shut"
    BY <2>2 DEF NoRunIsMissed
  <2>3. CASE phase = "open"
    <3>1. NoneMissed(cfg, heard, vad)
      BY <2>3 DEF Inv, Steady
    <3>2. \A a, b : IsRun(a, b) => Run(cfg, vad.judged, a, b)
      BY DEF IsRun, Run, Tolerated, Voiced
    <3> QED BY <3>1, <3>2 DEF NoneMissed, NoRunIsMissed, Emitted
  <2> QED BY <2>1, <2>2, <2>3
<1> QED BY <1>1, SegmentationHoldsTogether, PTL

\* A whole window with quiet in it, in which the detector opened an utterance, is speech, and
\* what its cap leaves has every frame at the gate.
THEOREM SegmentationQuietWindowIsForgiven == Spec => []QuietWindowIsForgiven
<1>1. Inv => QuietWindowIsForgiven
  <2> SUFFICES ASSUME Inv, whole, utterance.done, vad.inSpeech \/ vad.out # <<>>,
                      QuietBetweenWords, AllRetained, Proportioned(cfg)
               PROVE  /\ utterance.speech
                      /\ {i \in 1 .. Min({Len(heard), cfg.max}) : heard[i] >= cfg.energy}
                           \subseteq Range(utterance.samples)
    BY DEF QuietWindowIsForgiven
  <2>1. /\ cfg \in Setting /\ heard \in Seq(Levels)
        /\ utterance = finish(cfg, heard, Buffer(cfg, Len(heard)))
    BY SettingsAre DEF Inv
  <2>2. Cardinality(Loud(cfg, heard)) >= cfg.start
    BY DEF Inv, Counts
  <2>3. /\ Len(heard) <= 2 * cfg.max
        /\ Cardinality({i \in DOMAIN heard : 3 * heard[i] <= 2 * cfg.energy}) > Len(heard) \div 5
    BY DEF AllRetained, QuietBetweenWords
  <2> DEFINE u == finish(cfg, heard, Buffer(cfg, Len(heard)))
  <2>4. /\ u.speech = TRUE
        /\ {i \in 1 .. Min({Len(heard), cfg.max}) : heard[i] >= cfg.energy}
             \subseteq Range(u.samples)
    BY <2>1, <2>2, <2>3, QuietIsForgiven
  <2> HIDE DEF u
  <2> QED BY <2>1, <2>4 DEF u
<1> QED BY <1>1, SegmentationHoldsTogether, PTL
=============================================================================
