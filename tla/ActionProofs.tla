----------------------------- MODULE ActionProofs -----------------------------
(***************************************************************************)
(* From words to an action, and from the action to a plan.                 *)
(*                                                                         *)
(* Whatever is said, and wherever the user looks, the intent tier answers  *)
(* with an action of one of the kinds the executor knows, whose target was *)
(* found in one of the ways it knows; and the monitor, the window and the  *)
(* gaze of that action are those of the snapshot and of the ring.  One     *)
(* monitor is not looked up in the snapshot: the one that the gaze named   *)
(* with nothing selected.                                                  *)
(*                                                                         *)
(* Whatever action was resolved, and whatever the snapshot and the         *)
(* switches, planFor plans commands that no switch forbids, about the      *)
(* monitors and windows of the snapshot and no others; a refusal plans     *)
(* nothing, what is of the snapshot is never refused as gone, and what the *)
(* commands change is what the action is about.                            *)
(*                                                                         *)
(* The matchers sum and filter lists (FoldLeft), pick the best of a set    *)
(* (CHOOSE) and cut lists up (SubSeq).  That what they pick exists is by   *)
(* counting: the first sections say so once for lists, for the matchers    *)
(* and for the vote on the ring's answers.                                 *)
(***************************************************************************)
EXTENDS Executor, WellFoundedInduction, FiniteSetTheorems, SequenceTheorems, TLAPS

\* What is read off the words, with the verb it has.
IsRaw(r) == "verb" \in DOMAIN r
Reads(r) == IsRaw(r) /\ r.verb \in Verbs

\* The kinds of command that the chain asks about.
Kinds == {"monitor_view", "move_workspace", "move_window", "create_monitor", "lost_move",
          "workspace", "fullscreen", "maximize", "focus", "hand_input", "launch_app", "undock",
          "pick", "place", "follow", "dock", "center", "closer", "further", "anchor", "none"}

\* An action, or the question it became.
Acts(a) == /\ {"verb", "source"} \subseteq DOMAIN a
           /\ a.verb \in Verbs /\ a.source \in Sources
-----------------------------------------------------------------------------
(* Numbers and lists.                                                      *)

\* A set of naturals that holds 0 and every successor of its own holds them all.
LEMMA Counting ==
  ASSUME NEW S, 0 \in S, \A n \in Nat : n \in S => n + 1 \in S
  PROVE  Nat \subseteq S
<1> SUFFICES ASSUME NEW x \in Nat, x \notin S PROVE FALSE
  OBVIOUS
<1> DEFINE T == Nat \ S
<1>1. PICK m \in T : \A c \in T : ~(<<c, m>> \in OpToRel(<, Nat))
  BY NatLessThanWellFounded, WFMin
<1>2. m # 0 /\ m \in Nat
  OBVIOUS
<1>3. m - 1 \in T
  BY <1>2
<1>4. <<m - 1, m>> \in OpToRel(<, Nat)
  BY <1>2, <1>3 DEF OpToRel
<1> QED BY <1>1, <1>3, <1>4
\* Of finitely many numbers one is the greatest, and one the least.
LEMMA Greatest ==
  ASSUME NEW N \in Nat, NEW D \in SUBSET (1 .. N), D # {}, NEW g, \A i \in D : g[i] \in Int
  PROVE  \E i \in D : \A j \in D : g[j] <= g[i]
<1> DEFINE Tops(E) == E # {} /\ (\A i \in E : g[i] \in Int)
                        => \E i \in E : \A j \in E : g[j] <= g[i]
           S == {n \in Nat : \A E \in SUBSET (1 .. n) : Tops(E)}
<1>1. 0 \in S
  <2>1. 1 .. 0 = {}
    OBVIOUS
  <2>2. \A E \in SUBSET (1 .. 0) : Tops(E)
    BY <2>1
  <2> QED BY <2>2
<1>2. ASSUME NEW n \in Nat, n \in S PROVE n + 1 \in S
  <2> SUFFICES ASSUME NEW E \in SUBSET (1 .. n + 1), E # {}, \A i \in E : g[i] \in Int
               PROVE  \E i \in E : \A j \in E : g[j] <= g[i]
    OBVIOUS
  <2> DEFINE F == E \ {n + 1}
  <2>1. F \in SUBSET (1 .. n)
    <3>1. \A i \in 1 .. n + 1 : i \in 1 .. n \/ i = n + 1
      OBVIOUS
    <3> QED BY <3>1
  <2>2. CASE F = {}
    <3>1. n + 1 \in E /\ \A j \in E : j = n + 1
      BY <2>2
    <3> QED BY <3>1
  <2>3. CASE F # {}
    <3>1. PICK i \in F : \A j \in F : g[j] <= g[i]
      BY <1>2, <2>1, <2>3
    <3>2. \A j \in E : j \in F \/ j = n + 1
      OBVIOUS
    <3>3. i \in E /\ g[i] \in Int
      OBVIOUS
    <3>4. CASE n + 1 \in E
      <4>1. g[n + 1] \in Int
        BY <3>4
      <4>2. CASE g[n + 1] <= g[i]
        BY <3>1, <3>2, <3>3, <4>2
      <4>3. CASE ~(g[n + 1] <= g[i])
        <5>1. g[i] <= g[n + 1]
          BY <3>3, <4>1, <4>3
        <5>2. \A j \in E : g[j] \in Int
          OBVIOUS
        <5>3. \A j \in E : g[j] <= g[n + 1]
          BY <3>1, <3>2, <3>3, <4>1, <5>1, <5>2
        <5> QED BY <3>4, <5>3
      <4> QED BY <4>2, <4>3
    <3>5. CASE n + 1 \notin E
      BY <3>1, <3>2, <3>3, <3>5
    <3> QED BY <3>4, <3>5
  <2> QED BY <2>2, <2>3
<1>3. Nat \subseteq S
  <2> HIDE DEF S
  <2> QED BY <1>1, <1>2, Counting
<1> QED BY <1>3

\* So is the smallest.
LEMMA Least ==
  ASSUME NEW N \in Nat, NEW D \in SUBSET (1 .. N), D # {}, NEW g, \A i \in D : g[i] \in Int
  PROVE  \E i \in D : \A j \in D : g[i] <= g[j]
<1> DEFINE h == [i \in D |-> -g[i]]
<1>1. \A i \in D : h[i] \in Int /\ h[i] = -g[i]
  OBVIOUS
<1> HIDE DEF h
<1>2. PICK i \in D : \A j \in D : h[j] <= h[i]
  BY <1>1, Greatest
<1> QED BY <1>1, <1>2

\* A set of places of a list has a first and a last.
LEMMA PlacesHaveEnds ==
  ASSUME NEW N \in Nat, NEW D \in SUBSET (1 .. N), D # {}
  PROVE  /\ Max(D) \in D /\ \A j \in D : j <= Max(D)
         /\ Min(D) \in D /\ \A j \in D : Min(D) <= j
<1> DEFINE g == [i \in 1 .. N |-> i]
<1>1. \A i \in D : g[i] \in Int /\ g[i] = i
  OBVIOUS
<1> HIDE DEF g
<1>2. \E i \in D : \A j \in D : i >= j
  <2>1. PICK i \in D : \A j \in D : g[j] <= g[i]
    BY <1>1, Greatest
  <2> QED BY <1>1, <2>1
<1>3. \E i \in D : \A j \in D : i =< j
  <2>1. PICK i \in D : \A j \in D : g[i] <= g[j]
    BY <1>1, Least
  <2> QED BY <1>1, <2>1
<1>4. Max(D) \in D /\ \A j \in D : Max(D) >= j
  BY <1>2 DEF Max
<1>5. Min(D) \in D /\ \A j \in D : Min(D) =< j
  BY <1>3 DEF Min
<1> QED BY <1>4, <1>5
(* Folds: FoldLeft takes off the last place, so that a fold over s is a    *)
(* function on the sets of places of s.                                    *)

\* The last of the first k places is the k-th.
LEMMA LastIsMax ==
  ASSUME NEW n \in Nat, NEW s \in SUBSET (1 .. n + 1), n + 1 \in s
  PROVE  Max(s) = n + 1 /\ s \ {n + 1} \in SUBSET (1 .. n)
<1>1. \A y \in s : n + 1 >= y
  OBVIOUS
<1>2. ASSUME NEW x \in s, \A y \in s : x >= y PROVE x = n + 1
  BY <1>2
<1>3. Max(s) = n + 1
  BY <1>1, <1>2 DEF Max
<1>4. \A i \in 1 .. n + 1 : i \in 1 .. n \/ i = n + 1
  OBVIOUS
<1> QED BY <1>3, <1>4

\* f folds the n first places into A: from b, place by place, by next.
FoldsTo(f, A, b, next, n) ==
  /\ f \in [SUBSET (1 .. n) -> A]
  /\ \A s \in SUBSET (1 .. n) :
       f[s] = IF s = {} THEN b ELSE next[<<f[s \ {Max(s)}], Max(s)>>]

\* The function MapThenFoldSet chooses is there to be chosen, place by place.
LEMMA FoldExists ==
  ASSUME NEW A, NEW b \in A, NEW N \in Nat, NEW next \in [A \X (1 .. N) -> A]
  PROVE  \E f : FoldsTo(f, A, b, next, N)
<1> DEFINE S == {n \in Nat : n <= N => \E f : FoldsTo(f, A, b, next, n)}
<1>1. 0 \in S
  <2> DEFINE f == [s \in SUBSET (1 .. 0) |-> b]
  <2>1. 1 .. 0 = {}
    OBVIOUS
  <2>2. \A s \in SUBSET (1 .. 0) : s = {}
    BY <2>1
  <2>3. FoldsTo(f, A, b, next, 0)
    BY <2>2 DEF FoldsTo
  <2> HIDE DEF f
  <2> QED BY <2>3
<1>2. ASSUME NEW n \in Nat, n \in S PROVE n + 1 \in S
  <2> SUFFICES ASSUME n + 1 <= N PROVE \E g : FoldsTo(g, A, b, next, n + 1)
    OBVIOUS
  <2>1. PICK f : FoldsTo(f, A, b, next, n)
    BY <1>2
  <2> DEFINE g == [s \in SUBSET (1 .. n + 1) |->
                     IF n + 1 \in s THEN next[<<f[s \ {n + 1}], n + 1>>] ELSE f[s]]
  <2>2. ASSUME NEW s \in SUBSET (1 .. n + 1)
        PROVE  g[s] \in A /\ g[s] = IF s = {} THEN b ELSE next[<<g[s \ {Max(s)}], Max(s)>>]
    <3>1. CASE n + 1 \in s
      <4>1. Max(s) = n + 1 /\ s \ {n + 1} \in SUBSET (1 .. n)
        BY <3>1, LastIsMax
      <4>2. SUBSET (1 .. n) \subseteq SUBSET (1 .. n + 1)
        OBVIOUS
      <4>3. g[s \ {n + 1}] = f[s \ {n + 1}]
        BY <4>1, <4>2
      <4>4. g[s] = next[<<f[s \ {n + 1}], n + 1>>]
        BY <3>1
      <4>5. f[s \ {n + 1}] \in A /\ n + 1 \in 1 .. N
        BY <2>1, <4>1 DEF FoldsTo
      <4>6. next[<<f[s \ {n + 1}], n + 1>>] \in A
        BY <4>5
      <4> HIDE DEF g
      <4> QED BY <3>1, <4>1, <4>3, <4>4, <4>6
    <3>2. CASE n + 1 \notin s
      <4>1. s \in SUBSET (1 .. n)
        <5>1. \A i \in 1 .. n + 1 : i \in 1 .. n \/ i = n + 1
          OBVIOUS
        <5> QED BY <3>2, <5>1
      <4>2. f[s] \in A /\ f[s] = IF s = {} THEN b ELSE next[<<f[s \ {Max(s)}], Max(s)>>]
        BY <2>1, <4>1 DEF FoldsTo
      <4>3. g[s] = f[s]
        BY <3>2
      <4>4. g[s \ {Max(s)}] = f[s \ {Max(s)}]
        BY <3>2
      <4> HIDE DEF g
      <4> QED BY <4>2, <4>3, <4>4
    <3> QED BY <3>1, <3>2
  <2>3. g \in [SUBSET (1 .. n + 1) -> A]
    BY <2>2
  <2> HIDE DEF g
  <2>4. FoldsTo(g, A, b, next, n + 1)
    BY <2>2, <2>3 DEF FoldsTo
  <2> QED BY <2>4
<1>3. Nat \subseteq S
  BY <1>1, <1>2, Counting
<1> QED BY <1>3

\* What is left of a list is built place by place.
LEMMA WithoutSteps ==
  ASSUME NEW T, NEW s \in Seq(T), NEW X
  PROVE  \E g : /\ g[0] = <<>>
                /\ \A k \in Nat : k < Len(s) =>
                     g[k + 1] = IF s[k + 1] \in X THEN g[k] ELSE Append(g[k], s[k + 1])
                /\ without(s, X) = g[Len(s)]
<1> DEFINE n == Len(s)
           N == DOMAIN s
           Is(h) == h = [t \in SUBSET N |->
                      IF t = {} THEN <<>>
                      ELSE IF s[Max(t)] \in X THEN h[t \ {Max(t)}]
                           ELSE Append(h[t \ {Max(t)}], s[Max(t)])]
           f == CHOOSE h : Is(h)
           g == [k \in 0 .. n |-> f[1 .. k]]
<1>1. n \in Nat /\ N = 1 .. n /\ \A i \in 1 .. n : s[i] \in T
  OBVIOUS
<1>2. without(s, X) = f[N]
  BY DEF without, FoldLeft, MapThenFoldSet
<1> DEFINE next == [p \in Seq(T) \X (1 .. n) |->
                      IF s[p[2]] \in X THEN p[1] ELSE Append(p[1], s[p[2]])]
           none == <<>>
<1>3. none \in Seq(T)
  BY EmptySeq
<1> HIDE DEF n, N, none
<1>4. next \in [Seq(T) \X (1 .. n) -> Seq(T)]
  BY <1>1
<1>5. \A r \in Seq(T), i \in 1 .. n :
         next[<<r, i>>] = IF s[i] \in X THEN r ELSE Append(r, s[i])
  OBVIOUS
<1> HIDE DEF next
<1>6. PICK h : FoldsTo(h, Seq(T), none, next, n)
  BY <1>1, <1>3, <1>4, FoldExists
<1>7. Is(h)
  <2>1. ASSUME NEW t \in SUBSET (1 .. n), t # {} PROVE Max(t) \in 1 .. n
    BY <1>1, <2>1, PlacesHaveEnds
  <2>2. ASSUME NEW t \in SUBSET (1 .. n)
        PROVE  h[t] = IF t = {} THEN <<>>
                      ELSE IF s[Max(t)] \in X THEN h[t \ {Max(t)}]
                           ELSE Append(h[t \ {Max(t)}], s[Max(t)])
    <3>1. h[t \ {Max(t)}] \in Seq(T)
      BY <1>6 DEF FoldsTo
    <3>2. h[t] = IF t = {} THEN none ELSE next[<<h[t \ {Max(t)}], Max(t)>>]
      BY <1>6 DEF FoldsTo
    <3> QED BY <1>5, <2>1, <3>1, <3>2 DEF none
  <2>3. h = [t \in SUBSET (1 .. n) |-> h[t]]
    BY <1>6 DEF FoldsTo
  <2> QED BY <1>1, <2>2, <2>3
<1>8. Is(f)
  BY <1>7
<1> HIDE DEF f
<1>9. ASSUME NEW k \in Nat, k < n
      PROVE  g[k + 1] = IF s[k + 1] \in X THEN g[k] ELSE Append(g[k], s[k + 1])
  <2>1. k \in 0 .. n /\ k + 1 \in 0 .. n
    BY <1>1, <1>9
  <2>2. 1 .. k + 1 \in SUBSET (1 .. n) /\ k + 1 \in 1 .. k + 1
    BY <1>1, <1>9
  <2>3. Max(1 .. k + 1) = k + 1
    BY <2>2, LastIsMax
  <2>4. (1 .. k + 1) \ {k + 1} = 1 .. k
    OBVIOUS
  <2>5. f[1 .. k + 1] = IF s[k + 1] \in X THEN f[1 .. k] ELSE Append(f[1 .. k], s[k + 1])
    BY <1>1, <1>8, <2>2, <2>3, <2>4
  <2> QED BY <2>1, <2>5
<1>10. g[0] = <<>>
  <2>1. 1 .. 0 = {}
    OBVIOUS
  <2>2. f[{}] = <<>>
    BY <1>8
  <2> QED BY <1>1, <2>1, <2>2
<1>11. g[n] = f[N]
  BY <1>1
<1> HIDE DEF g
<1> QED BY <1>2, <1>9, <1>10, <1>11 DEF n

\* w is what is left of the first k places of s: h says where each was.
Embeds(w, s, X, h, k) ==
  /\ h \in [1 .. Len(w) -> 1 .. k]
  /\ \A j \in 1 .. Len(w) : w[j] = s[h[j]] /\ w[j] \notin X
  /\ \A i, j \in 1 .. Len(w) : i < j => h[i] < h[j]

Left(w, T, s, X, k) == w \in Seq(T) /\ \E h : Embeds(w, s, X, h, k)

\* Of none of the places nothing is left.
LEMMA NothingLeft == ASSUME NEW T, NEW s, NEW X PROVE Left(<<>>, T, s, X, 0)
<1> DEFINE none == <<>>
           h == [j \in {} |-> 1]
<1>1. none \in Seq(T) /\ Len(none) = 0 /\ 1 .. 0 = {}
  BY EmptySeq
<1>2. h \in [{} -> 1 .. 0]
  OBVIOUS
<1> HIDE DEF none, h
<1>3. Embeds(none, s, X, h, 0)
  BY <1>1, <1>2 DEF Embeds
<1>4. Left(none, T, s, X, 0)
  BY <1>1, <1>3, Zenon DEF Left
<1> QED BY <1>4 DEF none

\* One more place: its element is left, or it is not.
LEMMA MoreLeft ==
  ASSUME NEW T, NEW s, NEW X, NEW k \in Nat, s[k + 1] \in T, NEW w, Left(w, T, s, X, k)
  PROVE  Left(IF s[k + 1] \in X THEN w ELSE Append(w, s[k + 1]), T, s, X, k + 1)
<1>1. w \in Seq(T) /\ 1 .. k \subseteq 1 .. k + 1
  BY DEF Left
<1>2. PICK h : Embeds(w, s, X, h, k)
  BY Zenon DEF Left
<1>3. CASE s[k + 1] \in X
  <2>1. Embeds(w, s, X, h, k + 1)
    BY <1>1, <1>2 DEF Embeds
  <2>2. Left(w, T, s, X, k + 1)
    BY <1>1, <2>1, Zenon DEF Left
  <2> QED BY <1>3, <2>2
<1>4. CASE s[k + 1] \notin X
  <2> DEFINE v == Append(w, s[k + 1])
             m == Len(w)
             i == [j \in 1 .. m + 1 |-> IF j = m + 1 THEN k + 1 ELSE h[j]]
  <2>2. m \in Nat /\ v \in Seq(T) /\ Len(v) = m + 1 /\ v[m + 1] = s[k + 1]
        /\ \A j \in 1 .. m : v[j] = w[j]
    BY <1>1
  <2>3. /\ h \in [1 .. m -> 1 .. k]
        /\ \A j \in 1 .. m : w[j] = s[h[j]] /\ w[j] \notin X
        /\ \A a, b \in 1 .. m : a < b => h[a] < h[b]
    BY <1>2 DEF Embeds
  <2> HIDE DEF v, m
  <2>4. \A j \in 1 .. m + 1 : j \in 1 .. m \/ j = m + 1
    BY <2>2
  <2>5. i \in [1 .. m + 1 -> 1 .. k + 1]
    BY <2>2, <2>3, <2>4
  <2>6. i[m + 1] = k + 1 /\ \A j \in 1 .. m : i[j] = h[j] /\ i[j] \in 1 .. k
    BY <2>2, <2>3
  <2> HIDE DEF i
  <2>7. \A j \in 1 .. m + 1 : v[j] = s[i[j]] /\ v[j] \notin X
    BY <1>4, <2>2, <2>3, <2>4, <2>6
  <2>8. ASSUME NEW a \in 1 .. m + 1, NEW b \in 1 .. m + 1, a < b PROVE i[a] < i[b]
    <3>1. a \in 1 .. m
      BY <2>2, <2>8
    <3>2. CASE b = m + 1
      BY <2>6, <3>1, <3>2
    <3>3. CASE b \in 1 .. m
      BY <2>3, <2>6, <2>8, <3>1, <3>3
    <3> QED BY <2>4, <3>2, <3>3
  <2>9. Embeds(v, s, X, i, k + 1)
    BY <2>2, <2>5, <2>7, <2>8 DEF Embeds
  <2>10. Left(v, T, s, X, k + 1)
    BY <2>2, <2>9, Zenon DEF Left
  <2> QED BY <1>4, <2>10 DEF v
<1> QED BY <1>3, <1>4

\* It keeps their order, and nothing that was to be left out.
LEMMA WithoutKeeps ==
  ASSUME NEW T, NEW s \in Seq(T), NEW X
  PROVE  Left(without(s, X), T, s, X, Len(s))
<1> DEFINE n == Len(s)
<1>1. n \in Nat /\ \A i \in 1 .. n : s[i] \in T
  OBVIOUS
<1>2. PICK g : /\ g[0] = <<>>
               /\ \A k \in Nat : k < n =>
                    g[k + 1] = IF s[k + 1] \in X THEN g[k] ELSE Append(g[k], s[k + 1])
               /\ without(s, X) = g[n]
  BY WithoutSteps
<1> HIDE DEF n
<1> DEFINE S == {k \in Nat : k <= n => Left(g[k], T, s, X, k)}
<1>3. 0 \in S
  BY <1>2, NothingLeft
<1>4. ASSUME NEW k \in Nat, k \in S PROVE k + 1 \in S
  <2> SUFFICES ASSUME k + 1 <= n PROVE Left(g[k + 1], T, s, X, k + 1)
    OBVIOUS
  <2>1. k < n /\ k <= n /\ k + 1 \in 1 .. n
    BY <1>1
  <2>2. Left(g[k], T, s, X, k)
    BY <1>4, <2>1
  <2>3. Left(IF s[k + 1] \in X THEN g[k] ELSE Append(g[k], s[k + 1]), T, s, X, k + 1)
    <3> HIDE DEF S
    <3> DEFINE w == g[k]
    <3>1. s[k + 1] \in T /\ Left(w, T, s, X, k)
      BY <1>1, <2>1, <2>2
    <3> HIDE DEF w
    <3>2. Left(IF s[k + 1] \in X THEN w ELSE Append(w, s[k + 1]), T, s, X, k + 1)
      BY <3>1, MoreLeft
    <3> QED BY <3>2 DEF w
  <2> QED BY <1>2, <2>1, <2>3
<1>5. Nat \subseteq S
  <2> HIDE DEF S
  <2> QED BY <1>3, <1>4, Counting
<1>6. n \in S /\ n <= n
  BY <1>1, <1>5
<1>7. Left(g[n], T, s, X, n)
  BY <1>6
<1> QED BY <1>2, <1>7 DEF n

\* So what is left was there, and was not to be left out.
LEMMA WithoutOf ==
  ASSUME NEW T, NEW s \in Seq(T), NEW X
  PROVE  LET w == without(s, X)
         IN  /\ w \in Seq(T)
             /\ \A j \in DOMAIN w : w[j] \notin X /\ \E i \in DOMAIN s : w[j] = s[i]
<1> DEFINE w == without(s, X)
<1>1. Left(w, T, s, X, Len(s))
  BY WithoutKeeps
<1> HIDE DEF w
<1>a. w \in Seq(T)
  BY <1>1 DEF Left
<1>2. PICK h : Embeds(w, s, X, h, Len(s))
  BY <1>1, Zenon DEF Left
<1>3. DOMAIN w = 1 .. Len(w) /\ DOMAIN s = 1 .. Len(s)
  BY <1>a
<1>4. \A j \in DOMAIN w : w[j] \notin X /\ \E i \in DOMAIN s : w[j] = s[i]
  BY <1>2, <1>3 DEF Embeds
<1> QED BY <1>a, <1>4 DEF w
-----------------------------------------------------------------------------
(* The desktop.                                                            *)

\* A snapshot: monitors of known names, alike where they are named alike, and
\* windows of known addresses, each last used some time ago.
Snapshot(ctx) ==
  /\ \E T : ctx.monitors \in Seq(T)
  /\ \A i \in DOMAIN ctx.monitors :
       ctx.monitors[i].name \in DOMAIN NameWords /\ ctx.monitors[i].x \in Int
  /\ \A i, j \in DOMAIN ctx.monitors :
       ctx.monitors[i].name = ctx.monitors[j].name =>
         ctx.monitors[i].content = ctx.monitors[j].content
  /\ \E T : ctx.windows \in Seq(T)
  /\ \A i \in DOMAIN ctx.windows :
       ctx.windows[i].address \in DOMAIN ClassWords /\ ctx.windows[i].focus \in Nat

\* A name that was found is that of a monitor of the snapshot.
Live(name, ctx) == name \notin {None, Active} /\ hasMonitor(ctx, name)

\* What a snapshot lists has a live name.
LEMMA LiveName ==
  ASSUME NEW ctx, Snapshot(ctx), NEW i \in DOMAIN ctx.monitors
  PROVE  Live(ctx.monitors[i].name, ctx)
BY NamesAssumption, ActiveAssumption DEF Snapshot, Live, hasMonitor

\* A match with one of its monitors names a live one.
LEMMA MonitorMatchLive ==
  ASSUME NEW ctx, Snapshot(ctx), NEW i \in DOMAIN ctx.monitors, NEW fit
  PROVE  Live(monitorMatch(ctx, i, fit).name, ctx)
BY LiveName DEF monitorMatch

\* Of several that fit equally well all are candidates.
LEMMA Tied ==
  ASSUME NEW ctx, NEW i, NEW fit, Cardinality(fit) # 1, NEW k \in fit
  PROVE  ctx.monitors[k].name \in monitorMatch(ctx, i, fit).candidates
BY DEF monitorMatch

\* Sets of places can be counted.
LEMMA PlacesAreFinite ==
  ASSUME NEW N \in Nat, NEW D \in SUBSET (1 .. N)
  PROVE  IsFiniteSet(D) /\ Cardinality(D) \in Nat
<1>1. IsFiniteSet(1 .. N)
  BY FS_Interval
<1>2. IsFiniteSet(D)
  BY <1>1, FS_Subset
<1> QED BY <1>2, FS_CardinalityType

\* A monitor that a phrase matched is live,
LEMMA NamedIsLive ==
  ASSUME NEW ctx, Snapshot(ctx), NEW phrase, resolveMonitor(ctx, phrase).matched
  PROVE  Live(resolveMonitor(ctx, phrase).name, ctx)
<1> DEFINE words == meaning(phrase)
           best == ties(ctx.monitors, LAMBDA m : monitorScore(words, m, ctx))
<1>1. best \subseteq DOMAIN ctx.monitors
  BY DEF ties
<1>2. words # <<>> /\ best # {}
  BY DEF resolveMonitor, NoMatch
<1>3. resolveMonitor(ctx, phrase) = monitorMatch(ctx, Min(best), best)
  BY <1>2 DEF resolveMonitor
<1>4. PICK T : ctx.monitors \in Seq(T)
  BY DEF Snapshot
<1>5. Len(ctx.monitors) \in Nat /\ DOMAIN ctx.monitors = 1 .. Len(ctx.monitors)
  BY <1>4
<1> HIDE DEF best
<1>6. Min(best) \in DOMAIN ctx.monitors
  BY <1>1, <1>2, <1>5, PlacesHaveEnds
<1> QED BY <1>3, <1>6, MonitorMatchLive

\* some word of the phrase is one of its own,
LEMMA NamedFits ==
  ASSUME NEW ctx, Snapshot(ctx), NEW phrase, resolveMonitor(ctx, phrase).matched
  PROVE  \E i \in DOMAIN ctx.monitors :
           /\ ctx.monitors[i].name = resolveMonitor(ctx, phrase).name
           /\ monitorScore(meaning(phrase), ctx.monitors[i], ctx) > 0
<1> DEFINE words == meaning(phrase)
           best == ties(ctx.monitors, LAMBDA m : monitorScore(words, m, ctx))
<1>1. /\ best \subseteq DOMAIN ctx.monitors
      /\ \A i \in best : monitorScore(words, ctx.monitors[i], ctx) > 0
  BY DEF ties
<1>2. words # <<>> /\ best # {}
  BY DEF resolveMonitor, NoMatch
<1>3. resolveMonitor(ctx, phrase) = monitorMatch(ctx, Min(best), best)
  BY <1>2 DEF resolveMonitor
<1>4. PICK T : ctx.monitors \in Seq(T)
  BY DEF Snapshot
<1>5. Len(ctx.monitors) \in Nat /\ DOMAIN ctx.monitors = 1 .. Len(ctx.monitors)
  BY <1>4
<1> HIDE DEF best
<1>6. Min(best) \in best
  BY <1>1, <1>2, <1>5, PlacesHaveEnds
<1>7. ctx.monitors[Min(best)].name = resolveMonitor(ctx, phrase).name
  BY <1>3 DEF monitorMatch
<1> QED BY <1>1, <1>6, <1>7 DEF words

\* and so is the leftmost or rightmost one,
LEMMA SideIsLive ==
  ASSUME NEW ctx, Snapshot(ctx), NEW side, resolveSpatialMonitor(ctx, side).matched
  PROVE  Live(resolveSpatialMonitor(ctx, side).name, ctx)
<1> DEFINE xs   == {ctx.monitors[i].x : i \in DOMAIN ctx.monitors}
           edge == CHOOSE x \in xs : \A y \in xs : IF side = "left" THEN x <= y ELSE x >= y
           at   == {i \in DOMAIN ctx.monitors : ctx.monitors[i].x = edge}
           g    == [i \in DOMAIN ctx.monitors |-> ctx.monitors[i].x]
<1>1. ~(Len(ctx.monitors) < 2)
  BY DEF resolveSpatialMonitor, NoMatch
<1>2. resolveSpatialMonitor(ctx, side)
        = monitorMatch(ctx, IF side = "left" THEN Min(at) ELSE Max(at), at)
  BY <1>1 DEF resolveSpatialMonitor
<1>3. PICK T : ctx.monitors \in Seq(T)
  BY DEF Snapshot
<1>4. Len(ctx.monitors) \in Nat /\ DOMAIN ctx.monitors = 1 .. Len(ctx.monitors)
  BY <1>3
<1>5. DOMAIN ctx.monitors # {}
  BY <1>1, <1>4
<1>6. \A i \in DOMAIN ctx.monitors : g[i] \in Int /\ g[i] = ctx.monitors[i].x
  BY DEF Snapshot
<1> HIDE DEF g
<1>7. PICK l \in DOMAIN ctx.monitors : \A j \in DOMAIN ctx.monitors : g[l] <= g[j]
  BY <1>4, <1>5, <1>6, Least
<1>8. PICK h \in DOMAIN ctx.monitors : \A j \in DOMAIN ctx.monitors : g[j] <= g[h]
  BY <1>4, <1>5, <1>6, Greatest
<1>9. \E x \in xs : \A y \in xs : IF side = "left" THEN x <= y ELSE x >= y
  <2>1. CASE side = "left"
    BY <1>6, <1>7, <2>1
  <2>2. CASE side # "left"
    BY <1>6, <1>8, <2>2
  <2> QED BY <2>1, <2>2
<1>10. edge \in xs
  BY <1>9
<1> HIDE DEF edge
<1>11. at # {} /\ at \subseteq DOMAIN ctx.monitors
  BY <1>10
<1> HIDE DEF at
<1>12. Min(at) \in DOMAIN ctx.monitors /\ Max(at) \in DOMAIN ctx.monitors
  BY <1>4, <1>11, PlacesHaveEnds
<1> QED BY <1>2, <1>12, MonitorMatchLive

\* and the one under the pointer.
LEMMA HoveredIsLive ==
  ASSUME NEW ctx, Snapshot(ctx), hoveredMonitor(ctx) # None
  PROVE  Live(hoveredMonitor(ctx), ctx)
<1> DEFINE hovered == {m \in ToSet(ctx.monitors) : m.hovered}
           m == CHOOSE x \in hovered : TRUE
<1>1. Cardinality(hovered) = 1 /\ hoveredMonitor(ctx) = m.name
  BY DEF hoveredMonitor
<1>2. hovered # {}
  BY <1>1, FS_EmptySet
<1>3. m \in hovered
  BY <1>2
<1> HIDE DEF m
<1>4. PICK i \in DOMAIN ctx.monitors : m = ctx.monitors[i]
  BY <1>3 DEF ToSet
<1> QED BY <1>1, <1>4, LiveName

\* The window that was named is there.
LEMMA WindowIsThere ==
  ASSUME NEW ctx, Snapshot(ctx), NEW phrase
  PROVE  LET win == resolveWindow(ctx, phrase)
         IN  IF win.matched THEN hasWindow(ctx, win.name) ELSE win.name = None
<1> DEFINE words == meaning(phrase)
           where == ties(ctx.windows, LAMBDA w : scored(words, LAMBDA v : windowReading(v, w)))
           best  == {ctx.windows[i] : i \in where}
           last_ == CHOOSE w \in best : \A v \in best : w.focus <= v.focus
           g     == [i \in DOMAIN ctx.windows |-> ctx.windows[i].focus]
<1>1. CASE words = <<>> \/ best = {}
  BY <1>1 DEF resolveWindow, NoMatch
<1>2. CASE ~(words = <<>> \/ best = {})
  <2>1. resolveWindow(ctx, phrase).matched /\ resolveWindow(ctx, phrase).name = last_.address
    BY <1>2 DEF resolveWindow
  <2>2. where \subseteq DOMAIN ctx.windows
    BY DEF ties
  <2> HIDE DEF where
  <2>3. PICK T : ctx.windows \in Seq(T)
    BY DEF Snapshot
  <2>4. Len(ctx.windows) \in Nat /\ DOMAIN ctx.windows = 1 .. Len(ctx.windows)
    BY <2>3
  <2>5. \A i \in where : g[i] \in Int /\ g[i] = ctx.windows[i].focus
    BY <2>2 DEF Snapshot
  <2> HIDE DEF g
  <2>6. where # {}
    BY <1>2
  <2>7. PICK i \in where : \A j \in where : g[i] <= g[j]
    BY <2>2, <2>4, <2>5, <2>6, Least
  <2>8. ctx.windows[i] \in best /\ \A v \in best : ctx.windows[i].focus <= v.focus
    BY <2>5, <2>7
  <2>9. last_ \in best
    BY <2>8
  <2> HIDE DEF last_
  <2>10. PICK k \in DOMAIN ctx.windows : last_ = ctx.windows[k]
    BY <2>2, <2>9
  <2>11. last_.address # None
    BY <2>10, NamesAssumption DEF Snapshot
  <2> QED BY <2>1, <2>10, <2>11 DEF hasWindow
<1> QED BY <1>1, <1>2
-----------------------------------------------------------------------------
\* A word has a best reading on a monitor.
LEMMA ReadingOfAWord ==
  ASSUME NEW w, NEW m PROVE monitorReading(w, m) \in Int
<1> DEFINE S == {0} \cup {10 : v \in {v \in NameWords[m.name] : v = w}}
          \cup {5 : v \in {v \in NameWords[m.name] : tokMatch(w, v)}}
          \cup {10 : v \in {v \in m.content : tokMatch(w, v)}}
<1>1. monitorReading(w, m) = Max(S)
  BY DEF monitorReading
<1>2. S \subseteq {0, 5, 10} /\ 0 \in S
  OBVIOUS
<1> HIDE DEF S
<1>3. \E x \in S : \A y \in S : x >= y
  <2>1. CASE 10 \in S
    BY <1>2, <2>1
  <2>2. CASE 10 \notin S /\ 5 \in S
    BY <1>2, <2>2
  <2>3. CASE 10 \notin S /\ 5 \notin S
    BY <1>2, <2>3
  <2> QED BY <2>1, <2>2, <2>3
<1>4. Max(S) \in S
  BY <1>3 DEF Max
<1>5. Max(S) \in {0, 5, 10}
  BY <1>2, <1>4
<1> QED BY <1>1, <1>5

\* Monitors alike in name and content read the same.
LEMMA AlikeRead ==
  ASSUME NEW w, NEW m, NEW o, m.name = o.name, m.content = o.content
  PROVE  monitorReading(w, m) = monitorReading(w, o)
<1> DEFINE S(x) == {0} \cup {10 : v \in {v \in NameWords[x.name] : v = w}}
          \cup {5 : v \in {v \in NameWords[x.name] : tokMatch(w, v)}}
          \cup {10 : v \in {v \in x.content : tokMatch(w, v)}}
<1>1. S(m) = S(o)
  OBVIOUS
<1>2. monitorReading(w, m) = Max(S(m)) /\ monitorReading(w, o) = Max(S(o))
  BY DEF monitorReading
<1> QED BY <1>1, <1>2

Sum(words, m) == scored(words, LAMBDA w : monitorReading(w, m))

\* The score is summed word by word.
LEMMA ScoreSteps ==
  ASSUME NEW T, NEW words \in Seq(T), NEW m
  PROVE  \E g : /\ g[0] = 0
                /\ \A k \in Nat : k < Len(words) =>
                     g[k + 1] = g[k] + monitorReading(words[k + 1], m)
                /\ Sum(words, m) = g[Len(words)]
<1> DEFINE n == Len(words)
           N == DOMAIN words
           Is(h) == h = [t \in SUBSET N |->
                      IF t = {} THEN 0
                      ELSE h[t \ {Max(t)}] + monitorReading(words[Max(t)], m)]
           f == CHOOSE h : Is(h)
           g == [k \in 0 .. n |-> f[1 .. k]]
           next == [p \in Int \X (1 .. n) |-> p[1] + monitorReading(words[p[2]], m)]
           A == Int
           b == 0
<1>1. n \in Nat /\ N = 1 .. n
  OBVIOUS
<1>2. Sum(words, m) = f[N]
  BY DEF Sum, scored, FoldLeft, MapThenFoldSet
<1> HIDE DEF n, N
<1>3. next \in [A \X (1 .. n) -> A] /\ b \in A
  BY ReadingOfAWord
<1>4. \A r \in Int, i \in 1 .. n : next[<<r, i>>] = r + monitorReading(words[i], m)
  OBVIOUS
<1> HIDE DEF next, A, b
<1>5. PICK h : FoldsTo(h, A, b, next, n)
  BY <1>1, <1>3, FoldExists
<1>6. Is(h)
  <2>1. ASSUME NEW t \in SUBSET (1 .. n), t # {} PROVE Max(t) \in 1 .. n
    BY <1>1, <2>1, PlacesHaveEnds
  <2>2. ASSUME NEW t \in SUBSET (1 .. n)
        PROVE  h[t] = IF t = {} THEN 0
                      ELSE h[t \ {Max(t)}] + monitorReading(words[Max(t)], m)
    <3>1. h[t \ {Max(t)}] \in Int
      BY <1>5 DEF FoldsTo, A
    <3>2. h[t] = IF t = {} THEN 0 ELSE next[<<h[t \ {Max(t)}], Max(t)>>]
      BY <1>5 DEF FoldsTo, b
    <3> QED BY <1>4, <2>1, <3>1, <3>2
  <2>3. h = [t \in SUBSET (1 .. n) |-> h[t]]
    BY <1>5 DEF FoldsTo
  <2> QED BY <1>1, <2>2, <2>3
<1>7. Is(f)
  BY <1>6
<1> HIDE DEF f
<1>8. ASSUME NEW k \in Nat, k < n PROVE g[k + 1] = g[k] + monitorReading(words[k + 1], m)
  <2>1. k \in 0 .. n /\ k + 1 \in 0 .. n
    BY <1>1, <1>8
  <2>2. 1 .. k + 1 \in SUBSET (1 .. n) /\ k + 1 \in 1 .. k + 1
    BY <1>1, <1>8
  <2>3. Max(1 .. k + 1) = k + 1
    BY <2>2, LastIsMax
  <2>4. (1 .. k + 1) \ {k + 1} = 1 .. k
    OBVIOUS
  <2>5. f[1 .. k + 1] = f[1 .. k] + monitorReading(words[k + 1], m)
    BY <1>1, <1>7, <2>2, <2>3, <2>4
  <2> QED BY <2>1, <2>5
<1>9. g[0] = 0
  <2>1. 1 .. 0 = {}
    OBVIOUS
  <2>2. f[{}] = 0
    BY <1>7
  <2> QED BY <1>1, <2>1, <2>2
<1>10. g[n] = f[N]
  BY <1>1
<1> HIDE DEF g
<1> QED BY <1>2, <1>8, <1>9, <1>10 DEF n

\* It is a number, and the same for monitors alike.
LEMMA ScoreOfAlike ==
  ASSUME NEW T, NEW words \in Seq(T), NEW ctx, NEW m, NEW o,
         m.name = o.name, m.content = o.content
  PROVE  /\ monitorScore(words, m, ctx) \in Int
         /\ monitorScore(words, m, ctx) = monitorScore(words, o, ctx)
<1> DEFINE n == Len(words)
<1>3. n \in Nat
  OBVIOUS
<1>1. PICK g : /\ g[0] = 0
               /\ \A k \in Nat : k < n => g[k + 1] = g[k] + monitorReading(words[k + 1], m)
               /\ Sum(words, m) = g[n]
  BY ScoreSteps
<1>2. PICK h : /\ h[0] = 0
               /\ \A k \in Nat : k < n => h[k + 1] = h[k] + monitorReading(words[k + 1], o)
               /\ Sum(words, o) = h[n]
  BY ScoreSteps
<1> HIDE DEF n
<1> DEFINE S == {k \in Nat : k <= n => g[k] \in Int /\ g[k] = h[k]}
<1>4. 0 \in S
  BY <1>1, <1>2
<1>5. ASSUME NEW k \in Nat, k \in S PROVE k + 1 \in S
  <2> SUFFICES ASSUME k + 1 <= n PROVE g[k + 1] \in Int /\ g[k + 1] = h[k + 1]
    OBVIOUS
  <2>1. k < n /\ g[k] \in Int /\ g[k] = h[k]
    BY <1>3, <1>5
  <2>2. /\ g[k + 1] = g[k] + monitorReading(words[k + 1], m)
        /\ h[k + 1] = h[k] + monitorReading(words[k + 1], o)
    BY <1>1, <1>2, <2>1
  <2>3. monitorReading(words[k + 1], m) = monitorReading(words[k + 1], o)
    BY AlikeRead
  <2> QED BY <2>1, <2>2, <2>3, ReadingOfAWord
<1>6. Nat \subseteq S
  <2> HIDE DEF S
  <2> QED BY <1>4, <1>5, Counting
<1>7. n \in S /\ n <= n
  BY <1>3, <1>6
<1>8. Sum(words, m) \in Int /\ Sum(words, m) = Sum(words, o)
  BY <1>1, <1>2, <1>7
<1>9. nameSpoken(words, m, ctx) <=> nameSpoken(words, o, ctx)
  BY DEF nameSpoken, isShared
<1> QED BY <1>8, <1>9 DEF monitorScore, Sum

\* Of the monitors that are not the one picked, none fits as well.
LEMMA PickedFitsBest ==
  ASSUME NEW ctx, Snapshot(ctx), NEW T, NEW phrase \in Seq(T),
         resolveMonitor(ctx, phrase).matched, resolveMonitor(ctx, phrase).candidates = {},
         NEW i \in DOMAIN ctx.monitors, NEW j \in DOMAIN ctx.monitors,
         ctx.monitors[i].name = resolveMonitor(ctx, phrase).name,
         ctx.monitors[j].name # resolveMonitor(ctx, phrase).name
  PROVE  monitorScore(meaning(phrase), ctx.monitors[i], ctx)
           > monitorScore(meaning(phrase), ctx.monitors[j], ctx)
<1> DEFINE words == meaning(phrase)
           fits(m) == monitorScore(words, m, ctx)
           best == {k \in DOMAIN ctx.monitors :
                      /\ fits(ctx.monitors[k]) > 0
                      /\ \A l \in DOMAIN ctx.monitors :
                           fits(ctx.monitors[k]) >= fits(ctx.monitors[l])}
<1>0. words \in Seq(T)
  BY WithoutOf DEF meaning
<1>1. \A m : fits(m) \in Int
  BY <1>0, ScoreOfAlike
<1>2. words # <<>> /\ best # {}
  BY DEF resolveMonitor, NoMatch, ties
<1>3. resolveMonitor(ctx, phrase) = monitorMatch(ctx, Min(best), best)
  BY <1>2 DEF resolveMonitor, ties
<1>4. PICK U : ctx.monitors \in Seq(U)
  BY DEF Snapshot
<1>5. Len(ctx.monitors) \in Nat /\ DOMAIN ctx.monitors = 1 .. Len(ctx.monitors)
  BY <1>4
<1>6. \A k \in DOMAIN ctx.monitors :
        ctx.monitors[k].name = ctx.monitors[i].name => fits(ctx.monitors[k]) = fits(ctx.monitors[i])
  <2>1. \A k \in DOMAIN ctx.monitors :
          ctx.monitors[k].name = ctx.monitors[i].name =>
            ctx.monitors[k].content = ctx.monitors[i].content
    BY DEF Snapshot
  <2> QED BY <1>0, <2>1, ScoreOfAlike
<1> HIDE DEF fits, words
<1>a. best \subseteq DOMAIN ctx.monitors
  OBVIOUS
<1>b. \A k \in best : \A l \in DOMAIN ctx.monitors : fits(ctx.monitors[k]) >= fits(ctx.monitors[l])
  OBVIOUS
<1>c. \A k \in DOMAIN ctx.monitors :
         (\E b \in best : fits(ctx.monitors[k]) = fits(ctx.monitors[b])) => k \in best
  OBVIOUS
<1> HIDE DEF best
<1>7. Min(best) \in best
  BY <1>2, <1>5, <1>a, PlacesHaveEnds
<1>8. ctx.monitors[Min(best)].name = ctx.monitors[i].name
  BY <1>3 DEF monitorMatch
<1>9. fits(ctx.monitors[i]) = fits(ctx.monitors[Min(best)])
  BY <1>6, <1>7, <1>8, <1>a
<1>10. j \notin best
  <2>1. CASE Cardinality(best) = 1
    <3>1. \E x : best = {x} 
      <4>1. IsFiniteSet(best)
        BY <1>5, <1>a, PlacesAreFinite
      <4> QED BY <2>1, <4>1, FS_Singleton
    <3> QED BY <1>7, <1>8, <3>1
  <2>2. CASE Cardinality(best) # 1
    <3>1. \A k \in best : ctx.monitors[k].name \in resolveMonitor(ctx, phrase).candidates
      BY <1>3, <2>2, Tied
    <3> QED BY <1>7, <3>1
  <2> QED BY <2>1, <2>2
<1>11. fits(ctx.monitors[j]) # fits(ctx.monitors[i])
  BY <1>c, <1>7, <1>9, <1>10
<1>12. fits(ctx.monitors[i]) >= fits(ctx.monitors[j])
  BY <1>b, <1>7, <1>9
<1>13. fits(ctx.monitors[i]) > fits(ctx.monitors[j])
  BY <1>1, <1>11, <1>12
<1> QED BY <1>13 DEF fits, words
-----------------------------------------------------------------------------
(* The gaze.                                                               *)

\* The window is a length of time.
LEMMA SpanIsTime == span \in Int
<1> DEFINE S == {0, Window}
<1>1. Window \in Int
  BY GazeAssumption
<1>2. \E x \in S : \A y \in S : x >= y
  <2>1. CASE Window >= 0
    BY <1>1, <2>1
  <2>2. CASE ~(Window >= 0)
    BY <1>1, <2>2
  <2> QED BY <2>1, <2>2
<1>3. Max(S) \in S
  BY <1>2 DEF Max
<1> QED BY <1>1, <1>3 DEF span

\* The ring answers for every instant with one of its poses.
LEMMA LooksBack ==
  ASSUME NEW ring \in Seq(Look) \ {<<>>}, NEW t \in Int
  PROVE  gazeAt(ring, t) \in Look /\ \E i \in DOMAIN ring : gazeAt(ring, t) = ring[i]
<1> DEFINE i == t + Lead + span
           k == IF i < 1 THEN 1 ELSE IF i > Len(ring) THEN Len(ring) ELSE i
<1>1. Lead \in Int /\ span \in Int
  BY GazeAssumption, SpanIsTime
<1>2. Len(ring) \in Nat \ {0} /\ DOMAIN ring = 1 .. Len(ring)
  OBVIOUS
<1>3. k \in DOMAIN ring
  BY <1>1, <1>2
<1>4. gazeAt(ring, t) = ring[k]
  BY DEF gazeAt
<1> HIDE DEF k
<1>5. ring[k] \in Look
  BY <1>3
<1> QED BY <1>3, <1>4, <1>5

\* The instants asked for are instants.
LEMMA Asked ==
  ASSUME NEW word \in Int
  PROVE  \E n \in Nat : DOMAIN askedAt(word) = 1 .. n /\ \A i \in 1 .. n : askedAt(word)[i] \in Int
<1> DEFINE n == Max({1, Samples})
<1>1. Samples \in Int /\ Lead \in Int /\ span \in Int
  BY GazeAssumption, SpanIsTime
<1>2. n \in Nat
  <2>1. \E x \in {1, Samples} : \A y \in {1, Samples} : x >= y
    <3>1. CASE Samples >= 1
      BY <1>1, <3>1
    <3>2. CASE ~(Samples >= 1)
      BY <1>1, <3>2
    <3> QED BY <3>1, <3>2
  <2>2. n \in {1, Samples} /\ \A y \in {1, Samples} : n >= y
    BY <2>1 DEF Max
  <2> QED BY <1>1, <2>2
<1>3. askedAt(word) = [i \in 1 .. n |-> IF n = 1 THEN word - Lead
                        ELSE word - Lead - span + (span * (i - 1)) \div (n - 1)]
  BY DEF askedAt
<1> HIDE DEF n
<1>4. ASSUME NEW i \in 1 .. n PROVE askedAt(word)[i] \in Int
  <2>1. CASE n = 1
    BY <1>1, <1>3, <2>1
  <2>2. CASE n # 1
    <3> DEFINE a == span * (i - 1)
               b == n - 1
    <3>1. a \in Int /\ b \in Nat \ {0}
      BY <1>1, <1>2, <2>2
    <3>2. askedAt(word)[i] = word - Lead - span + a \div b
      BY <1>3, <2>2
    <3> HIDE DEF a, b
    <3>3. a \div b \in Int
      BY <3>1
    <3> QED BY <1>1, <3>2, <3>3
  <2> QED BY <2>1, <2>2
<1> QED BY <1>2, <1>3, <1>4

\* What the ring answered: some of n questions, each at an instant.
Answered(got, ring, n) ==
  /\ DOMAIN got \in SUBSET (1 .. n)
  /\ \A i \in DOMAIN got :
       /\ got[i].at \in Int
       /\ got[i].look = gazeAt(ring, got[i].at)
       /\ got[i].look \in Look
       /\ \E k \in DOMAIN ring : got[i].look = ring[k]

\* The answers are poses of the ring.
LEMMA AnswersAre ==
  ASSUME NEW ring \in Seq(Look) \ {<<>>}, NEW word \in Int
  PROVE  \E n \in Nat : Answered(answers(word, ring), ring, n)
<1> DEFINE asked == askedAt(word)
           got == answers(word, ring)
<1>1. PICK n \in Nat : DOMAIN asked = 1 .. n /\ \A i \in 1 .. n : asked[i] \in Int
  BY Asked
<1> HIDE DEF asked
<1>2. got = [i \in {j \in DOMAIN asked : gazeAt(ring, asked[j]).ok} |->
               [at |-> asked[i], look |-> gazeAt(ring, asked[i])]]
  BY DEF answers, asked
<1> HIDE DEF got
<1>3. DOMAIN got \in SUBSET (1 .. n)
  BY <1>1, <1>2
<1>4. ASSUME NEW i \in DOMAIN got
      PROVE  /\ got[i].at \in Int
             /\ got[i].look = gazeAt(ring, got[i].at)
             /\ got[i].look \in Look
             /\ \E k \in DOMAIN ring : got[i].look = ring[k]
  <2>1. got[i].at = asked[i] /\ got[i].look = gazeAt(ring, asked[i]) /\ asked[i] \in Int
    BY <1>1, <1>2
  <2> QED BY <2>1, LooksBack
<1>5. Answered(got, ring, n)
  BY <1>3, <1>4 DEF Answered
<1> QED BY <1>5 DEF got

\* Votes and dwells are numbers.
LEMMA VotesCount ==
  ASSUME NEW n \in Nat, NEW got, NEW ring, Answered(got, ring, n), NEW m
  PROVE  /\ votesFor(m, got) \in SUBSET (1 .. n)
         /\ votesFor(m, got) \subseteq DOMAIN got
         /\ Cardinality(votesFor(m, got)) \in Nat
         /\ Cardinality(DOMAIN got) \in Nat
         /\ dwellOn(m, got) \in Int
         /\ \A i \in votesFor(m, got) : got[i].look.dwell \in Nat
<1> DEFINE agree == votesFor(m, got)
           S == {0} \cup {got[i].look.dwell : i \in agree}
           g == [i \in 1 .. n |-> got[i].look.dwell]
<1>1. agree \subseteq DOMAIN got
  BY DEF votesFor
<1>2. agree \in SUBSET (1 .. n) /\ DOMAIN got \in SUBSET (1 .. n)
  BY <1>1 DEF Answered
<1>3. Cardinality(agree) \in Nat /\ Cardinality(DOMAIN got) \in Nat
  BY <1>2, PlacesAreFinite
<1>4. \A i \in agree : got[i].look.dwell \in Nat
  BY <1>1 DEF Answered, Look
<1>5. \A i \in agree : g[i] \in Int /\ g[i] = got[i].look.dwell
  BY <1>2, <1>4
<1> HIDE DEF agree, g
<1>6. dwellOn(m, got) \in Int
  <2>1. dwellOn(m, got) = Max(S)
    BY DEF dwellOn, agree
  <2>2. \A x \in S : x \in Nat
    BY <1>4
  <2>3. \E x \in S : \A y \in S : x >= y
    <3>1. CASE agree = {}
      BY <3>1
    <3>2. CASE agree # {}
      <4>1. PICK i \in agree : \A j \in agree : g[j] <= g[i]
        BY <1>2, <1>5, <3>2, Greatest
      <4>2. got[i].look.dwell \in S /\ \A y \in S : got[i].look.dwell >= y
        BY <1>4, <1>5, <4>1
      <4> QED BY <4>2
    <3> QED BY <3>1, <3>2
  <2>4. Max(S) \in S
    BY <2>3 DEF Max
  <2> HIDE DEF S
  <2>5. Max(S) \in Nat
    BY <2>2, <2>4
  <2> QED BY <2>1, <2>5
<1> QED BY <1>1, <1>2, <1>3, <1>4, <1>6 DEF agree

\* A vote is a number.
LEMMA VoteIsNumber ==
  ASSUME NEW n \in Nat, NEW got, NEW ring, Answered(got, ring, n), NEW i \in DOMAIN got
  PROVE  vote(got[i].look) \in Int
BY DEF Answered, Look, vote

\* The vote has a winner: of the most votes the longest dwell, of those the
\* lowest number.
LEMMA WinnerIsSeen ==
  ASSUME NEW n \in Nat, NEW got, NEW ring, Answered(got, ring, n), DOMAIN got # {}
  PROVE  /\ \E i \in DOMAIN got : vote(got[i].look) = winner(got)
         /\ \A i \in DOMAIN got : outvotes(winner(got), vote(got[i].look), got)
<1> DEFINE D == DOMAIN got
           seen == {vote(got[i].look) : i \in D}
           v == [i \in D |-> Cardinality(votesFor(vote(got[i].look), got))]
           d == [i \in D |-> dwellOn(vote(got[i].look), got)]
           o == [i \in D |-> vote(got[i].look)]
<1>1. D \in SUBSET (1 .. n)
  BY DEF Answered
<1>2. \A i \in D : /\ v[i] = Cardinality(votesFor(vote(got[i].look), got)) /\ v[i] \in Int
                   /\ d[i] = dwellOn(vote(got[i].look), got) /\ d[i] \in Int
                   /\ o[i] = vote(got[i].look) /\ o[i] \in Int
  BY VotesCount, VoteIsNumber
<1> HIDE DEF v, d, o
<1>3. PICK a \in D : \A j \in D : v[j] <= v[a]
  <2> HIDE DEF D
  <2> QED BY <1>1, <1>2, Greatest DEF D
<1> DEFINE E == {i \in D : v[i] = v[a]}
<1>4. E \in SUBSET (1 .. n) /\ E # {} /\ \A i \in E : i \in D /\ v[i] = v[a]
  BY <1>1, <1>3
<1>5. \A i \in D : i \in E \/ v[i] # v[a]
  OBVIOUS
<1> HIDE DEF E
<1>6. PICK b \in E : \A j \in E : d[j] <= d[b]
  BY <1>2, <1>4, Greatest
<1> DEFINE F == {i \in E : d[i] = d[b]}
<1>7. F \in SUBSET (1 .. n) /\ F # {} /\ \A i \in F : i \in E /\ d[i] = d[b]
  BY <1>4, <1>6
<1>8. \A i \in E : i \in F \/ d[i] # d[b]
  OBVIOUS
<1> HIDE DEF F
<1>9. PICK c \in F : \A j \in F : o[c] <= o[j]
  BY <1>2, <1>4, <1>7, Least
<1>10. c \in D /\ v[c] = v[a] /\ d[c] = d[b]
  BY <1>4, <1>7
<1>11. ASSUME NEW j \in D PROVE outvotes(vote(got[c].look), vote(got[j].look), got)
  <2>1. \/ v[c] > v[j]
        \/ v[c] = v[j] /\ d[c] > d[j]
        \/ v[c] = v[j] /\ d[c] = d[j] /\ o[c] <= o[j]
    <3>1. CASE j \notin E
      BY <1>2, <1>3, <1>5, <1>10, <3>1
    <3>2. CASE j \in E /\ j \notin F
      <4>1. v[c] = v[j]
        BY <1>4, <1>10, <3>2
      <4>2. d[j] # d[c] /\ d[j] <= d[c]
        BY <1>6, <1>8, <1>10, <3>2
      <4>3. d[c] > d[j]
        BY <1>2, <1>10, <4>2
      <4> QED BY <4>1, <4>3
    <3>3. CASE j \in F
      BY <1>4, <1>7, <1>9, <1>10, <3>3
    <3> QED BY <3>1, <3>2, <3>3
  <2> QED BY <1>2, <1>10, <2>1 DEF outvotes
<1>12. \E m \in seen : \A other \in seen : outvotes(m, other, got)
  <2>1. vote(got[c].look) \in seen
    BY <1>10
  <2>2. \A other \in seen : outvotes(vote(got[c].look), other, got)
    BY <1>11
  <2> QED BY <2>1, <2>2
<1>13. winner(got) = CHOOSE m \in seen : \A other \in seen : outvotes(m, other, got)
  BY DEF winner
<1>14. winner(got) \in seen /\ \A other \in seen : outvotes(winner(got), other, got)
  BY <1>12, <1>13
<1> QED BY <1>14

\* One of those who agree speaks for all: the latest.
LEMMA RepresentativeIsLatest ==
  ASSUME NEW n \in Nat, NEW got, NEW ring, Answered(got, ring, n), NEW m,
         votesFor(m, got) # {}, NEW anchor \in Int
  PROVE  LET rep == representative(m, got, anchor)
         IN  rep \in votesFor(m, got) /\ \A i \in votesFor(m, got) : got[i].at <= got[rep].at
<1> DEFINE D == votesFor(m, got)
           far(i) == anchor - got[i].at
           f == [i \in D |-> far(i)]
           d == [i \in D |-> got[i].look.dwell]
           Before(i, j) == \/ far(i) < far(j)
                           \/ far(i) = far(j) /\ got[i].look.dwell > got[j].look.dwell
                           \/ far(i) = far(j) /\ got[i].look.dwell = got[j].look.dwell /\ i <= j
           rep == representative(m, got, anchor)
<1>1. D \in SUBSET (1 .. n) /\ D \subseteq DOMAIN got /\ \A i \in D : got[i].look.dwell \in Nat
  BY VotesCount
<1>2. \A i \in D : /\ got[i].at \in Int
                   /\ f[i] = far(i) /\ f[i] \in Int
                   /\ d[i] = got[i].look.dwell /\ d[i] \in Int
  BY <1>1 DEF Answered
<1>a. D # {}
  OBVIOUS
<1>b. rep = CHOOSE i \in D : \A j \in D : Before(i, j)
  BY DEF representative
<1> HIDE DEF f, d, D, rep
<1>3. PICK a \in D : \A j \in D : f[a] <= f[j]
  BY <1>1, <1>2, <1>a, Least
<1> DEFINE E == {i \in D : f[i] = f[a]}
<1>4. E \in SUBSET (1 .. n) /\ E # {} /\ \A i \in E : i \in D /\ f[i] = f[a]
  BY <1>1, <1>3
<1>5. \A i \in D : i \in E \/ f[i] # f[a]
  OBVIOUS
<1> HIDE DEF E
<1>6. PICK b \in E : \A j \in E : d[j] <= d[b]
  BY <1>2, <1>4, Greatest
<1> DEFINE F == {i \in E : d[i] = d[b]}
<1>7. F \in SUBSET (1 .. n) /\ F # {} /\ \A i \in F : i \in E /\ d[i] = d[b]
  BY <1>4, <1>6
<1>8. \A i \in E : i \in F \/ d[i] # d[b]
  OBVIOUS
<1> HIDE DEF F
<1> DEFINE c == Min(F)
<1>9. c \in F /\ \A j \in F : c <= j
  BY <1>7, PlacesHaveEnds
<1> HIDE DEF c
<1>10. c \in D /\ f[c] = f[a] /\ d[c] = d[b]
  BY <1>4, <1>7, <1>9
<1>11. ASSUME NEW j \in D PROVE Before(c, j)
  <2>1. \/ f[c] < f[j]
        \/ f[c] = f[j] /\ d[c] > d[j]
        \/ f[c] = f[j] /\ d[c] = d[j] /\ c <= j
    <3>1. CASE j \notin E
      BY <1>2, <1>3, <1>5, <1>10, <3>1
    <3>2. CASE j \in E /\ j \notin F
      BY <1>2, <1>4, <1>6, <1>8, <1>10, <3>2
    <3>3. CASE j \in F
      BY <1>4, <1>7, <1>9, <1>10, <3>3
    <3> QED BY <3>1, <3>2, <3>3
  <2> QED BY <1>2, <1>10, <2>1
<1>12. rep \in D /\ \A j \in D : Before(rep, j)
  BY <1>10, <1>11, <1>b
<1>13. ASSUME NEW i \in D PROVE got[i].at <= got[rep].at
  BY <1>2, <1>12
<1> QED BY <1>12, <1>13 DEF D, rep

\* What resolveDeixis answers, of the answers of the ring: the vote was for w, and
\* the name and the pose are those of a sample that voted so.
Decided(gz, ctx, ring, got) ==
  \E w : /\ vote(gazeAt(ring, gz.at)) = w /\ w \in Int
         /\ gz.name # None => /\ \E i \in DOMAIN got : got[i].look.name = gz.name
                              /\ w >= 0 => hasMonitor(ctx, gz.name)
         /\ \A i \in votesFor(w, got) : got[i].at <= gz.at
         /\ \A i \in DOMAIN got :
              Cardinality(votesFor(vote(got[i].look), got)) <= Cardinality(votesFor(w, got))
         /\ gz.stable <=> Cardinality(votesFor(w, got)) * 2 > Cardinality(DOMAIN got)
         /\ gz.place >= PlaceFloor

\* The point never lies nearer than the floor.
LEMMA PointIsOutside ==
  ASSUME NEW hit \in Int PROVE projectPlacePoint(hit) >= PlaceFloor
<1> DEFINE S == {PlaceFloor, 13}
           ahead == IF PlaceDistance > 0 THEN PlaceDistance ELSE Max(S)
           p == IF hit > 0 THEN hit ELSE ahead
<1>1. PlaceFloor \in Int /\ PlaceDistance \in Int
  BY GazeAssumption
<1>2. Max(S) \in Int
  <2>1. \E x \in S : \A y \in S : x >= y
    <3>1. CASE PlaceFloor >= 13
      BY <1>1, <3>1
    <3>2. CASE ~(PlaceFloor >= 13)
      BY <1>1, <3>2
    <3> QED BY <3>1, <3>2
  <2>2. Max(S) \in S
    BY <2>1 DEF Max
  <2> QED BY <1>1, <2>2
<1>3. p \in Int
  BY <1>1, <1>2
<1>4. projectPlacePoint(hit) = IF p < PlaceFloor THEN PlaceFloor ELSE p
  BY DEF projectPlacePoint
<1> HIDE DEF p
<1> QED BY <1>1, <1>3, <1>4

\* resolveDeixis decides as the vote, the latest of the majority and the floor say.
LEMMA GazeIsDecided ==
  ASSUME NEW ring \in Seq(Look) \ {<<>>}, NEW word \in Int, NEW ctx,
         resolveDeixis(word, ring, ctx).valid
  PROVE  Decided(resolveDeixis(word, ring, ctx), ctx, ring, answers(word, ring))
<1> DEFINE got == answers(word, ring)
           won == winner(got)
           rep == representative(won, got, word - Lead)
           gone == won >= 0 /\ ~hasMonitor(ctx, got[rep].look.name)
           gz == resolveDeixis(word, ring, ctx)
<1>1. PICK n \in Nat : Answered(got, ring, n)
  BY AnswersAre
<1>2. DOMAIN got # {}
  BY DEF resolveDeixis, NoGaze
<1>3. gz = [valid |-> TRUE,
            name   |-> IF gone THEN None ELSE got[rep].look.name,
            at     |-> got[rep].at,
            place  |-> projectPlacePoint(got[rep].look.hit),
            stable |-> Cardinality(votesFor(won, got)) * 2 > Cardinality(DOMAIN got)]
  BY <1>2 DEF resolveDeixis
<1> HIDE DEF got
<1>4. /\ \E i \in DOMAIN got : vote(got[i].look) = won
      /\ \A i \in DOMAIN got : outvotes(won, vote(got[i].look), got)
  BY <1>1, <1>2, WinnerIsSeen
<1> HIDE DEF won
<1>5. votesFor(won, got) # {}
  BY <1>4 DEF votesFor
<1>6. word - Lead \in Int
  BY GazeAssumption
<1>7. rep \in votesFor(won, got) /\ \A i \in votesFor(won, got) : got[i].at <= got[rep].at
  BY <1>1, <1>5, <1>6, RepresentativeIsLatest
<1> HIDE DEF rep, gz
<1>8. rep \in DOMAIN got /\ vote(got[rep].look) = won
  BY <1>7 DEF votesFor
<1>9. /\ got[rep].look = gazeAt(ring, got[rep].at) /\ got[rep].look \in Look
      /\ \E k \in DOMAIN ring : got[rep].look = ring[k]
  BY <1>1, <1>8 DEF Answered
<1>a. won \in Int
  BY <1>1, <1>8, VoteIsNumber
<1>10. projectPlacePoint(got[rep].look.hit) >= PlaceFloor
  BY <1>9, PointIsOutside DEF Look
<1>11. ASSUME NEW i \in DOMAIN got
       PROVE  Cardinality(votesFor(vote(got[i].look), got)) <= Cardinality(votesFor(won, got))
  <2>1. outvotes(won, vote(got[i].look), got)
    BY <1>4
  <2>2. /\ Cardinality(votesFor(vote(got[i].look), got)) \in Nat
        /\ Cardinality(votesFor(won, got)) \in Nat
    BY <1>1, VotesCount
  <2> QED BY <2>1, <2>2 DEF outvotes
<1>b. gz.name # None => /\ \E i \in DOMAIN got : got[i].look.name = gz.name
                        /\ won >= 0 => hasMonitor(ctx, gz.name)
  BY <1>3, <1>8
<1>12. Decided(gz, ctx, ring, got)
  BY <1>3, <1>7, <1>8, <1>9, <1>10, <1>11, <1>a, <1>b DEF Decided
<1> QED BY <1>12 DEF gz, got
-----------------------------------------------------------------------------
(* The grammar.                                                            *)

\* A set of numbers has a first.
LEMMA FirstOf ==
  ASSUME NEW S \in SUBSET Nat, S # {}
  PROVE  first(S) \in S
<1>1. PICK i \in S : \A j \in S : ~(<<j, i>> \in OpToRel(<, Nat))
  BY NatLessThanWellFounded, WFMin
<1>2. ASSUME NEW j \in S PROVE i <= j
  <2>1. i \in Nat /\ j \in Nat
    OBVIOUS
  <2>2. CASE j < i
    <3>1. <<j, i>> \in OpToRel(<, Nat)
      BY <2>1, <2>2 DEF OpToRel
    <3> QED BY <1>1, <3>1
  <2> QED BY <2>1, <2>2
<1> QED BY <1>2 DEF first

\* What is read starts from a deictic reading.
LEMMA RawReads == \A t : IsRaw(findDeictic(t))
BY DEF findDeictic, Raw, IsRaw

\* The fields of a move leave the verb that was read.
LEMMA WithMonitorKeeps ==
  ASSUME NEW r, IsRaw(r), NEW dest, NEW here
  PROVE  IsRaw(withMonitor(r, dest, here)) /\ withMonitor(r, dest, here).verb = r.verb
BY DEF withMonitor, IsRaw

\* A move reads as one of its kinds.
LEMMA MovesRead ==
  ASSUME NEW r, IsRaw(r), NEW s, NEW u
  PROVE  /\ Reads(workspaceMove(r, s))
         /\ Reads(windowMove(r, s))
         /\ Reads(lostMove(r, u))
<1>1. Reads(workspaceMove(r, s))
  <2> DEFINE w == withMonitor(r, s.dest, s.here)
  <2>1. IsRaw(w)
    BY WithMonitorKeeps
  <2> HIDE DEF w
  <2>2. \A n : Reads([w EXCEPT !.verb = "move_workspace", !.workspace = n])
    BY <2>1 DEF Reads, IsRaw, Verbs
  <2> QED BY <2>2 DEF workspaceMove, w
<1>2. ASSUME NEW w, Reads(w) PROVE \A dest, here : Reads(withMonitor(w, dest, here))
  BY <1>2, WithMonitorKeeps DEF Reads
<1>3. Reads(windowMove(r, s))
  <2> DEFINE w == [r EXCEPT !.verb = "move_window", !.window = s.subject]
  <2>1. Reads(w)
    BY DEF Reads, IsRaw, Verbs
  <2> HIDE DEF w
  <2>2. \A n : Reads([w EXCEPT !.toWorkspace = TRUE, !.workspace = n])
    BY <2>1 DEF Reads, IsRaw
  <2>3. \A dest, here : Reads(withMonitor(w, dest, here))
    BY <1>2, <2>1
  <2> QED BY <2>2, <2>3 DEF windowMove, w
<1>4. Reads(lostMove(r, u))
  <2> DEFINE n == scanWorkspaceIndex(u, workspaceAt(u))
             w == [r EXCEPT !.verb = "move_workspace", !.workspace = n]
  <2>1. Reads(w)
    BY DEF Reads, IsRaw, Verbs
  <2> HIDE DEF n, w
  <2>2. Reads([w EXCEPT !.destHere = TRUE])
    BY <2>1 DEF Reads, IsRaw
  <2>3. \A dest, here : Reads(withMonitor(w, dest, here))
    BY <1>2, <2>1
  <2> QED BY <2>2, <2>3 DEF lostMove, n, w
<1> QED BY <1>1, <1>3, <1>4

\* Every kind of command reads as one of the verbs.
LEMMA ReadingReads ==
  ASSUME NEW r, IsRaw(r), NEW u,
         NEW kind \in Kinds
  PROVE  Reads(reading(kind, u, r))
<1>1. CASE kind = "move_workspace"
  BY <1>1, MovesRead DEF reading
<1>2. CASE kind = "move_window"
  BY <1>2, MovesRead DEF reading
<1>3. CASE kind = "lost_move"
  BY <1>3, MovesRead DEF reading
<1>4. CASE kind \in {"closer", "further"}
  BY <1>4 DEF reading, motion, Reads, IsRaw, Verbs
<1>5. CASE kind \in {"follow", "anchor"}
  BY <1>5 DEF reading, withAnchor, Reads, IsRaw, Verbs
<1>6. CASE kind \in {"monitor_view", "workspace", "maximize", "hand_input", "dock"}
  BY <1>6 DEF reading, Reads, IsRaw, Verbs
<1>7. CASE kind \in {"create_monitor", "fullscreen", "focus", "launch_app", "undock", "pick",
                     "place", "center", "none"}
  BY <1>7 DEF reading, Reads, IsRaw, Verbs
<1> QED BY <1>1, <1>2, <1>3, <1>4, <1>5, <1>6, <1>7 DEF Kinds

\* Some question is always answered: "none" is the last.
LEMMA ChainEnds ==
  ASSUME NEW u, NEW r
  PROVE  decided(chain(u, r)) \in Kinds
<1> DEFINE all == chain(u, r)
           yes == {i \in DOMAIN all : all[i][2]}
<1>1. DOMAIN all = 1 .. 22 /\ \A i \in 1 .. 22 : all[i][1] \in Kinds
  BY DEF chain, Kinds
<1>2. all[22] = <<"none", TRUE>>
  BY DEF chain
<1> HIDE DEF all
<1>a. all[22][2]
  BY <1>2
<1>b. 22 \in yes
  BY <1>1, <1>a
<1>3. yes \in SUBSET Nat /\ yes # {}
  BY <1>1, <1>b
<1>4. first(yes) \in 1 .. 22
  BY <1>1, <1>3, FirstOf
<1> QED BY <1>1, <1>4 DEF decided, all

\* Whatever is said is read as one of the verbs.
LEMMA DetectReads == \A t : Reads(detect(t))
<1> SUFFICES ASSUME NEW t PROVE Reads(detect(t))
  OBVIOUS
<1> DEFINE u    == t.words
           r    == findDeictic(t)
           read == reading(decided(chain(u, r)), u, r)
<1>1. Reads(Raw)
  BY DEF Raw, Reads, IsRaw, Verbs
<1>2. Reads(read)
  BY RawReads, ChainEnds, ReadingReads
<1> HIDE DEF read
<1>3. \A words : Reads([read EXCEPT !.app = words]) /\ Reads([read EXCEPT !.target = words])
  BY <1>2 DEF Reads, IsRaw
<1>4. Reads(withNames(read, u))
  BY <1>2, <1>3 DEF withNames
<1> QED BY <1>1, <1>4 DEF detect, read

(* What else is read: whose words, and where it points.                    *)

\* What is read off the words of T: the monitor's are among them, and the
\* deictic word has its instant.
Noted(r, T) ==
  /\ {"verb", "target", "monitor", "deictic", "isPlace", "wordAt"} \subseteq DOMAIN r
  /\ r.monitor \in Seq(T)
  /\ r.wordAt \in Int

\* What "this" and "here" were found stays; but a motion has no place.
SamePointing(o, r) ==
  /\ o.isPlace = r.isPlace
  /\ o.deictic = r.deictic
  /\ o.verb # "move_dist"

\* A set of places has a first and a last of its own.
LEMMA EndsOf ==
  ASSUME NEW N \in Nat, NEW D \in SUBSET (1 .. N), D # {}
  PROVE  first(D) \in D /\ last(D) \in D
<1>1. \E i \in D : \A j \in D : i <= j
  BY PlacesHaveEnds
<1>2. \E i \in D : \A j \in D : i >= j
  BY PlacesHaveEnds
<1> QED BY <1>1, <1>2 DEF first, last

\* What is cut out of a list is of the list,
LEMMA SliceOf ==
  ASSUME NEW T, NEW u \in Seq(T), NEW from \in Int, NEW to \in Int, from >= 1, to <= Len(u)
  PROVE  slice(u, from, to) \in Seq(T)
<1>1. \A i \in from .. to : u[i] \in T
  OBVIOUS
<1> QED BY <1>1, SubSeqProperties DEF slice

\* trimmed or not,
LEMMA TrimmedOf ==
  ASSUME NEW T, NEW u \in Seq(T) PROVE trimmed(u) \in Seq(T)
<1> DEFINE kept == {i \in DOMAIN u : (\E j \in 1 .. i : u[j] \notin Determiners)
                                /\ (\E j \in i .. Len(u) : u[j] \notin Fillers)}
           none == <<>>
<1>1. none \in Seq(T)
  BY EmptySeq
<1>2. DOMAIN u = 1 .. Len(u) /\ Len(u) \in Nat
  OBVIOUS
<1>3. kept \in SUBSET (1 .. Len(u))
  BY <1>2
<1>4. trimmed(u) = IF kept = {} THEN none ELSE slice(u, first(kept), last(kept))
  BY DEF trimmed
<1> HIDE DEF kept, none
<1>5. CASE kept = {}
  BY <1>1, <1>4, <1>5
<1>6. CASE kept # {}
  <2>1. first(kept) \in 1 .. Len(u) /\ last(kept) \in 1 .. Len(u)
    BY <1>2, <1>3, <1>6, EndsOf
  <2>2. slice(u, first(kept), last(kept)) \in Seq(T)
    BY <1>2, <2>1, SliceOf
  <2> QED BY <1>4, <1>6, <2>2
<1> QED BY <1>5, <1>6

\* and nothing is of every list.
LEMMA NothingOf == \A T : <<>> \in Seq(T)
<1> SUFFICES ASSUME NEW T PROVE <<>> \in Seq(T)
  OBVIOUS
<1> QED BY EmptySeq

\* "workspace" ends somewhere, or nowhere.
LEMMA WhereAWordEnds ==
  ASSUME NEW T, NEW u \in Seq(T) PROVE workspaceAt(u) \in Nat
<1> DEFINE at == {i \in DOMAIN u : \/ u[i] = "workspace"
                                   \/ u[i] = "work" /\ i < Len(u) /\ u[i + 1] = "space"}
<1>1. DOMAIN u = 1 .. Len(u) /\ Len(u) \in Nat
  OBVIOUS
<1>2. at \in SUBSET (1 .. Len(u))
  BY <1>1
<1>3. workspaceAt(u) = IF at = {} THEN 0
                       ELSE IF u[first(at)] = "workspace" THEN first(at) ELSE first(at) + 1
  BY DEF workspaceAt, compound
<1> HIDE DEF at
<1>4. CASE at = {}
  BY <1>3, <1>4
<1>5. CASE at # {}
  <2>1. first(at) \in at
    BY <1>1, <1>2, <1>5, EndsOf
  <2>2. first(at) \in 1 .. Len(u)
    BY <1>2, <2>1
  <2>3. first(at) \in Nat
    BY <1>1, <2>2
  <2> QED BY <1>3, <1>5, <2>3
<1> QED BY <1>4, <1>5

\* A place word has a place.
LEMMA PlaceWordAt ==
  ASSUME NEW T, NEW u \in Seq(T)
  PROVE  LET here == trailingPlaceDeictic(u) IN here = 0 \/ here \in 1 .. Len(u)
<1> DEFINE words == {i \in DOMAIN u : \E j \in i .. Len(u) : u[j] \notin Fillers}
<1>1. DOMAIN u = 1 .. Len(u) /\ Len(u) \in Nat
  OBVIOUS
<1>2. words \in SUBSET (1 .. Len(u))
  BY <1>1
<1>3. trailingPlaceDeictic(u)
        = IF words # {} /\ u[last(words)] \in PlaceWords THEN last(words) ELSE 0
  BY DEF trailingPlaceDeictic
<1> HIDE DEF words
<1>4. CASE words = {}
  BY <1>3, <1>4
<1>5. CASE words # {}
  <2>1. last(words) \in 1 .. Len(u)
    BY <1>1, <1>2, <1>5, EndsOf
  <2> QED BY <1>3, <1>5, <2>1
<1> QED BY <1>4, <1>5

\* The words of a destination are words that were said.
LEMMA DestinationOf ==
  ASSUME NEW T, NEW u \in Seq(T), splitMovePhrase(u).ok
  PROVE  splitMovePhrase(u).dest \in Seq(T)
<1> DEFINE verbs == {i \in DOMAIN u : u[i] \in {"move", "put", "send", "throw", "drag", "shift"}}
           v     == first(verbs)
           here  == trailingPlaceDeictic(u)
           preps == {i \in v + 1 .. Len(u) : isDestination(u, i, here)}
           p     == first(preps)
           d     == IF p < Len(u) /\ u[p + 1] = "to" THEN p + 2 ELSE p + 1
           dest  == trimmed(slice(u, d, Len(u)))
           ends  == {i \in v .. here - 1 : i = v \/ u[i] \notin {"right", "over", "in"}}
<1>1. DOMAIN u = 1 .. Len(u) /\ Len(u) \in Nat
  OBVIOUS
<1>2. verbs # {}
  BY DEF splitMovePhrase, NoSplit
<1>3. verbs \in SUBSET (1 .. Len(u))
  BY <1>1
<1>4. splitMovePhrase(u).dest = IF preps = {} THEN <<u[here]>> ELSE dest
  BY <1>2 DEF splitMovePhrase, NoSplit
<1>5. preps = {} => here > v \/ ~(here <= v)
  BY <1>2 DEF splitMovePhrase, NoSplit
<1> HIDE DEF verbs
<1>6. v \in 1 .. Len(u)
  BY <1>1, <1>2, <1>3, EndsOf
<1> HIDE DEF v
<1>7. CASE preps = {}
  <2>1. here = 0 \/ here \in 1 .. Len(u)
    BY PlaceWordAt
  <2> HIDE DEF here
  <2>2. here \in DOMAIN u
    BY <1>1, <1>5, <1>6, <1>7, <2>1
  <2>3. u[here] \in T
    BY <2>2
  <2>4. <<u[here]>> \in Seq(T)
    BY <2>3
  <2> QED BY <1>4, <1>7, <2>4
<1>8. CASE preps # {}
  <2>1. preps \in SUBSET (1 .. Len(u))
    BY <1>1, <1>6
  <2> HIDE DEF preps
  <2>2. p \in 1 .. Len(u)
    BY <1>1, <1>8, <2>1, EndsOf
  <2> HIDE DEF p
  <2>3. d \in Int /\ d >= 1
    BY <1>1, <2>2
  <2> HIDE DEF d
  <2>4. slice(u, d, Len(u)) \in Seq(T)
    BY <1>1, <2>3, SliceOf
  <2>5. dest \in Seq(T)
    BY <2>4, TrimmedOf
  <2> QED BY <1>4, <1>8, <2>5
<1> QED BY <1>7, <1>8

\* The destination of a move is of the words said.
LEMMA WithMonitorNotes ==
  ASSUME NEW T, NEW r, Noted(r, T), NEW dest \in Seq(T), NEW here
  PROVE  LET w == withMonitor(r, dest, here)
         IN  Noted(w, T) /\ w.isPlace = r.isPlace /\ w.deictic = r.deictic /\ w.verb = r.verb
BY NothingOf DEF withMonitor, Noted

\* Both kinds of move note what they say.
LEMMA MovesNote ==
  ASSUME NEW T, NEW r, Noted(r, T), NEW s, s.dest \in Seq(T)
  PROVE  /\ Noted(workspaceMove(r, s), T) /\ SamePointing(workspaceMove(r, s), r)
         /\ Noted(windowMove(r, s), T) /\ SamePointing(windowMove(r, s), r)
<1>1. Noted(workspaceMove(r, s), T) /\ SamePointing(workspaceMove(r, s), r)
  <2> DEFINE w == withMonitor(r, s.dest, s.here)
  <2>1. Noted(w, T) /\ w.isPlace = r.isPlace /\ w.deictic = r.deictic
    BY WithMonitorNotes
  <2> HIDE DEF w
  <2>2. \A n : LET x == [w EXCEPT !.verb = "move_workspace", !.workspace = n]
               IN  Noted(x, T) /\ SamePointing(x, r)
    BY <2>1 DEF Noted, SamePointing
  <2> QED BY <2>2 DEF workspaceMove, w
<1>2. Noted(windowMove(r, s), T) /\ SamePointing(windowMove(r, s), r)
  <2> DEFINE w == [r EXCEPT !.verb = "move_window", !.window = s.subject]
  <2>1. Noted(w, T) /\ SamePointing(w, r) /\ w.verb = "move_window"
    BY DEF Noted, SamePointing
  <2> HIDE DEF w
  <2>2. \A n : LET x == [w EXCEPT !.toWorkspace = TRUE, !.workspace = n]
               IN  Noted(x, T) /\ SamePointing(x, r)
    BY <2>1 DEF Noted, SamePointing
  <2>3. LET x == withMonitor(w, s.dest, s.here) IN Noted(x, T) /\ SamePointing(x, r)
    BY <2>1, WithMonitorNotes DEF SamePointing
  <2> QED BY <2>2, <2>3 DEF windowMove, w
<1> QED BY <1>1, <1>2

\* A move whose verb was lost notes the words after its workspace.
LEMMA LostMoveNotes ==
  ASSUME NEW T, NEW r, Noted(r, T), NEW u \in Seq(T), isLostMove(u)
  PROVE  Noted(lostMove(r, u), T) /\ SamePointing(lostMove(r, u), r)
<1> DEFINE from == workspaceAt(u) + 1
           D    == destinations(u, from)
           here == trailingPlaceDeictic(u) > workspaceAt(u)
           i    == first(D)
           d    == IF i < Len(u) /\ u[i + 1] = "to" THEN i + 2 ELSE i + 1
           w    == [r EXCEPT !.verb = "move_workspace",
                        !.workspace = scanWorkspaceIndex(u, workspaceAt(u))]
           dest == trimmed(slice(u, d, Len(u)))
<1>1. Noted(w, T) /\ SamePointing(w, r)
  BY DEF Noted, SamePointing
<1>2. lostMove(r, u) = IF here THEN [w EXCEPT !.destHere = TRUE] ELSE withMonitor(w, dest, FALSE)
  BY DEF lostMove
<1> HIDE DEF w
<1>3. LET x == [w EXCEPT !.destHere = TRUE] IN Noted(x, T) /\ SamePointing(x, r)
  BY <1>1 DEF Noted, SamePointing
<1>4. ASSUME ~here
      PROVE  LET x == withMonitor(w, dest, FALSE) IN Noted(x, T) /\ SamePointing(x, r)
  <2>1. D # {}
    BY <1>4 DEF isLostMove
  <2>2. Len(u) \in Nat /\ from \in Nat /\ from >= 1
    BY WhereAWordEnds
  <2>a. from .. Len(u) \subseteq 1 .. Len(u)
    BY <2>2
  <2>b. D \subseteq from .. Len(u)
    <3> HIDE DEF from
    <3> QED BY DEF destinations
  <2>3. D \in SUBSET (1 .. Len(u))
    BY <2>a, <2>b
  <2> HIDE DEF D
  <2>4. i \in 1 .. Len(u)
    BY <2>1, <2>2, <2>3, EndsOf
  <2> HIDE DEF i
  <2>5. d \in Int /\ d >= 1
    BY <2>2, <2>4
  <2> HIDE DEF d
  <2>6. slice(u, d, Len(u)) \in Seq(T)
    BY <2>2, <2>5, SliceOf
  <2>7. dest \in Seq(T)
    BY <2>6, TrimmedOf
  <2> HIDE DEF dest
  <2> DEFINE no == FALSE
             x == withMonitor(w, dest, no)
  <2> HIDE DEF no
  <2>8. Noted(w, T)
    BY <1>1
  <2>9. Noted(x, T) /\ x.isPlace = w.isPlace /\ x.deictic = w.deictic /\ x.verb = w.verb
    BY <2>7, <2>8, WithMonitorNotes
  <2> HIDE DEF x
  <2>10. Noted(x, T) /\ SamePointing(x, r)
    BY <1>1, <2>9 DEF SamePointing
  <2> QED BY <2>10 DEF x, no
<1> QED BY <1>2, <1>3, <1>4

\* A kind is decided only where its question said yes.
LEMMA MoveWasSaid ==
  ASSUME NEW u, NEW r
  PROVE  LET kind == decided(chain(u, r))
             s    == splitMovePhrase(u)
         IN  /\ kind \in {"move_workspace", "move_window"} => s.ok
             /\ kind = "lost_move" => isLostMove(u)
<1> DEFINE all == chain(u, r)
           yes == {i \in DOMAIN all : all[i][2]}
           k   == first(yes)
<1>1. /\ DOMAIN all = 1 .. 22
      /\ \A i \in 1 .. 22 : /\ all[i][1] \in {"move_workspace", "move_window"} => i \in {2, 3}
                            /\ all[i][1] = "lost_move" => i = 5
  BY DEF chain
<1>2. /\ all[2][2] <=> isWorkspaceMove(splitMovePhrase(u))
      /\ all[3][2] <=> isWindowMove(splitMovePhrase(u))
      /\ all[5][2] => isLostMove(u)
  BY DEF chain
<1>3. all[22] = <<"none", TRUE>>
  BY DEF chain
<1>4. decided(all) = all[k][1]
  BY DEF decided
<1> HIDE DEF all
<1>5. all[22][2]
  BY <1>3
<1>6. 22 \in yes
  BY <1>1, <1>5
<1>7. yes \in SUBSET Nat /\ yes # {}
  BY <1>1, <1>6
<1>8. k \in yes
  BY <1>7, FirstOf
<1>9. k \in 1 .. 22 /\ all[k][2]
  BY <1>1, <1>8
<1> HIDE DEF k, yes
<1>10. ASSUME decided(all) \in {"move_workspace", "move_window"} PROVE splitMovePhrase(u).ok
  <2>1. k \in {2, 3}
    BY <1>1, <1>4, <1>9, <1>10
  <2> QED BY <1>2, <1>9, <2>1 DEF isWorkspaceMove, isWindowMove
<1>11. ASSUME decided(all) = "lost_move" PROVE isLostMove(u)
  <2>1. k = 5
    BY <1>1, <1>4, <1>9, <1>11
  <2> QED BY <1>2, <1>9, <2>1
<1> QED BY <1>10, <1>11 DEF all

\* The deictic word is found, and which of the two it is.
LEMMA DeicticNoted ==
  ASSUME NEW T, NEW t, t.words \in Seq(T)
  PROVE  /\ Noted(findDeictic(t), T)
         /\ says(t.words, MonitorWords) /\ ~says(t.words, PlaceWords) =>
              findDeictic(t).deictic /\ ~findDeictic(t).isPlace
<1> DEFINE u == t.words
           at == {i \in DOMAIN u : u[i] \in PlaceWords \cup MonitorWords}
           spot == says(u, PlaceWords)
<1>1. DOMAIN u = 1 .. Len(u) /\ Len(u) \in Nat
  OBVIOUS
<1>2. at \in SUBSET (1 .. Len(u))
  BY <1>1
<1>3. Noted(Raw, T)
  BY NothingOf DEF Noted, Raw
<1>4. findDeictic(t)
        = IF at = {} THEN Raw
          ELSE IF t.timed
          THEN [Raw EXCEPT !.deictic = TRUE, !.isPlace = u[last(at)] \in PlaceWords,
                           !.wordAt = last(at)]
          ELSE [Raw EXCEPT !.deictic = TRUE, !.isPlace = spot,
                           !.wordAt = IF spot THEN Len(u) ELSE 1]
  BY DEF findDeictic
<1>5. at # {} => last(at) \in at
  BY <1>1, <1>2, EndsOf
<1>6. ToSet(u) = {u[i] : i \in DOMAIN u}
  BY DEF ToSet
<1>7. says(u, MonitorWords) => at # {}
  BY <1>6 DEF says
<1>8. ~spot => \A i \in DOMAIN u : u[i] \notin PlaceWords
  BY <1>6 DEF says
<1>9. \A i \in at : i \in DOMAIN u
  BY <1>1
<1> HIDE DEF u, at, spot
<1>10. CASE at = {}
  BY <1>3, <1>4, <1>7, <1>10 DEF u
<1>11. CASE at # {} /\ t.timed
  <2>1. last(at) \in Int /\ last(at) \in DOMAIN u
    BY <1>1, <1>5, <1>9, <1>11
  <2> DEFINE w == last(at)
             b == u[w] \in PlaceWords
             r == [Raw EXCEPT !.deictic = TRUE, !.isPlace = b, !.wordAt = w]
  <2>2. findDeictic(t) = r
    BY <1>4, <1>11
  <2>3. w \in Int /\ (~spot => ~b)
    BY <1>8, <2>1
  <2> HIDE DEF w, b
  <2>4. Noted(r, T) /\ r.deictic /\ (r.isPlace <=> b)
    BY <2>3, NothingOf DEF Noted, Raw
  <2> QED BY <2>2, <2>3, <2>4 DEF spot, u
<1>12. CASE at # {} /\ ~t.timed
  <2> DEFINE w == IF spot THEN Len(u) ELSE 1
             r == [Raw EXCEPT !.deictic = TRUE, !.isPlace = spot, !.wordAt = w]
  <2>2. findDeictic(t) = r
    BY <1>4, <1>12
  <2>3. w \in Int
    BY <1>1
  <2> HIDE DEF w
  <2>4. Noted(r, T) /\ r.deictic /\ (r.isPlace <=> spot)
    BY <2>3, NothingOf DEF Noted, Raw
  <2> QED BY <2>2, <2>4 DEF spot, u
<1> QED BY <1>10, <1>11, <1>12

\* What each kind leaves of the pointing.
KeepsPointing(o, r) ==
  \/ SamePointing(o, r)
  \/ /\ o.verb = "move_dist"
     /\ o.isPlace = r.isPlace
     /\ o.deictic <=> r.deictic /\ ~r.isPlace

\* Every reading notes the words of a monitor, and keeps where it points.
LEMMA ReadingNotes ==
  ASSUME NEW T, NEW r, Noted(r, T), NEW u \in Seq(T), NEW kind \in Kinds,
         kind \in {"move_workspace", "move_window"} => splitMovePhrase(u).ok,
         kind = "lost_move" => isLostMove(u)
  PROVE  Noted(reading(kind, u, r), T) /\ KeepsPointing(reading(kind, u, r), r)
<1>1. CASE kind = "move_workspace"
  BY <1>1, MovesNote, DestinationOf DEF reading, KeepsPointing
<1>2. CASE kind = "move_window"
  BY <1>2, MovesNote, DestinationOf DEF reading, KeepsPointing
<1>3. CASE kind = "lost_move"
  BY <1>3, LostMoveNotes DEF reading, KeepsPointing
<1>4. CASE kind \in {"closer", "further"}
  <2>1. ASSUME NEW sign PROVE Noted(motion(r, sign), T) /\ KeepsPointing(motion(r, sign), r)
    <3> DEFINE b == r.deictic /\ ~r.isPlace
               n == sign * Step
               w == IF r.isPlace THEN 0 ELSE r.wordAt
               m == [r EXCEPT !.verb = "move_dist", !.delta = n, !.deictic = b, !.wordAt = w]
    <3>1. motion(r, sign) = m
      BY DEF motion
    <3>2. w \in Int
      BY DEF Noted
    <3>3. b <=> r.deictic /\ ~r.isPlace
      OBVIOUS
    <3> HIDE DEF b, n, w
    <3>4. Noted(m, T)
      BY <3>2 DEF Noted
    <3>5. m.verb = "move_dist" /\ m.isPlace = r.isPlace /\ m.deictic = b
      BY DEF Noted
    <3> QED BY <3>1, <3>3, <3>4, <3>5 DEF KeepsPointing
  <2> QED BY <1>4, <2>1 DEF reading
<1>5. CASE kind \in {"follow", "anchor"}
  BY <1>5 DEF reading, withAnchor, Noted, KeepsPointing, SamePointing
<1>6. CASE kind \in {"monitor_view", "workspace", "maximize", "hand_input", "dock"}
  BY <1>6 DEF reading, Noted, KeepsPointing, SamePointing
<1>7. CASE kind \in {"create_monitor", "fullscreen", "focus", "launch_app", "undock", "pick",
                     "place", "center", "none"}
  BY <1>7 DEF reading, Noted, KeepsPointing, SamePointing
<1> QED BY <1>1, <1>2, <1>3, <1>4, <1>5, <1>6, <1>7 DEF Kinds

\* The verbs whose subject is a monitor.
Subjects == {"pick", "move_dist", "center", "dock", "undock", "follow", "anchor"}

\* What detect reads, of the words of T.
LEMMA DetectNotes ==
  ASSUME NEW T, NEW t, t.words \in Seq(T)
  PROVE  /\ Noted(detect(t), T)
         /\ detect(t).verb = "move_dist" => ~(detect(t).deictic /\ detect(t).isPlace)
         /\ detect(t).verb \in Subjects => detect(t).target = content(t.words)
         /\ says(t.words, MonitorWords) /\ ~says(t.words, PlaceWords) =>
              detect(t).deictic /\ ~detect(t).isPlace
<1> DEFINE u    == t.words
           r    == findDeictic(t)
           kind == decided(chain(u, r))
           read == reading(kind, u, r)
<1>1. CASE u = <<>>
  <2>1. detect(t) = Raw
    BY <1>1 DEF detect
  <2>2. Noted(Raw, T) /\ Raw.verb = "none"
    BY NothingOf DEF Noted, Raw
  <2>3. ~says(u, MonitorWords)
    <3>1. DOMAIN u = {}
      BY <1>1
    <3> QED BY <3>1 DEF says, ToSet
  <2> QED BY <2>1, <2>2, <2>3 DEF Subjects
<1>2. CASE u # <<>>
  <2>1. /\ Noted(r, T)
        /\ says(u, MonitorWords) /\ ~says(u, PlaceWords) => r.deictic /\ ~r.isPlace
    BY DeicticNoted
  <2>2. detect(t) = withNames(read, u)
    BY <1>2 DEF detect
  <2>3. kind \in Kinds
    BY ChainEnds
  <2>4. /\ kind \in {"move_workspace", "move_window"} => splitMovePhrase(u).ok
        /\ kind = "lost_move" => isLostMove(u)
    BY MoveWasSaid
  <2> HIDE DEF r, kind
  <2>5. Noted(read, T) /\ KeepsPointing(read, r)
    BY <2>1, <2>3, <2>4, ReadingNotes
  <2> HIDE DEF read
  <2>6. /\ Noted(withNames(read, u), T)
        /\ withNames(read, u).verb = read.verb
        /\ withNames(read, u).deictic = read.deictic
        /\ withNames(read, u).isPlace = read.isPlace
        /\ read.verb \in Subjects => withNames(read, u).target = content(u)
    <3>1. \A x : LET o == [read EXCEPT !.app = x]
                 IN  Noted(o, T) /\ o.verb = read.verb /\ o.deictic = read.deictic
                     /\ o.isPlace = read.isPlace
      BY <2>5 DEF Noted
    <3>2. \A x : LET o == [read EXCEPT !.target = x]
                 IN  Noted(o, T) /\ o.verb = read.verb /\ o.deictic = read.deictic
                     /\ o.isPlace = read.isPlace /\ o.target = x
      BY <2>5 DEF Noted
    <3> QED BY <2>5, <3>1, <3>2 DEF withNames, Subjects
  <2> DEFINE o == withNames(read, u)
  <2> HIDE DEF o
  <2>7. KeepsPointing(o, r)
    BY <2>5, <2>6 DEF KeepsPointing, SamePointing, o
  <2>8. o.verb = "move_dist" => ~(o.deictic /\ o.isPlace)
    BY <2>7 DEF KeepsPointing, SamePointing
  <2>9. r.deictic /\ ~r.isPlace => o.deictic /\ ~o.isPlace
    BY <2>7 DEF KeepsPointing, SamePointing
  <2> QED BY <2>1, <2>2, <2>6, <2>8, <2>9 DEF o
<1> QED BY <1>1, <1>2
-----------------------------------------------------------------------------
(* The resolution.                                                         *)

\* A question is an action,
LEMMA AskActs ==
  ASSUME NEW a, Acts(a), NEW candidates
  PROVE  Acts(Ask(a)) /\ Acts(AskWhich(a, candidates))
<1>1. Acts(Ask(a))
  BY DEF Acts, Ask, Verbs
<1> QED BY <1>1 DEF Acts, AskWhich

\* an aim is one,
LEMMA AimActs ==
  ASSUME NEW a, Acts(a), NEW target, NEW source \in Sources
  PROVE  Acts(Aim(a, target, source))
BY DEF Acts, Aim

\* at the gaze as well,
LEMMA AimAtGazeActs ==
  ASSUME NEW a, Acts(a), NEW gz
  PROVE  Acts(AimAtGaze(a, gz))
<1> DEFINE b == Aim(a, gz.name, "deixis")
<1>1. Acts(b)
  BY AimActs DEF Sources
<1> HIDE DEF b
<1>2. Acts([b EXCEPT !.gaze = gz])
  BY <1>1 DEF Acts
<1> QED BY <1>2 DEF AimAtGaze, b

\* The fields that no operator above looks at.
LEMMA FieldsAct ==
  ASSUME NEW a, Acts(a), NEW x
  PROVE  /\ Acts([a EXCEPT !.app = x])
         /\ Acts([a EXCEPT !.window = x])
         /\ Acts([a EXCEPT !.gaze = x])
         /\ Acts([a EXCEPT !.asked = x])
BY DEF Acts

\* and every way to resolve a verb ends in one.
LEMMA DestinationActs ==
  ASSUME NEW a, Acts(a), NEW r, NEW gz, NEW ctx
  PROVE  Acts(resolveMoveDestination(a, r, gz, ctx))
<1>1. {"semantic", "named"} \subseteq Sources
  BY DEF Sources
<1> QED BY <1>1, AskActs, AimActs, AimAtGazeActs DEF resolveMoveDestination

\* moveWindow answers with a known action.
LEMMA MoveWindowActs ==
  ASSUME NEW a, Acts(a), NEW r, NEW gz, NEW ctx
  PROVE  Acts(moveWindow(a, r, gz, ctx))
<1> DEFINE win == resolveWindow(ctx, r.window)
           it  == [a EXCEPT !.window = win.name]
<1>1. Acts(it)
  BY FieldsAct
<1> HIDE DEF it, win
<1>2. Acts(resolveMoveDestination(it, r, gz, ctx))
  BY <1>1, DestinationActs
<1> QED BY <1>1, <1>2, AskActs DEF moveWindow, it, win

\* So does focusOrFullscreen.
LEMMA FocusActs ==
  ASSUME NEW a, Acts(a), NEW r, NEW gz, NEW ctx
  PROVE  Acts(focusOrFullscreen(a, r, gz, ctx))
<1>1. \A w : Acts([a EXCEPT !.window = w, !.source = "semantic"])
  BY DEF Acts, Sources
<1>2. "active" \in Sources
  BY DEF Sources
<1> QED BY <1>1, <1>2, AskActs, AimActs, AimAtGazeActs DEF focusOrFullscreen

\* So does createMonitor.
LEMMA CreateActs ==
  ASSUME NEW a, Acts(a), NEW gz, NEW ctx
  PROVE  Acts(createMonitor(a, gz, ctx))
<1> DEFINE name == nextXrMonitorName(ctx)
           it   == Aim(a, name, "named")
<1>1. Acts(it)
  BY AimActs DEF Sources
<1> HIDE DEF it, name
<1>2. Acts([it EXCEPT !.gaze = gz])
  BY <1>1, FieldsAct
<1> QED BY <1>2, AskActs DEF createMonitor, it, name

\* So does place.
LEMMA PlaceActs ==
  ASSUME NEW a, Acts(a), NEW r, NEW gz, NEW ctx
  PROVE  Acts(place(a, r, gz, ctx))
<1> DEFINE sem == named(r, ctx)
           it  == IF sem.matched /\ sem.candidates = {} THEN Aim(a, sem.name, "semantic")
                  ELSE Aim(a, Active, IF gz.valid THEN "deixis" ELSE "active")
<1>1. {"semantic", "deixis", "active"} \subseteq Sources
  BY DEF Sources
<1>2. Acts(it)
  BY <1>1, AimActs
<1> HIDE DEF it, sem
<1> QED BY <1>2, FieldsAct DEF place, it, sem

\* So does fallBack.
LEMMA FallBackActs ==
  ASSUME NEW a, Acts(a), NEW r, NEW ring, NEW ctx
  PROVE  Acts(fallBack(a, r, ring, ctx))
<1>1. "active" \in Sources
  BY DEF Sources
<1> QED BY <1>1, AimActs, AimAtGazeActs DEF fallBack

\* So does monitorVerb.
LEMMA MonitorVerbActs ==
  ASSUME NEW a, Acts(a), NEW r, NEW gz, NEW ring, NEW ctx
  PROVE  Acts(monitorVerb(a, r, gz, ring, ctx))
<1> DEFINE sem == named(r, ctx)
           aimed == Aim(a, sem.name, "semantic")
           seen  == [a EXCEPT !.gaze = gz]
<1>1. Acts(Aim(a, Active, "active")) /\ Acts(aimed)
  BY AimActs DEF Sources
<1>2. Acts(seen)
  BY FieldsAct
<1> HIDE DEF aimed, seen
<1>3. Acts([aimed EXCEPT !.asked = sem.candidates])
  BY <1>1, FieldsAct
<1>4. Acts(Ask(seen)) /\ Acts(fallBack(seen, r, ring, ctx))
  BY <1>2, AskActs, FallBackActs
<1> HIDE DEF sem
<1> QED BY <1>1, <1>3, <1>4, AimAtGazeActs DEF monitorVerb, aimed, seen, sem

\* finalizeAction (Intent.cpp:804): every reading of every utterance, resolved
\* against any desktop, is an action of a known kind and a known source.
THEOREM ActionsAct == \A t, ring, ctx : Acts(resolve(t, ring, ctx))
<1> SUFFICES ASSUME NEW t, NEW ring, NEW ctx PROVE Acts(resolve(t, ring, ctx))
  OBVIOUS
<1> DEFINE r  == detect(t)
           gz == pointed(r, ring, ctx)
           u  == Unresolved(r)
           a  == [u EXCEPT !.delta = IF r.verb = "move_dist"
                                     THEN sanitizeDeltaM(r.delta, t.words) ELSE @]
<1>1. Reads(r)
  BY DetectReads
<1> HIDE DEF r
<1>2. Acts(u)
  BY <1>1 DEF Unresolved, Acts, Reads, Sources
<1> HIDE DEF u
<1>3. Acts(a)
  BY <1>2 DEF Acts
<1> HIDE DEF a, gz
<1>4. /\ Acts(switchWorkspace(a))
      /\ Acts(moveWorkspace(a, r, gz, ctx))
  BY <1>3, AskActs, DestinationActs DEF switchWorkspace, moveWorkspace
<1>5. Acts(launchApp(a, r))
  BY <1>3, AskActs, FieldsAct DEF launchApp
<1>6. /\ Acts(createMonitor(a, gz, ctx))
      /\ Acts(moveWindow(a, r, gz, ctx))
      /\ Acts(focusOrFullscreen(a, r, gz, ctx))
      /\ Acts(place(a, r, gz, ctx))
      /\ Acts(monitorVerb(a, r, gz, ring, ctx))
  BY <1>3, CreateActs, MoveWindowActs, FocusActs, PlaceActs, MonitorVerbActs
<1> QED BY <1>3, <1>4, <1>5, <1>6 DEF resolve, finalizeAction, a, u, gz, r
-----------------------------------------------------------------------------
(* What was resolved is there, and was meant.                              *)

\* What an action is about is there: a monitor of the snapshot, or the
\* selection where the verb may leave the choice to it; a window of it.
Reachable(a, ctx) ==
  /\ a.verb \in Subjects \cup {"place", "hand_input", "monitor_view"} =>
       a.target \in {None, Active} \/ hasMonitor(ctx, a.target)
  /\ a.verb = "move_workspace" => Live(a.target, ctx)
  /\ a.verb = "move_window" => \/ isIndex(a.workspace)
                               \/ Live(a.target, ctx)
  /\ a.verb \in {"move_window", "focus", "fullscreen"} =>
       a.window = None \/ hasWindow(ctx, a.window)

\* Or it is what the gaze named when it had selected nothing, which nothing checks.
Unselected(a, ring) ==
  a.verb \in Subjects /\ a.source = "deixis" /\ vote(gazeAt(ring, a.gaze.at)) < 0

\* A monitor that something was moved to by its name was the only one to fit.
SingledOut(a, r, ctx) ==
  a.verb \in {"move_window", "move_workspace"} /\ a.source = "named" =>
    LET mon == resolveMonitor(ctx, r.monitor)
    IN  mon.matched /\ mon.candidates = {} /\ mon.name = a.target

\* A monitor of that name fits the phrase.
Fits(name, phrase, ctx) ==
  \E i \in DOMAIN ctx.monitors :
    /\ ctx.monitors[i].name = name
    /\ monitorScore(meaning(phrase), ctx.monitors[i], ctx) > 0

\* The gaze was on it at one of the instants asked for.
LookedAt(name, word, ring) ==
  \E i \in DOMAIN answers(word, ring) : answers(word, ring)[i].look.name = name

\* A monitor that was pointed at was looked at, or was named after all.
WasMeant(a, r, ring, ctx) ==
  a.verb \in Subjects /\ a.verb = r.verb /\ deixisIsSubject(r) =>
    \/ namesActiveTarget(r.target)
    \/ a.source = "semantic" /\ Fits(a.target, r.target, ctx)
    \/ a.source = "deixis" /\ LookedAt(a.target, r.wordAt, ring)

\* The gaze of an action is that of the deictic word, or of the beginning of a
\* bare motion.
SeenAtTheWord(a, r, ring, ctx) ==
  \/ a.gaze = NoGaze
  \/ a.gaze = resolveDeixis(IF r.deictic THEN r.wordAt ELSE 1, ring, ctx)

Outcome(a, r, ring, ctx) ==
  /\ a.verb \in {r.verb, "clarify"}
  /\ Reachable(a, ctx) \/ Unselected(a, ring)
  /\ SingledOut(a, r, ctx)
  /\ WasMeant(a, r, ring, ctx)
  /\ SeenAtTheWord(a, r, ring, ctx)

\* Before anything is resolved.
Fresh(a, r) ==
  /\ {"verb", "target", "source", "window", "workspace", "gaze"} \subseteq DOMAIN a
  /\ a.verb = r.verb /\ a.target = None /\ a.source = "none" /\ a.window = None
  /\ a.gaze = NoGaze

\* The gaze at the deictic word, if it was looked up.
Pointing(gz, r, ring, ctx) ==
  /\ \/ gz = NoGaze
     \/ r.deictic /\ gz = resolveDeixis(r.wordAt, ring, ctx)
  /\ gz.valid /\ gz.name # None =>
       /\ LookedAt(gz.name, r.wordAt, ring)
       /\ hasMonitor(ctx, gz.name) \/ vote(gazeAt(ring, gz.at)) < 0

\* A name that the snapshot has is live.
LEMMA HasIsLive ==
  ASSUME NEW ctx, Snapshot(ctx), NEW name, hasMonitor(ctx, name) PROVE Live(name, ctx)
BY LiveName DEF hasMonitor

\* The gaze points at what was looked at, live if it was selected, if at any,
LEMMA DeixisPoints ==
  ASSUME NEW ctx, NEW ring \in Seq(Look) \ {<<>>}, NEW word \in Int,
         resolveDeixis(word, ring, ctx).valid, resolveDeixis(word, ring, ctx).name # None
  PROVE  /\ LookedAt(resolveDeixis(word, ring, ctx).name, word, ring)
         /\ \/ hasMonitor(ctx, resolveDeixis(word, ring, ctx).name)
            \/ vote(gazeAt(ring, resolveDeixis(word, ring, ctx).at)) < 0
<1> DEFINE gz == resolveDeixis(word, ring, ctx)
           got == answers(word, ring)
<1>1. Decided(gz, ctx, ring, got)
  BY GazeIsDecided
<1>2. gz.name # None
  OBVIOUS
<1> HIDE DEF gz, got
<1>3. /\ \E i \in DOMAIN got : got[i].look.name = gz.name
      /\ hasMonitor(ctx, gz.name) \/ vote(gazeAt(ring, gz.at)) < 0
  BY <1>1, <1>2 DEF Decided
<1> QED BY <1>3 DEF gz, got, LookedAt

\* and only if "this" or "here" was said.
LEMMA PointedPoints ==
  ASSUME NEW ctx, Snapshot(ctx), NEW ring \in Seq(Look) \ {<<>>}, NEW r, r.wordAt \in Int
  PROVE  Pointing(pointed(r, ring, ctx), r, ring, ctx)
<1> DEFINE gz == pointed(r, ring, ctx)
<1>1. gz = NoGaze \/ (r.deictic /\ gz = resolveDeixis(r.wordAt, ring, ctx))
  BY DEF pointed
<1>2. gz = NoGaze => ~gz.valid
  BY DEF NoGaze
<1> HIDE DEF gz
<1>3. Pointing(gz, r, ring, ctx)
  BY <1>1, <1>2, DeixisPoints DEF Pointing
<1> QED BY <1>3 DEF gz

\* A question is a good outcome: it is about nothing.
LEMMA AskedOut ==
  ASSUME NEW a, NEW r, NEW ring, NEW ctx, NEW candidates,
         "verb" \in DOMAIN a, SeenAtTheWord(a, r, ring, ctx)
  PROVE  /\ Outcome(Ask(a), r, ring, ctx)
         /\ Outcome(AskWhich(a, candidates), r, ring, ctx)
<1>1. ASSUME NEW o, o.verb = "clarify", o.gaze = a.gaze PROVE Outcome(o, r, ring, ctx)
  BY <1>1 DEF Outcome, Reachable, SingledOut, WasMeant, SeenAtTheWord, Subjects
<1>2. Ask(a).verb = "clarify" /\ Ask(a).gaze = a.gaze
  BY DEF Ask
<1>3. AskWhich(a, candidates).verb = "clarify" /\ AskWhich(a, candidates).gaze = a.gaze
  BY DEF AskWhich, Ask
<1> QED BY <1>1, <1>2, <1>3

\* A destination is live, and singled out if it was named.
LEMMA DestinationOut ==
  ASSUME NEW ctx, Snapshot(ctx), NEW ring, NEW r, r.verb \in {"move_window", "move_workspace"},
         NEW gz, Pointing(gz, r, ring, ctx),
         NEW a, {"verb", "target", "source", "window", "workspace", "gaze"} \subseteq DOMAIN a,
         a.verb = r.verb, a.gaze = NoGaze, a.window = None \/ hasWindow(ctx, a.window)
  PROVE  Outcome(resolveMoveDestination(a, r, gz, ctx), r, ring, ctx)
<1> DEFINE mon == IF r.spatial # "none" THEN resolveSpatialMonitor(ctx, r.spatial)
                  ELSE resolveMonitor(ctx, r.monitor)
           how == IF r.spatial # "none" THEN "semantic" ELSE "named"
           o   == resolveMoveDestination(a, r, gz, ctx)
<1>1. SeenAtTheWord(a, r, ring, ctx)
  BY DEF SeenAtTheWord
<1>2. ASSUME NEW c PROVE Outcome(Ask(a), r, ring, ctx) /\ Outcome(AskWhich(a, c), r, ring, ctx)
  BY <1>1, AskedOut
<1>3. ASSUME mon.matched, mon.candidates = {} PROVE Outcome(Aim(a, mon.name, how), r, ring, ctx)
  <2> DEFINE b == Aim(a, mon.name, how)
  <2>1. Live(mon.name, ctx)
    BY <1>3, NamedIsLive, SideIsLive
  <2>2. how = "named" => LET m == resolveMonitor(ctx, r.monitor)
                         IN  m.matched /\ m.candidates = {} /\ m.name = mon.name
    BY <1>3
  <2> HIDE DEF mon, how
  <2>3. b.verb = a.verb /\ b.target = mon.name /\ b.source = how /\ b.window = a.window
        /\ b.gaze = a.gaze
    BY DEF Aim
  <2> HIDE DEF b
  <2>4. Reachable(b, ctx)
    BY <2>1, <2>3 DEF Reachable, Subjects
  <2>5. SingledOut(b, r, ctx)
    BY <2>2, <2>3 DEF SingledOut
  <2>6. WasMeant(b, r, ring, ctx) /\ SeenAtTheWord(b, r, ring, ctx)
    BY <2>3 DEF WasMeant, SeenAtTheWord, Subjects
  <2>7. Outcome(b, r, ring, ctx)
    BY <2>3, <2>4, <2>5, <2>6 DEF Outcome
  <2> QED BY <2>7 DEF b
<1>4. ASSUME onLiveMonitor(gz, ctx) PROVE Outcome(AimAtGaze(a, gz), r, ring, ctx)
  <2> DEFINE b == AimAtGaze(a, gz)
  <2>1. gz.valid /\ Live(gz.name, ctx)
    BY <1>4, HasIsLive DEF onLiveMonitor
  <2>2. b.verb = a.verb /\ b.target = gz.name /\ b.source = "deixis" /\ b.window = a.window
        /\ b.gaze = gz
    BY DEF AimAtGaze, Aim
  <2> HIDE DEF b
  <2>3. Reachable(b, ctx)
    BY <2>1, <2>2 DEF Reachable, Subjects
  <2>4. SingledOut(b, r, ctx)
    BY <2>2 DEF SingledOut
  <2>5. WasMeant(b, r, ring, ctx)
    BY <2>2 DEF WasMeant, Subjects
  <2>6. SeenAtTheWord(b, r, ring, ctx)
    BY <2>2 DEF SeenAtTheWord, Pointing
  <2>7. Outcome(b, r, ring, ctx)
    BY <2>2, <2>3, <2>4, <2>5, <2>6 DEF Outcome
  <2> QED BY <2>7 DEF b
<1>5. o = IF mon.candidates # {} THEN AskWhich(a, mon.candidates)
          ELSE IF mon.matched THEN Aim(a, mon.name, how)
          ELSE IF r.spatial = "none" /\ onLiveMonitor(gz, ctx) THEN AimAtGaze(a, gz) ELSE Ask(a)
  BY DEF resolveMoveDestination
<1> HIDE DEF o, mon, how
<1>6. Outcome(o, r, ring, ctx)
  BY <1>2, <1>3, <1>4, <1>5
<1> QED BY <1>6 DEF o

\* What is moved is a window of the snapshot, or the focused one.
LEMMA MoveWindowOut ==
  ASSUME NEW ctx, Snapshot(ctx), NEW ring, NEW r, r.verb = "move_window",
         NEW gz, Pointing(gz, r, ring, ctx), NEW a, Fresh(a, r)
  PROVE  Outcome(moveWindow(a, r, gz, ctx), r, ring, ctx)
<1> DEFINE win == resolveWindow(ctx, r.window)
           it  == [a EXCEPT !.window = win.name]
<1>1. win.name = None \/ hasWindow(ctx, win.name)
  BY WindowIsThere
<1>2. SeenAtTheWord(a, r, ring, ctx)
  BY DEF Fresh, SeenAtTheWord
<1> HIDE DEF win
<1>3. /\ {"verb", "target", "source", "window", "workspace", "gaze"} \subseteq DOMAIN it
      /\ it.verb = r.verb /\ it.gaze = NoGaze /\ it.window = win.name
      /\ it.workspace = a.workspace /\ it.source = "none"
  BY DEF Fresh
<1> HIDE DEF it
<1>4. SeenAtTheWord(it, r, ring, ctx)
  BY <1>3 DEF SeenAtTheWord
<1>5. ASSUME NEW c
      PROVE  /\ Outcome(Ask(a), r, ring, ctx) /\ Outcome(AskWhich(a, c), r, ring, ctx)
             /\ Outcome(Ask(it), r, ring, ctx)
  BY <1>2, <1>3, <1>4, AskedOut DEF Fresh
<1>6. Outcome(resolveMoveDestination(it, r, gz, ctx), r, ring, ctx)
  BY <1>1, <1>3, DestinationOut
<1>7. ASSUME isIndex(a.workspace) PROVE Outcome(it, r, ring, ctx)
  BY <1>1, <1>3, <1>4, <1>7 DEF Outcome, Reachable, SingledOut, WasMeant, Subjects
<1> QED BY <1>5, <1>6, <1>7 DEF moveWindow, it, win

\* What is focused is a window of the snapshot, or on the monitor looked at.
LEMMA FocusOut ==
  ASSUME NEW ctx, Snapshot(ctx), NEW ring, NEW r, r.verb \in {"focus", "fullscreen"},
         NEW gz, Pointing(gz, r, ring, ctx), NEW a, Fresh(a, r)
  PROVE  Outcome(focusOrFullscreen(a, r, gz, ctx), r, ring, ctx)
<1> DEFINE win == resolveWindow(ctx, r.target)
<1>1. win.matched => hasWindow(ctx, win.name)
  BY WindowIsThere
<1>2. SeenAtTheWord(a, r, ring, ctx)
  BY DEF Fresh, SeenAtTheWord
<1> HIDE DEF win
<1>3. ASSUME NEW o, o.verb = r.verb, o.window = None \/ hasWindow(ctx, o.window),
             o.gaze = NoGaze \/ o.gaze = gz
      PROVE  Outcome(o, r, ring, ctx)
  <2>1. SeenAtTheWord(o, r, ring, ctx)
    BY <1>3 DEF SeenAtTheWord, Pointing
  <2> QED BY <1>3, <2>1 DEF Outcome, Reachable, SingledOut, WasMeant, Subjects
<1>4. ASSUME NEW c PROVE Outcome(Ask(a), r, ring, ctx) /\ Outcome(AskWhich(a, c), r, ring, ctx)
  BY <1>2, AskedOut DEF Fresh
<1>5. win.matched => Outcome([a EXCEPT !.window = win.name, !.source = "semantic"], r, ring, ctx)
  BY <1>1, <1>3 DEF Fresh
<1>6. Outcome(AimAtGaze(a, gz), r, ring, ctx)
  BY <1>3 DEF AimAtGaze, Aim, Fresh
<1>7. Outcome(Aim(a, Active, "active"), r, ring, ctx)
  BY <1>3 DEF Aim, Fresh
<1> QED BY <1>4, <1>5, <1>6, <1>7 DEF focusOrFullscreen, win

\* What is placed is named and live, or the selection.
LEMMA PlaceOut ==
  ASSUME NEW ctx, Snapshot(ctx), NEW ring, NEW r, r.verb = "place",
         NEW gz, Pointing(gz, r, ring, ctx), NEW a, Fresh(a, r)
  PROVE  Outcome(place(a, r, gz, ctx), r, ring, ctx)
<1> DEFINE sem == named(r, ctx)
           how == IF gz.valid THEN "deixis" ELSE "active"
           it  == IF sem.matched /\ sem.candidates = {} THEN Aim(a, sem.name, "semantic")
                  ELSE Aim(a, Active, how)
           o   == [it EXCEPT !.gaze = gz]
<1>1. sem.matched => Live(sem.name, ctx)
  BY NamedIsLive DEF named, NoMatch
<1> HIDE DEF sem, how
<1>2. /\ {"verb", "target", "source", "gaze"} \subseteq DOMAIN it
      /\ it.verb = r.verb
      /\ it.target = Active \/ Live(it.target, ctx)
  BY <1>1 DEF Aim, Fresh
<1> HIDE DEF it
<1>3. o.verb = r.verb /\ o.gaze = gz /\ o.target = it.target
  BY <1>2
<1>4. place(a, r, gz, ctx) = o
  BY DEF place, it, how, sem
<1> HIDE DEF o
<1>5. SeenAtTheWord(o, r, ring, ctx)
  BY <1>3 DEF SeenAtTheWord, Pointing
<1>6. Outcome(o, r, ring, ctx)
  BY <1>2, <1>3, <1>5 DEF Outcome, Reachable, SingledOut, WasMeant, Subjects, Live
<1> QED BY <1>4, <1>6

\* What was neither named nor pointed at falls back on what is live.
LEMMA FallBackOut ==
  ASSUME NEW ctx, Snapshot(ctx), NEW ring \in Seq(Look) \ {<<>>}, NEW r,
         r.verb \in Verbs \ {"move_window", "move_workspace", "focus", "fullscreen"},
         r.verb = "move_dist" => ~(r.deictic /\ r.isPlace), ~deixisIsSubject(r),
         NEW a, {"verb", "target", "source", "window", "workspace", "gaze"} \subseteq DOMAIN a,
         a.verb = r.verb, SeenAtTheWord(a, r, ring, ctx)
  PROVE  Outcome(fallBack(a, r, ring, ctx), r, ring, ctx)
<1> DEFINE bare == resolveDeixis(1, ring, ctx)
           hov  == hoveredMonitor(ctx)
<1>1. ASSUME NEW o, o.verb = r.verb, o.target = Active \/ Live(o.target, ctx),
             SeenAtTheWord(o, r, ring, ctx)
      PROVE  Outcome(o, r, ring, ctx)
  BY <1>1 DEF Outcome, Reachable, SingledOut, WasMeant, Subjects, Live
<1>2. Outcome(Aim(a, Active, "active"), r, ring, ctx)
  BY <1>1 DEF Aim, SeenAtTheWord
<1>3. ASSUME hov # None PROVE Outcome(Aim(a, hov, "active"), r, ring, ctx)
  <2>1. Live(hov, ctx)
    BY <1>3, HoveredIsLive
  <2> HIDE DEF hov
  <2> QED BY <1>1, <2>1 DEF Aim, SeenAtTheWord
<1>4. ASSUME a.verb = "move_dist", onLiveMonitor(bare, ctx)
      PROVE  Outcome(AimAtGaze(a, bare), r, ring, ctx)
  <2>1. ~r.deictic
    BY <1>4 DEF deixisIsSubject
  <2>2. Live(bare.name, ctx)
    BY <1>4, HasIsLive DEF onLiveMonitor
  <2> HIDE DEF bare
  <2> DEFINE b == AimAtGaze(a, bare)
  <2>3. b.verb = r.verb /\ b.target = bare.name /\ b.gaze = bare
    BY DEF AimAtGaze, Aim
  <2> HIDE DEF b
  <2>4. SeenAtTheWord(b, r, ring, ctx)
    BY <2>1, <2>3 DEF SeenAtTheWord, bare
  <2>5. Outcome(b, r, ring, ctx)
    BY <1>1, <2>2, <2>3, <2>4
  <2> QED BY <2>5 DEF b
<1> QED BY <1>2, <1>3, <1>4 DEF fallBack

\* A monitor verb is about what was named, else looked at, else asked about.
LEMMA MonitorVerbOut ==
  ASSUME NEW ctx, Snapshot(ctx), NEW ring \in Seq(Look) \ {<<>>}, NEW r,
         r.verb \in Subjects \cup {"clarify"},
         r.verb = "move_dist" => ~(r.deictic /\ r.isPlace),
         NEW gz, Pointing(gz, r, ring, ctx), NEW a, Fresh(a, r)
  PROVE  Outcome(monitorVerb(a, r, gz, ring, ctx), r, ring, ctx)
<1> DEFINE sem   == named(r, ctx)
           aimed == [Aim(a, sem.name, "semantic") EXCEPT !.asked = sem.candidates]
           seen  == [a EXCEPT !.gaze = gz]
<1>1. sem.matched => Live(sem.name, ctx) /\ Fits(sem.name, r.target, ctx)
  BY NamedIsLive, NamedFits DEF named, NoMatch, Fits
<1> HIDE DEF sem
<1>2. ASSUME NEW o, o.verb = r.verb,
             o.target = Active \/ Live(o.target, ctx) \/ o.verb = "clarify"
               \/ Unselected(o, ring),
             SeenAtTheWord(o, r, ring, ctx), WasMeant(o, r, ring, ctx)
      PROVE  Outcome(o, r, ring, ctx)
  BY <1>2 DEF Outcome, Reachable, SingledOut, Subjects, Live
<1>3. ASSUME namesActiveTarget(r.target) PROVE Outcome(Aim(a, Active, "active"), r, ring, ctx)
  <2> DEFINE b == Aim(a, Active, "active")
  <2>1. b.verb = r.verb /\ b.target = Active /\ b.gaze = NoGaze
    BY DEF Aim, Fresh
  <2> HIDE DEF b
  <2>2. Outcome(b, r, ring, ctx)
    BY <1>2, <1>3, <2>1 DEF SeenAtTheWord, WasMeant
  <2> QED BY <2>2 DEF b
<1>4. ASSUME sem.matched PROVE Outcome(aimed, r, ring, ctx)
  <2>1. /\ aimed.verb = r.verb /\ aimed.target = sem.name /\ aimed.source = "semantic"
        /\ aimed.gaze = NoGaze
    BY DEF Aim, Fresh
  <2> HIDE DEF aimed
  <2> QED BY <1>1, <1>2, <1>4, <2>1 DEF SeenAtTheWord, WasMeant
<1>5. ASSUME gz.valid, gz.name # None PROVE Outcome(AimAtGaze(a, gz), r, ring, ctx)
  <2> DEFINE b == AimAtGaze(a, gz)
  <2>1. b.verb = r.verb /\ b.target = gz.name /\ b.source = "deixis" /\ b.gaze = gz
    BY DEF AimAtGaze, Aim, Fresh
  <2>2. /\ LookedAt(gz.name, r.wordAt, ring)
        /\ Live(gz.name, ctx) \/ vote(gazeAt(ring, gz.at)) < 0
    BY <1>5, HasIsLive DEF Pointing
  <2> HIDE DEF b
  <2>3. SeenAtTheWord(b, r, ring, ctx)
    BY <2>1 DEF SeenAtTheWord, Pointing
  <2>4. WasMeant(b, r, ring, ctx)
    BY <2>1, <2>2 DEF WasMeant
  <2>5. \/ b.target = Active \/ Live(b.target, ctx) \/ b.verb = "clarify"
        \/ Unselected(b, ring)
    BY <2>1, <2>2 DEF Unselected
  <2>6. Outcome(b, r, ring, ctx)
    BY <1>2, <2>1, <2>3, <2>4, <2>5
  <2> QED BY <2>6 DEF b
<1>6. /\ {"verb", "target", "source", "window", "workspace", "gaze"} \subseteq DOMAIN seen
      /\ seen.verb = r.verb /\ seen.gaze = gz
  BY DEF Fresh
<1> HIDE DEF seen, aimed
<1>7. SeenAtTheWord(seen, r, ring, ctx)
  BY <1>6 DEF SeenAtTheWord, Pointing
<1>8. Outcome(Ask(seen), r, ring, ctx)
  BY <1>6, <1>7, AskedOut
<1>9. ASSUME ~deixisIsSubject(r) PROVE Outcome(fallBack(seen, r, ring, ctx), r, ring, ctx)
  BY <1>6, <1>7, <1>9, FallBackOut DEF Verbs, Subjects
<1> QED BY <1>3, <1>4, <1>5, <1>8, <1>9 DEF monitorVerb, sem, aimed, seen

\* finalizeAction (Intent.cpp:804), whatever is read: the action keeps its verb
\* or becomes a question; its monitor and its window are in the snapshot, or the
\* monitor is one that the gaze named with nothing selected (GazeResolver.cpp:253,
\* Intent.cpp:1120); a named destination was the only one to fit; a monitor
\* pointed at was looked at, or fits what was said; and the gaze it carries is
\* that of the deictic word.
THEOREM ActionsAreGrounded ==
  ASSUME NEW ctx, Snapshot(ctx), NEW ring \in Seq(Look) \ {<<>>}, NEW T, NEW t, t.words \in Seq(T)
  PROVE  Outcome(resolve(t, ring, ctx), detect(t), ring, ctx)
<1> DEFINE r  == detect(t)
           gz == pointed(r, ring, ctx)
           u  == Unresolved(r)
           a  == [u EXCEPT !.delta = IF r.verb = "move_dist"
                                     THEN sanitizeDeltaM(r.delta, t.words) ELSE @]
<1>1. Reads(r) /\ Noted(r, T) /\ (r.verb = "move_dist" => ~(r.deictic /\ r.isPlace))
  BY DetectReads, DetectNotes
<1> HIDE DEF r
<1>2. Fresh(u, r)
  BY DEF Unresolved, Fresh
<1> HIDE DEF u
<1>3. Fresh(a, r)
  BY <1>2 DEF Fresh
<1>4. Pointing(gz, r, ring, ctx)
  BY <1>1, PointedPoints DEF Noted
<1> HIDE DEF a, gz
<1>5. SeenAtTheWord(a, r, ring, ctx) /\ "verb" \in DOMAIN a
  BY <1>3 DEF Fresh, SeenAtTheWord
<1>6. Outcome(Ask(a), r, ring, ctx)
  BY <1>5, AskedOut
<1>7. ASSUME r.verb \in {"none", "hand_input", "monitor_view", "workspace", "launch_app"}
      PROVE  \A o : /\ o.verb = r.verb /\ o.target = None /\ o.gaze = NoGaze
                   => Outcome(o, r, ring, ctx)
  BY <1>7 DEF Outcome, Reachable, SingledOut, WasMeant, SeenAtTheWord, Subjects
<1>8. CASE r.verb \in {"none", "hand_input", "monitor_view", "workspace", "launch_app"}
  <2>1. Outcome(a, r, ring, ctx) /\ Outcome([a EXCEPT !.app = r.app], r, ring, ctx)
    BY <1>3, <1>7, <1>8 DEF Fresh
  <2> QED BY <1>6, <1>8, <2>1 DEF resolve, finalizeAction, switchWorkspace, launchApp, a, u, gz, r
<1>9. CASE r.verb = "move_workspace"
  <2>1. Outcome(resolveMoveDestination(a, r, gz, ctx), r, ring, ctx)
    BY <1>3, <1>4, <1>9, DestinationOut DEF Fresh
  <2> QED BY <1>6, <1>9, <2>1 DEF resolve, finalizeAction, moveWorkspace, a, u, gz, r
<1>10. CASE r.verb = "create_monitor"
  <2> DEFINE name == nextXrMonitorName(ctx)
             o == [Aim(a, name, "named") EXCEPT !.gaze = gz]
  <2> HIDE DEF name
  <2>1. o.verb = "create_monitor" /\ o.gaze = gz
    BY <1>3, <1>10 DEF Aim, Fresh
  <2>2. createMonitor(a, gz, ctx) = IF name = None THEN Ask(a) ELSE o
    BY DEF createMonitor, name
  <2> HIDE DEF o
  <2>3. SeenAtTheWord(o, r, ring, ctx)
    BY <1>4, <2>1 DEF SeenAtTheWord, Pointing
  <2>4. Outcome(o, r, ring, ctx)
    BY <1>10, <2>1, <2>3 DEF Outcome, Reachable, SingledOut, WasMeant, Subjects
  <2>5. Outcome(createMonitor(a, gz, ctx), r, ring, ctx)
    BY <1>6, <2>2, <2>4
  <2> QED BY <1>10, <2>5 DEF resolve, finalizeAction, a, u, gz, r
<1>11. CASE r.verb = "move_window"
  <2>1. Outcome(moveWindow(a, r, gz, ctx), r, ring, ctx)
    BY <1>3, <1>4, <1>11, MoveWindowOut
  <2> QED BY <1>11, <2>1 DEF resolve, finalizeAction, a, u, gz, r
<1>12. CASE r.verb \in {"focus", "fullscreen"}
  <2>1. Outcome(focusOrFullscreen(a, r, gz, ctx), r, ring, ctx)
    BY <1>3, <1>4, <1>12, FocusOut
  <2> QED BY <1>12, <2>1 DEF resolve, finalizeAction, a, u, gz, r
<1>13. CASE r.verb = "place"
  <2>1. Outcome(place(a, r, gz, ctx), r, ring, ctx)
    BY <1>3, <1>4, <1>13, PlaceOut
  <2> QED BY <1>13, <2>1 DEF resolve, finalizeAction, a, u, gz, r
<1>14. CASE r.verb \notin {"none", "hand_input", "monitor_view", "workspace", "launch_app",
                           "move_workspace", "create_monitor", "move_window", "focus",
                           "fullscreen", "place"}
  <2>0. r.verb \in Subjects \cup {"clarify"}
    BY <1>1, <1>14 DEF Reads, Verbs, Subjects
  <2>1. Outcome(monitorVerb(a, r, gz, ring, ctx), r, ring, ctx)
    BY <1>1, <1>3, <1>4, <2>0, MonitorVerbOut
  <2>2. resolve(t, ring, ctx) = monitorVerb(a, r, gz, ring, ctx)
    BY <1>14 DEF resolve, finalizeAction, a, u, gz, r
  <2> QED BY <2>1, <2>2 DEF r
<1> QED BY <1>8, <1>9, <1>10, <1>11, <1>12, <1>13, <1>14
-----------------------------------------------------------------------------
(* What an action is about.                                                *)

\* Only what is done to a window has a window; what is done to the window of a
\* look has a monitor instead, that of the look.
OneSubject(a, ctx) ==
  /\ a.window # None => a.verb \in {"move_window", "focus", "fullscreen", "clarify"}
  /\ a.verb = "fullscreen" /\ a.source = "deixis" =>
       a.window = None /\ a.target # None /\ hasMonitor(ctx, a.target)

\* What an action has before its window is looked for.
Windowless(a) == {"verb", "window"} \subseteq DOMAIN a /\ a.window = None

\* A question is about nothing yet.
LEMMA QuestionHasOneSubject ==
  ASSUME NEW a, "verb" \in DOMAIN a, NEW ctx, NEW c
  PROVE  OneSubject(Ask(a), ctx) /\ OneSubject(AskWhich(a, c), ctx)
BY DEF OneSubject, Ask, AskWhich

\* Without a window there is only the monitor to be about.
LEMMA WindowlessHasOneSubject ==
  ASSUME NEW a, NEW ctx, Windowless(a), a.verb # "fullscreen" PROVE OneSubject(a, ctx)
BY DEF OneSubject, Windowless

\* Aiming at a monitor does not give an action a window.
LEMMA AimedIsWindowless ==
  ASSUME NEW a, Windowless(a), NEW target, NEW source, NEW gz
  PROVE  /\ Windowless(Aim(a, target, source)) /\ Aim(a, target, source).verb = a.verb
         /\ Windowless(AimAtGaze(a, gz)) /\ AimAtGaze(a, gz).verb = a.verb
         /\ Windowless([a EXCEPT !.gaze = gz]) /\ [a EXCEPT !.gaze = gz].verb = a.verb
BY DEF Aim, AimAtGaze, Windowless

\* Where something moves to does not change what moves.
LEMMA DestinationHasOneSubject ==
  ASSUME NEW a, NEW r, NEW gz, NEW ctx, {"verb", "window", "source", "target"} \subseteq DOMAIN a,
         a.verb = "move_window" \/ (a.window = None /\ a.verb # "fullscreen")
  PROVE  OneSubject(resolveMoveDestination(a, r, gz, ctx), ctx)
<1>1. ASSUME NEW c PROVE OneSubject(Ask(a), ctx) /\ OneSubject(AskWhich(a, c), ctx)
  BY QuestionHasOneSubject
<1>2. ASSUME NEW o, o.verb = a.verb, o.window = a.window PROVE OneSubject(o, ctx)
  BY <1>2 DEF OneSubject
<1>3. ASSUME NEW target, NEW source
      PROVE  OneSubject(Aim(a, target, source), ctx) /\ OneSubject(AimAtGaze(a, gz), ctx)
  BY <1>2 DEF Aim, AimAtGaze
<1> QED BY <1>1, <1>3 DEF resolveMoveDestination

\* A window to focus is the one named, or the one of the monitor looked at.
LEMMA FocusHasOneSubject ==
  ASSUME NEW a, NEW r, NEW gz, NEW ctx, {"verb", "window", "source", "target"} \subseteq DOMAIN a,
         a.verb \in {"focus", "fullscreen"}, a.window = None
  PROVE  OneSubject(focusOrFullscreen(a, r, gz, ctx), ctx)
<1> DEFINE win == resolveWindow(ctx, r.target)
<1> HIDE DEF win
<1>1. ASSUME NEW c PROVE OneSubject(Ask(a), ctx) /\ OneSubject(AskWhich(a, c), ctx)
  BY QuestionHasOneSubject
<1>2. OneSubject([a EXCEPT !.window = win.name, !.source = "semantic"], ctx)
  BY DEF OneSubject
<1>3. onLiveMonitor(gz, ctx) => OneSubject(AimAtGaze(a, gz), ctx)
  BY DEF OneSubject, AimAtGaze, Aim, onLiveMonitor
<1>4. OneSubject(Aim(a, Active, "active"), ctx)
  BY DEF OneSubject, Aim
<1> QED BY <1>1, <1>2, <1>3, <1>4 DEF focusOrFullscreen, win

\* What is done to a monitor is done to no window.
LEMMA MonitorHasOneSubject ==
  ASSUME NEW a, NEW r, NEW gz, NEW ring, NEW ctx, Windowless(a),
         {"source", "target", "gaze", "asked"} \subseteq DOMAIN a, a.verb # "fullscreen"
  PROVE  OneSubject(monitorVerb(a, r, gz, ring, ctx), ctx)
<1> DEFINE sem == named(r, ctx)
           b   == [a EXCEPT !.gaze = gz]
           bare == resolveDeixis(1, ring, ctx)
           hov  == hoveredMonitor(ctx)
<1> HIDE DEF sem, bare, hov
<1>1. ASSUME NEW o, Windowless(o), o.verb = a.verb PROVE OneSubject(o, ctx)
  BY <1>1, WindowlessHasOneSubject
<1>2. Windowless(b) /\ b.verb = a.verb
  BY AimedIsWindowless
<1>3. ASSUME NEW x, Windowless(x), x.verb = a.verb, NEW target, NEW source, NEW g
      PROVE  OneSubject(Aim(x, target, source), ctx) /\ OneSubject(AimAtGaze(x, g), ctx)
  <2>1. /\ Windowless(Aim(x, target, source)) /\ Aim(x, target, source).verb = a.verb
        /\ Windowless(AimAtGaze(x, g)) /\ AimAtGaze(x, g).verb = a.verb
    BY <1>3 DEF Aim, AimAtGaze, Windowless
  <2> QED BY ONLY <2>1, <1>1
<1>4. OneSubject([Aim(a, sem.name, "semantic") EXCEPT !.asked = sem.candidates], ctx)
  BY <1>1 DEF Aim, Windowless
<1>5. OneSubject(Ask(b), ctx)
  BY <1>2, QuestionHasOneSubject DEF Windowless
<1> HIDE DEF b
<1>6. OneSubject(fallBack(b, r, ring, ctx), ctx)
  BY <1>2, <1>3 DEF fallBack, bare, hov
<1> QED BY <1>3, <1>4, <1>5, <1>6 DEF monitorVerb, sem, b

\* finalizeAction (Intent.cpp:804): an action is about a window or about a
\* monitor, and what a look decided has no window of its own.
LEMMA ActionsHaveOneSubject ==
  ASSUME NEW t, NEW ring, NEW ctx PROVE OneSubject(resolve(t, ring, ctx), ctx)
<1> DEFINE r  == detect(t)
           gz == pointed(r, ring, ctx)
           u  == Unresolved(r)
           a  == [u EXCEPT !.delta = IF r.verb = "move_dist"
                                     THEN sanitizeDeltaM(r.delta, t.words) ELSE @]
<1> HIDE DEF r, gz
<1>1. /\ Windowless(a) /\ a.verb = r.verb
      /\ {"verb", "window", "source", "target", "gaze", "asked", "app"} \subseteq DOMAIN a
  BY DEF Unresolved, Windowless
<1> HIDE DEF u, a
<1>2. OneSubject(Ask(a), ctx)
  BY <1>1, QuestionHasOneSubject
<1>3. a.verb # "fullscreen" => OneSubject(a, ctx)
  BY <1>1, WindowlessHasOneSubject
<1>4. CASE r.verb \in {"none", "hand_input", "monitor_view", "workspace"}
  BY <1>1, <1>2, <1>3, <1>4 DEF resolve, finalizeAction, switchWorkspace, a, u, gz, r
<1>5. CASE r.verb = "launch_app"
  <2>1. OneSubject([a EXCEPT !.app = r.app], ctx)
    BY <1>1, <1>5 DEF OneSubject, Windowless
  <2> QED BY <1>2, <1>5, <2>1 DEF resolve, finalizeAction, launchApp, a, u, gz, r
<1>6. CASE r.verb = "move_workspace"
  <2>1. OneSubject(resolveMoveDestination(a, r, gz, ctx), ctx)
    BY <1>1, <1>6, DestinationHasOneSubject DEF Windowless
  <2> QED BY <1>2, <1>6, <2>1 DEF resolve, finalizeAction, moveWorkspace, a, u, gz, r
<1>7. CASE r.verb = "create_monitor"
  <2> DEFINE name == nextXrMonitorName(ctx)
             o == [Aim(a, name, "named") EXCEPT !.gaze = gz]
  <2> HIDE DEF name
  <2>1. OneSubject(o, ctx)
    BY <1>1, <1>7 DEF OneSubject, Aim, Windowless
  <2> QED BY <1>2, <1>7, <2>1 DEF resolve, finalizeAction, createMonitor, name, a, u, gz, r
<1>8. CASE r.verb = "move_window"
  <2> DEFINE win == resolveWindow(ctx, r.window)
             it  == [a EXCEPT !.window = win.name]
  <2> HIDE DEF win
  <2>1. /\ it.verb = "move_window"
        /\ {"verb", "window", "source", "target"} \subseteq DOMAIN it
    BY <1>1, <1>8
  <2> HIDE DEF it
  <2>2. OneSubject(it, ctx) /\ OneSubject(Ask(it), ctx)
    BY <2>1, QuestionHasOneSubject DEF OneSubject
  <2>3. OneSubject(resolveMoveDestination(it, r, gz, ctx), ctx)
    BY <2>1, DestinationHasOneSubject
  <2>4. \A c : OneSubject(AskWhich(a, c), ctx)
    BY <1>1, QuestionHasOneSubject
  <2>5. OneSubject(moveWindow(a, r, gz, ctx), ctx)
    BY <1>2, <2>2, <2>3, <2>4 DEF moveWindow, it, win
  <2> QED BY <1>8, <2>5 DEF resolve, finalizeAction, a, u, gz, r
<1>9. CASE r.verb \in {"focus", "fullscreen"}
  <2>1. OneSubject(focusOrFullscreen(a, r, gz, ctx), ctx)
    BY <1>1, <1>9, FocusHasOneSubject DEF Windowless
  <2> QED BY <1>9, <2>1 DEF resolve, finalizeAction, a, u, gz, r
<1>10. CASE r.verb = "place"
  <2> DEFINE sem == named(r, ctx)
             how == IF gz.valid THEN "deixis" ELSE "active"
             it  == IF sem.matched /\ sem.candidates = {} THEN Aim(a, sem.name, "semantic")
                    ELSE Aim(a, Active, how)
             o   == [it EXCEPT !.gaze = gz]
  <2> HIDE DEF sem, how
  <2>1. Windowless(it) /\ it.verb = a.verb
    <3>1. \A target, source : LET x == Aim(a, target, source)
                              IN  Windowless(x) /\ x.verb = a.verb
      BY <1>1 DEF Aim, Windowless
    <3>2. CASE sem.matched /\ sem.candidates = {}
      BY <3>1, <3>2
    <3>3. CASE ~(sem.matched /\ sem.candidates = {})
      BY <3>1, <3>3
    <3> QED BY <3>2, <3>3
  <2>2. place(a, r, gz, ctx) = o
    BY DEF place, sem, how
  <2> HIDE DEF it
  <2>3. Windowless(o) /\ o.verb = a.verb
    BY <2>1, AimedIsWindowless
  <2> HIDE DEF o
  <2>4. OneSubject(o, ctx)
    BY <1>1, <1>10, <2>3, WindowlessHasOneSubject
  <2> QED BY <1>10, <2>2, <2>4 DEF resolve, finalizeAction, a, u, gz, r
<1>11. CASE r.verb \notin {"none", "hand_input", "monitor_view", "workspace", "launch_app",
                           "move_workspace", "create_monitor", "move_window", "focus",
                           "fullscreen", "place"}
  <2>1. OneSubject(monitorVerb(a, r, gz, ring, ctx), ctx)
    BY <1>1, <1>11, MonitorHasOneSubject
  <2> QED BY <1>11, <2>1 DEF resolve, finalizeAction, a, u, gz, r
<1> QED BY <1>4, <1>5, <1>6, <1>7, <1>8, <1>9, <1>10, <1>11
-----------------------------------------------------------------------------
(* What planFor may plan.                                                  *)

\* The part of the safety contract that planFor is to keep; the shape of a
\* command is validateStep's.
Allowed(s, ctx, sw) ==
  /\ s.cmd \in XrCommands => sw.xrmonitor
  /\ s.cmd = "create" => sw.create
  /\ s.cmd = "exec" => sw.launch
  /\ s.cmd \notin XrCommands \cup {"exec"} => sw.window
  /\ s.win # None => hasWindow(ctx, s.win)
  /\ IF s.cmd = "create" \/ s.wait # None THEN ~hasMonitor(ctx, s.mon)
     ELSE s.mon \in {None, Active} \/ hasMonitor(ctx, s.mon)
  /\ s.wait # None => s.cmd = "place"

\* A sequence of such commands.
AllAllowed(steps, ctx, sw) ==
  \E S : steps \in Seq(S) /\ \A s \in S : Allowed(s, ctx, sw)

\* A plan of such commands; a refusal has none.
GoodPlan(p, ctx, sw) ==
  /\ p.ok \in BOOLEAN
  /\ AllAllowed(p.steps, ctx, sw)
  /\ ~p.ok => p.steps = <<>>
-----------------------------------------------------------------------------
\* A sequence over allowed commands is one of allowed commands.
LEMMA AllowedFrom ==
  ASSUME NEW ctx, NEW sw, NEW S, NEW steps \in Seq(S), \A s \in S : Allowed(s, ctx, sw)
  PROVE  AllAllowed(steps, ctx, sw)
BY Zenon DEF AllAllowed

\* The empty sequence is one.
LEMMA NothingAllowed ==
  ASSUME NEW ctx, NEW sw PROVE AllAllowed(<<>>, ctx, sw)
<1> DEFINE none == <<>>
           S == {}
<1>1. none \in Seq(S)
  BY EmptySeq
<1>2. \A s \in S : Allowed(s, ctx, sw)
  OBVIOUS
<1> HIDE DEF none, S
<1>3. AllAllowed(none, ctx, sw)
  BY <1>1, <1>2, AllowedFrom
<1> QED BY <1>3 DEF none

\* So is that of one allowed command.
LEMMA OneAllowed ==
  ASSUME NEW ctx, NEW sw, NEW s, Allowed(s, ctx, sw)
  PROVE  AllAllowed(<<s>>, ctx, sw)
<1> DEFINE one == <<s>>
           S == {s}
<1>1. one \in Seq(S)
  OBVIOUS
<1>2. \A x \in S : Allowed(x, ctx, sw)
  OBVIOUS
<1> HIDE DEF one, S
<1>3. AllAllowed(one, ctx, sw)
  BY <1>1, <1>2, AllowedFrom
<1> QED BY <1>3 DEF one

\* So are two such, one after the other.
LEMMA BothAllowed ==
  ASSUME NEW ctx, NEW sw, NEW s, NEW t,
         AllAllowed(s, ctx, sw), AllAllowed(t, ctx, sw)
  PROVE  AllAllowed(s \o t, ctx, sw)
<1>1. PICK S : s \in Seq(S) /\ \A x \in S : Allowed(x, ctx, sw)
  BY DEF AllAllowed
<1>2. PICK T : t \in Seq(T) /\ \A x \in T : Allowed(x, ctx, sw)
  BY DEF AllAllowed
<1>3. s \in Seq(S \cup T) /\ t \in Seq(S \cup T)
  BY <1>1, <1>2, SeqMonotonic
<1>4. s \o t \in Seq(S \cup T)
  BY <1>3, ConcatProperties
<1>5. \A x \in S \cup T : Allowed(x, ctx, sw)
  BY <1>1, <1>2
<1> QED BY <1>4, <1>5, AllowedFrom

\* A refusal plans nothing.
LEMMA RefusalIsGood ==
  ASSUME NEW ctx, NEW sw, NEW why PROVE GoodPlan(Refuse(why), ctx, sw)
BY NothingAllowed DEF GoodPlan, Refuse

\* A plan of allowed commands is a good one.
LEMMA PlanIsGood ==
  ASSUME NEW ctx, NEW sw, NEW steps, AllAllowed(steps, ctx, sw)
  PROVE  GoodPlan(Plan(steps), ctx, sw)
BY DEF GoodPlan, Plan
-----------------------------------------------------------------------------
(* Windows and workspaces.                                                 *)

\* A dispatcher on the focused window, on a workspace, or on a live monitor.
LEMMA WindowCommand ==
  ASSUME NEW ctx, NEW sw, NEW s, sw.window,
         s.cmd \notin XrCommands \cup {"exec"}, s.wait = None, s.win = None,
         s.mon = None \/ hasMonitor(ctx, s.mon)
  PROVE  AllAllowed(<<s>>, ctx, sw)
<1>1. Allowed(s, ctx, sw)
  BY DEF Allowed, XrCommands
<1> QED BY <1>1, OneAllowed

\* The window focused first is one of the snapshot.
LEMMA FocusFirstAllowed ==
  ASSUME NEW a, NEW ctx, NEW sw, sw.window, a.window = None \/ hasWindow(ctx, a.window)
  PROVE  AllAllowed(focusFirst(a), ctx, sw)
<1>1. CASE a.window = None
  BY <1>1, NothingAllowed DEF focusFirst
<1>2. CASE a.window # None
  <2>1. Allowed(focusWindow(a.window), ctx, sw)
    BY <1>2 DEF Allowed, focusWindow, do, XrCommands
  <2> QED BY <1>2, <2>1, OneAllowed DEF focusFirst
<1> QED BY <1>1, <1>2

\* So is the monitor gone to first.
LEMMA LookFirstAllowed ==
  ASSUME NEW a, NEW ctx, NEW sw, sw.window, a.window = None \/ hasWindow(ctx, a.window)
  PROVE  AllAllowed(lookFirst(a, ctx), ctx, sw)
<1> DEFINE goes == a.window = None /\ a.source = "deixis" /\ a.target # None
                   /\ hasMonitor(ctx, a.target)
           s    == doAt("focusmonitor", a.target)
<1>1. CASE a.window # None
  BY <1>1, FocusFirstAllowed DEF lookFirst
<1>2. CASE goes
  <2>1. AllAllowed(<<s>>, ctx, sw)
    BY <1>2, WindowCommand DEF doAt, do, XrCommands
  <2> QED BY <1>2, <2>1 DEF lookFirst
<1>3. CASE a.window = None /\ ~goes
  BY <1>3, NothingAllowed DEF lookFirst
<1> QED BY <1>1, <1>2, <1>3

\* The planners of windows and workspaces, one by one.
LEMMA MoveWorkspaceGood ==
  ASSUME NEW a, NEW ctx, NEW sw, sw.window
  PROVE  GoodPlan(planMoveWorkspace(a, ctx), ctx, sw)
<1>1. CASE isIndex(a.workspace) /\ isLive(a.target, ctx)
  <2>1. AllAllowed(<<moveWorkspaceTo(a.workspace, a.target)>>, ctx, sw)
    BY <1>1, WindowCommand DEF moveWorkspaceTo, doAt, do, XrCommands, isLive
  <2> QED BY <1>1, <2>1, PlanIsGood DEF planMoveWorkspace
<1> QED BY <1>1, RefusalIsGood DEF planMoveWorkspace

\* Switching to a workspace.
LEMMA SwitchGood ==
  ASSUME NEW a, NEW ctx, NEW sw, sw.window
  PROVE  GoodPlan(planSwitch(a), ctx, sw)
<1>1. AllAllowed(<<doNumber("workspace", a.workspace)>>, ctx, sw)
  BY WindowCommand DEF doNumber, do, XrCommands
<1> QED BY <1>1, RefusalIsGood, PlanIsGood DEF planSwitch

\* Moving a window.
LEMMA MoveWindowGood ==
  ASSUME NEW a, NEW ctx, NEW sw, sw.window
  PROVE  GoodPlan(planMoveWindow(a, ctx), ctx, sw)
<1> DEFINE toWorkspace == <<doNumber("movetoworkspace", a.workspace)>>
           toMonitor   == <<doAt("movewindow", a.target)>>
<1>1. CASE a.window # None /\ ~hasWindow(ctx, a.window)
  BY <1>1, RefusalIsGood DEF planMoveWindow
<1>2. CASE a.window = None \/ hasWindow(ctx, a.window)
  <2>1. AllAllowed(focusFirst(a), ctx, sw)
    BY <1>2, FocusFirstAllowed
  <2>2. GoodPlan(Plan(focusFirst(a) \o toWorkspace), ctx, sw)
    <3>1. AllAllowed(toWorkspace, ctx, sw)
      BY WindowCommand DEF doNumber, do, XrCommands
    <3> QED BY <2>1, <3>1, BothAllowed, PlanIsGood
  <2>3. ASSUME isLive(a.target, ctx)
        PROVE  GoodPlan(Plan(focusFirst(a) \o toMonitor), ctx, sw)
    <3>1. AllAllowed(toMonitor, ctx, sw)
      BY <2>3, WindowCommand DEF doAt, do, XrCommands, isLive
    <3> QED BY <2>1, <3>1, BothAllowed, PlanIsGood
  <2> QED BY <1>2, <2>2, <2>3, RefusalIsGood DEF planMoveWindow
<1> QED BY <1>1, <1>2

\* Focusing a window, or making it fullscreen.
LEMMA FocusGood ==
  ASSUME NEW a, NEW ctx, NEW sw, sw.window
  PROVE  GoodPlan(planFocus(a, ctx), ctx, sw)
<1> DEFINE full == <<doWord("fullscreen", IF a.sub = "maximize" THEN "1" ELSE "0")>>
<1>1. CASE a.window # None /\ ~hasWindow(ctx, a.window)
  BY <1>1, RefusalIsGood DEF planFocus
<1>2. CASE a.window = None \/ hasWindow(ctx, a.window)
  <2>1. AllAllowed(lookFirst(a, ctx), ctx, sw)
    BY <1>2, LookFirstAllowed
  <2>2. AllAllowed(full, ctx, sw)
    BY WindowCommand DEF doWord, do, XrCommands
  <2>3. GoodPlan(Plan(lookFirst(a, ctx) \o full), ctx, sw)
    BY <2>1, <2>2, BothAllowed, PlanIsGood
  <2> QED BY <1>2, <2>1, <2>3, PlanIsGood, RefusalIsGood DEF planFocus
<1> QED BY <1>1, <1>2

\* All of them, behind their switch.
LEMMA WindowPlanGood ==
  ASSUME NEW a, NEW ctx, NEW sw
  PROVE  GoodPlan(planWindow(a, ctx, sw), ctx, sw)
<1>1. CASE ~sw.window
  BY <1>1, RefusalIsGood DEF planWindow
<1>2. CASE sw.window
  BY <1>2, MoveWorkspaceGood, SwitchGood, MoveWindowGood, FocusGood DEF planWindow
<1> QED BY <1>1, <1>2
-----------------------------------------------------------------------------
(* XR monitors.                                                            *)

\* A verb of the XR session, on a live monitor or on the selection.
LEMMA MonitorCommand ==
  ASSUME NEW ctx, NEW sw, NEW s, sw.xrmonitor,
         s.cmd \in XrCommands \ {"create"}, s.wait = None, s.win = None,
         s.mon \in {None, Active} \/ hasMonitor(ctx, s.mon)
  PROVE  AllAllowed(<<s>>, ctx, sw)
<1>1. Allowed(s, ctx, sw)
  BY DEF Allowed, XrCommands
<1> QED BY <1>1, OneAllowed

\* The monitor selected first is one of the snapshot.
LEMMA SelectedAllowed ==
  ASSUME NEW a, NEW ctx, NEW sw, NEW steps, sw.xrmonitor,
         isActive(a.target) \/ hasMonitor(ctx, a.target),
         AllAllowed(steps, ctx, sw)
  PROVE  AllAllowed(selected(a, steps), ctx, sw)
<1>1. CASE isActive(a.target)
  BY <1>1 DEF selected
<1>2. CASE ~isActive(a.target)
  <2>1. AllAllowed(<<doAt("select", a.target)>>, ctx, sw)
    BY <1>2, MonitorCommand DEF doAt, do, XrCommands
  <2> QED BY <1>2, <2>1, BothAllowed DEF selected
<1> QED BY <1>1, <1>2

\* Verbs that name no monitor, and anchors, which name it or the selection.
LEMMA WordAllowed ==
  ASSUME NEW ctx, NEW sw, NEW cmd \in XrCommands \ {"create"}, NEW w, sw.xrmonitor
  PROVE  /\ AllAllowed(<<do(cmd)>>, ctx, sw)
         /\ AllAllowed(<<doWord(cmd, w)>>, ctx, sw)
         /\ AllAllowed(<<doNumber(cmd, w)>>, ctx, sw)
BY MonitorCommand DEF do, doWord, doNumber

\* An anchor is for the selection or for a monitor of the snapshot.
LEMMA AnchorAllowed ==
  ASSUME NEW a, NEW ctx, NEW sw, NEW w, sw.xrmonitor,
         isActive(a.target) \/ hasMonitor(ctx, a.target)
  PROVE  AllAllowed(<<doOn("anchor", addressed(a), w)>>, ctx, sw)
BY MonitorCommand DEF doOn, doAt, do, addressed, isActive, XrCommands

\* A new monitor is not one of the snapshot, and is waited for.
LEMMA CreateGood ==
  ASSUME NEW a, NEW ctx, NEW sw, sw.xrmonitor
  PROVE  GoodPlan(planCreate(a, ctx, sw), ctx, sw)
<1> DEFINE new    == <<doAt("create", a.target)>>
           placed == IF hasPoint(a.gaze) THEN <<placeNew(a.target, a.gaze)>> ELSE <<>>
           fresh  == sw.create /\ ~hasMonitor(ctx, a.target)
<1>1. ASSUME fresh PROVE AllAllowed(new, ctx, sw)
  <2>1. Allowed(doAt("create", a.target), ctx, sw)
    BY <1>1 DEF Allowed, doAt, do, XrCommands
  <2> QED BY <2>1, OneAllowed
<1>2. ASSUME fresh PROVE AllAllowed(placed, ctx, sw)
  <2>1. Allowed(placeNew(a.target, a.gaze), ctx, sw)
    BY <1>2 DEF Allowed, placeNew, placeAt, doAt, do, XrCommands
  <2> QED BY <2>1, OneAllowed, NothingAllowed
<1>3. ASSUME fresh PROVE GoodPlan(Plan(new \o placed), ctx, sw)
  BY <1>1, <1>2, <1>3, BothAllowed, PlanIsGood
<1>4. CASE ~fresh
  BY <1>4, RefusalIsGood DEF planCreate
<1>5. CASE fresh
  BY <1>3, <1>5, RefusalIsGood DEF planCreate
<1> QED BY <1>4, <1>5

\* A monitor verb on a monitor that is there, or on the selection.
LEMMA MonitorVerbsGood ==
  ASSUME NEW a, NEW ctx, NEW sw, sw.xrmonitor,
         isActive(a.target) \/ hasMonitor(ctx, a.target)
  PROVE  /\ GoodPlan(planPick(a, sw), ctx, sw)
         /\ GoodPlan(planPlace(a, sw), ctx, sw)
         /\ GoodPlan(planDistance(a), ctx, sw)
         /\ GoodPlan(Plan(selected(a, <<do("center")>>)), ctx, sw)
         /\ GoodPlan(Plan(selected(a, <<do("undock")>>)), ctx, sw)
         /\ GoodPlan(planDock(a), ctx, sw)
         /\ GoodPlan(planFollow(a), ctx, sw)
         /\ GoodPlan(planAnchor(a), ctx, sw)
<1> USE DEF XrCommands
<1>1. GoodPlan(planPick(a, sw), ctx, sw)
  <2>1. ASSUME ~isActive(a.target) PROVE AllAllowed(<<doAt("gazegrab", a.target)>>, ctx, sw)
    BY <2>1, MonitorCommand DEF doAt, do
  <2>2. AllAllowed(selected(a, <<doOn("anchor", addressed(a), "head")>>), ctx, sw)
    BY AnchorAllowed, SelectedAllowed
  <2> QED BY <2>1, <2>2, PlanIsGood DEF planPick
<1>2. GoodPlan(planPlace(a, sw), ctx, sw)
  <2>1. AllAllowed(<<placeAt(addressed(a), a.gaze)>>, ctx, sw)
    BY MonitorCommand DEF placeAt, doAt, do, addressed, isActive
  <2> QED BY <2>1, AnchorAllowed, PlanIsGood DEF planPlace
<1>3. GoodPlan(planDistance(a), ctx, sw)
  BY WordAllowed, SelectedAllowed, PlanIsGood DEF planDistance
<1>4. /\ GoodPlan(Plan(selected(a, <<do("center")>>)), ctx, sw)
      /\ GoodPlan(Plan(selected(a, <<do("undock")>>)), ctx, sw)
  BY WordAllowed, SelectedAllowed, PlanIsGood
<1>5. GoodPlan(planDock(a), ctx, sw)
  BY WordAllowed, SelectedAllowed, PlanIsGood DEF planDock
<1>6. GoodPlan(planFollow(a), ctx, sw)
  <2> DEFINE roam == IF a.anchor \in {"head", "body"} THEN a.anchor
                     ELSE IF a.sub \in {"head", "body"} THEN a.sub ELSE ""
             on   == <<doWord("adaptive", "on")>>
             both == on \o <<doWord("roam", roam)>>
  <2>1. AllAllowed(on, ctx, sw) /\ AllAllowed(both, ctx, sw)
    BY WordAllowed, BothAllowed
  <2>2. AllAllowed(IF roam = "" THEN on ELSE both, ctx, sw)
    BY <2>1
  <2> HIDE DEF roam, on, both
  <2>3. GoodPlan(Plan(selected(a, IF roam = "" THEN on ELSE both)), ctx, sw)
    BY <2>2, SelectedAllowed, PlanIsGood
  <2> QED BY <2>3 DEF planFollow, roam, on, both
<1>7. GoodPlan(planAnchor(a), ctx, sw)
  BY AnchorAllowed, PlanIsGood, RefusalIsGood DEF planAnchor
<1> QED BY <1>1, <1>2, <1>3, <1>4, <1>5, <1>6, <1>7

\* Switching hand input and the view.
LEMMA SwitchableGood ==
  ASSUME NEW ctx, NEW sw, sw.xrmonitor, NEW sub, NEW words, NEW cmd \in {"handinput", "view"}
  PROVE  GoodPlan(planSwitchable(cmd, sub, words), ctx, sw)
BY WordAllowed, PlanIsGood, RefusalIsGood DEF planSwitchable, XrCommands

\* All planners of monitors.
LEMMA MonitorPlanGood ==
  ASSUME NEW a, NEW ctx, NEW sw, sw.xrmonitor
  PROVE  GoodPlan(planMonitor(a, ctx, sw), ctx, sw)
<1>1. CASE ~isActive(a.target) /\ ~hasMonitor(ctx, a.target)
  BY <1>1, RefusalIsGood DEF planMonitor
<1>2. CASE isActive(a.target) \/ hasMonitor(ctx, a.target)
  BY <1>2, MonitorVerbsGood, SwitchableGood, RefusalIsGood DEF planMonitor
<1> QED BY <1>1, <1>2
-----------------------------------------------------------------------------
\* planFor (Executor.cpp:131): whatever was resolved, what is planned is
\* allowed by the switches and about nothing but the snapshot.
THEOREM PlansAreGood ==
  ASSUME NEW a, NEW ctx, NEW sw PROVE GoodPlan(planFor(a, ctx, sw), ctx, sw)
<1>1. CASE a.verb = "launch_app"
  <2>1. ASSUME sw.launch PROVE AllAllowed(<<do("exec")>>, ctx, sw)
    <3>1. Allowed(do("exec"), ctx, sw)
      BY <2>1 DEF Allowed, do, XrCommands
    <3> QED BY <3>1, OneAllowed
  <2> QED BY <1>1, <2>1, PlanIsGood, RefusalIsGood DEF planFor
<1>2. CASE a.verb # "launch_app" /\ ~sw.xrmonitor
  BY <1>2, WindowPlanGood, RefusalIsGood DEF planFor
<1>3. CASE a.verb # "launch_app" /\ sw.xrmonitor
  BY <1>3, WindowPlanGood, CreateGood, MonitorPlanGood, RefusalIsGood DEF planFor
<1> QED BY <1>1, <1>2, <1>3

\* Whatever the reason a plan was refused for, it is not that something is gone.
NotGone(p) == p.why # "not live"

\* Whatever else is a reason to refuse, it is not that something is gone.
LEMMA OtherReasons ==
  /\ \A steps : NotGone(Plan(steps))
  /\ NotGone(Refuse("range")) /\ NotGone(Refuse("no subject")) /\ NotGone(Refuse("disabled"))
  /\ NotGone(Refuse("not a name")) /\ NotGone(Refuse("exists")) /\ NotGone(Refuse("unspecified"))
  /\ NotGone(Refuse("out of scope")) /\ NotGone(Refuse("asked")) /\ NotGone(Refuse("not listed"))
BY DEF NotGone, Plan, Refuse

\* The executor's validation agrees with what the intent tier found: whatever
\* the snapshot has is not refused as gone (Executor.cpp:49-55, 131).
THEOREM NotRefusedAsGone ==
  ASSUME NEW ctx, NEW sw, NEW a, a.verb \in Verbs, Reachable(a, ctx)
  PROVE  planFor(a, ctx, sw).why # "not live"
<1>1. ASSUME NEW target, Live(target, ctx) PROVE isLive(target, ctx)
  BY <1>1 DEF Live, isLive, isActive
<1>2. CASE a.verb = "move_workspace"
  <2>1. isLive(a.target, ctx)
    BY <1>1, <1>2 DEF Reachable
  <2>2. NotGone(planMoveWorkspace(a, ctx))
    BY <2>1, OtherReasons, Zenon DEF planMoveWorkspace
  <2>3. NotGone(planWindow(a, ctx, sw))
    BY <1>2, <2>2, OtherReasons DEF planWindow
  <2> QED BY <1>2, <2>3, OtherReasons DEF planFor, NotGone
<1>3. CASE a.verb = "move_window"
  <2>1. ~(a.window # None /\ ~hasWindow(ctx, a.window))
    BY <1>3 DEF Reachable
  <2>2. ASSUME isIndex(a.workspace) PROVE NotGone(planMoveWindow(a, ctx))
    <3>1. ~(a.workspace > 99) /\ a.workspace > 0
      BY <2>2 DEF isIndex
    <3> QED BY <2>1, <3>1, OtherReasons, Zenon DEF planMoveWindow
  <2>3. ASSUME isLive(a.target, ctx) PROVE NotGone(planMoveWindow(a, ctx))
    BY <2>1, <2>3, OtherReasons, Zenon DEF planMoveWindow
  <2>4. NotGone(planMoveWindow(a, ctx))
    BY <1>1, <1>3, <2>2, <2>3 DEF Reachable
  <2>5. NotGone(planWindow(a, ctx, sw))
    BY <1>3, <2>4, OtherReasons DEF planWindow
  <2> QED BY <1>3, <2>5, OtherReasons DEF planFor, NotGone
<1>4. CASE a.verb \in {"focus", "fullscreen"}
  <2>1. ~(a.window # None /\ ~hasWindow(ctx, a.window))
    BY <1>4 DEF Reachable
  <2>2. NotGone(planFocus(a, ctx))
    BY <2>1, OtherReasons, Zenon DEF planFocus
  <2>3. NotGone(planWindow(a, ctx, sw))
    BY <1>4, <2>2, OtherReasons DEF planWindow
  <2> QED BY <1>4, <2>3, OtherReasons DEF planFor, NotGone
<1>5. CASE a.verb = "workspace"
  <2>1. NotGone(planSwitch(a))
    BY OtherReasons, Zenon DEF planSwitch
  <2>2. NotGone(planWindow(a, ctx, sw))
    BY <1>5, <2>1, OtherReasons DEF planWindow
  <2> QED BY <1>5, <2>2, OtherReasons DEF planFor, NotGone
<1>6. CASE a.verb \in {"none", "clarify", "launch_app"}
  BY <1>6, OtherReasons DEF planFor, NotGone
<1>7. CASE a.verb = "create_monitor"
  <2>1. NotGone(planCreate(a, ctx, sw))
    BY OtherReasons, Zenon DEF planCreate
  <2> QED BY <1>7, <2>1, OtherReasons DEF planFor, NotGone
<1>8. CASE a.verb \in Subjects \cup {"place", "hand_input", "monitor_view"}
  <2>1. ~(~isActive(a.target) /\ ~hasMonitor(ctx, a.target))
    BY <1>8 DEF Reachable, isActive
  <2>2. /\ NotGone(planPick(a, sw))
        /\ NotGone(planPlace(a, sw))
        /\ NotGone(planDistance(a))
        /\ NotGone(planDock(a))
        /\ NotGone(planFollow(a))
    BY OtherReasons, Zenon DEF planPick, planPlace, planDistance, planDock, planFollow
  <2>3. NotGone(planAnchor(a))
    BY OtherReasons, Zenon DEF planAnchor
  <2>4. \A cmd, sub, words : NotGone(planSwitchable(cmd, sub, words))
    BY OtherReasons, Zenon DEF planSwitchable
  <2>5. NotGone(planMonitor(a, ctx, sw))
    BY <2>1, <2>2, <2>3, <2>4, OtherReasons DEF planMonitor
  <2> QED BY <1>8, <2>5, OtherReasons DEF planFor, Subjects, NotGone
<1> QED BY <1>2, <1>3, <1>4, <1>5, <1>6, <1>7, <1>8 DEF Verbs, Subjects
-----------------------------------------------------------------------------
(* What the commands of a plan change.                                     *)

\* The commands that choose what later ones act on, and those that act on the
\* focus, on the selection, or on the monitor they name.
Leads == {"focuswindow", "focusmonitor", "select"}
FocusUsers == {"fullscreen", "movewindow", "movetoworkspace"}
ChoiceUsers == {"distance", "center", "dock", "undock", "adaptive", "roam"}
Named == {"anchor", "place", "gazegrab"}

\* What the actions are that OnlyTheNamed speaks of.
OfMonitor(a) == a.verb \in Subjects \cup {"place"} /\ ~isActive(a.target)
OfLook(a) == a.verb = "fullscreen" /\ a.source = "deixis"

\* A first command changes nothing but what the action is about.
Alone(s, a) ==
  /\ a.window # None => s.cmd \notin FocusUsers \cup ChoiceUsers \cup Named
  /\ OfMonitor(a) => s.cmd \notin FocusUsers \cup ChoiceUsers
                     /\ (s.cmd \in Named => s.mon = a.target)
  /\ OfLook(a) => s.cmd \notin FocusUsers \cup ChoiceUsers \cup Named

\* Nor does one that comes after `lead'.
Follows(s, lead, a) ==
  /\ s.cmd \notin Leads
  /\ lead.cmd = "focusmonitor" => s.cmd = "fullscreen"
  /\ a.window # None => s.cmd \notin ChoiceUsers \cup Named
                        /\ (s.cmd \in FocusUsers => lead = focusWindow(a.window))
  /\ OfMonitor(a) => s.cmd \notin FocusUsers /\ (s.cmd \in Named => s.mon = a.target)
                     /\ (s.cmd \in ChoiceUsers => lead = doAt("select", a.target))
  /\ OfLook(a) => s.cmd \notin ChoiceUsers \cup Named
                  /\ (s.cmd \in FocusUsers => lead = doAt("focusmonitor", a.target))

\* A plan that changes nothing else.
Aims(steps, a) ==
  \A k \in DOMAIN steps :
    IF k = 1 THEN Alone(steps[1], a) ELSE Follows(steps[k], steps[1], a)

\* No command changes nothing.
LEMMA NothingAims == ASSUME NEW a PROVE Aims(<<>>, a)
BY DEF Aims

\* A plan of one command aims if that command does,
LEMMA OneAims == ASSUME NEW s, NEW a, Alone(s, a) PROVE Aims(<<s>>, a)
BY DEF Aims

\* one of two if the second follows the first,
LEMMA TwoAim ==
  ASSUME NEW f, NEW s, NEW a, Alone(f, a), Follows(s, f, a)
  PROVE  Aims(<<f, s>>, a) /\ Aims(<<f>> \o <<s>>, a)
<1>1. Aims(<<f, s>>, a)
  BY DEF Aims
<1> DEFINE c == <<f>> \o <<s>>
<1>2. DOMAIN c = 1 .. 2 /\ c[1] = f /\ c[2] = s
  OBVIOUS
<1> HIDE DEF c
<1>3. Aims(c, a)
  BY <1>2 DEF Aims
<1> QED BY <1>1, <1>3 DEF c

\* and one of three if the third does as well.
LEMMA ThreeAim ==
  ASSUME NEW f, NEW s, NEW z, NEW a, Alone(f, a), Follows(s, f, a), Follows(z, f, a)
  PROVE  Aims(<<f>> \o (<<s>> \o <<z>>), a)
<1> DEFINE e == <<f>>
           d == <<s>> \o <<z>>
           c == e \o d
           S == {f, s, z}
<1>1. e \in Seq(S) /\ Len(e) = 1 /\ e[1] = f
  OBVIOUS
<1>0. d \in Seq(S) /\ Len(d) = 2 /\ d[1] = s /\ d[2] = z
  OBVIOUS
<1> HIDE DEF e, d, S
<1>a. /\ c \in Seq(S) /\ Len(c) = Len(e) + Len(d)
      /\ \A i \in 1 .. Len(e) + Len(d) : c[i] = IF i <= Len(e) THEN e[i] ELSE d[i - Len(e)]
  <2>1. e \in Seq(S) /\ d \in Seq(S)
    BY <1>0, <1>1
  <2> QED BY ONLY <2>1, ConcatProperties
<1> HIDE DEF c
<1>b. DOMAIN c = 1 .. 3
  BY <1>0, <1>1, <1>a
<1>2. DOMAIN c = 1 .. 3 /\ c[1] = f /\ c[2] = s /\ c[3] = z
  BY <1>0, <1>1, <1>a, <1>b
<1>3. Aims(c, a)
  BY <1>2 DEF Aims
<1> QED BY <1>3 DEF c, d, e

\* Commands on a window act on the one that was named or looked at.
LEMMA WindowPlanAims ==
  ASSUME NEW a, NEW ctx, NEW sw, OneSubject(a, ctx),
         a.verb \in {"workspace", "focus", "fullscreen", "move_window", "move_workspace"}
  PROVE  Aims(planWindow(a, ctx, sw).steps, a)
<1> USE DEF Leads, FocusUsers, ChoiceUsers, Named
<1>1. ~OfMonitor(a)
  BY DEF OfMonitor, Subjects
<1>2. ASSUME NEW why PROVE Aims(Refuse(why).steps, a)
  BY NothingAims DEF Refuse
<1>3. ASSUME NEW steps PROVE Plan(steps).steps = steps
  BY DEF Plan
<1>4. CASE a.verb = "move_workspace"
  <2>1. Alone(moveWorkspaceTo(a.workspace, a.target), a)
    BY <1>1, <1>4 DEF Alone, OfLook, moveWorkspaceTo, doAt, do
  <2> QED BY <1>2, <1>3, <1>4, <2>1, OneAims DEF planWindow, planMoveWorkspace
<1>5. CASE a.verb = "workspace"
  <2>1. Alone(doNumber("workspace", a.workspace), a)
    BY <1>1, <1>5 DEF Alone, OfLook, doNumber, do
  <2> QED BY <1>2, <1>3, <1>5, <2>1, OneAims DEF planWindow, planSwitch
<1>6. CASE a.verb = "move_window"
  <2>1. ASSUME NEW s, s.cmd \in FocusUsers PROVE Aims(focusFirst(a) \o <<s>>, a)
    <3>1. CASE a.window = None
      <4>1. Alone(s, a)
        BY <1>1, <1>6, <3>1 DEF Alone, OfLook
      <4>2. <<>> \o <<s>> = <<s>>
        OBVIOUS
      <4> QED BY <3>1, <4>1, <4>2, OneAims DEF focusFirst
    <3>2. CASE a.window # None
      <4>1. Alone(focusWindow(a.window), a)
        BY <1>1, <1>6 DEF Alone, OfLook, focusWindow, do
      <4>2. Follows(s, focusWindow(a.window), a)
        <5>1. focusWindow(a.window).cmd = "focuswindow"
          BY DEF focusWindow, do
        <5> QED BY <1>1, <1>6, <2>1, <5>1 DEF Follows, OfLook
      <4> QED BY <3>2, <4>1, <4>2, TwoAim DEF focusFirst
    <3> QED BY <3>1, <3>2
  <2>2. /\ doNumber("movetoworkspace", a.workspace).cmd = "movetoworkspace"
        /\ doAt("movewindow", a.target).cmd = "movewindow"
    BY DEF doNumber, doAt, do
  <2>3. /\ Aims(focusFirst(a) \o <<doNumber("movetoworkspace", a.workspace)>>, a)
        /\ Aims(focusFirst(a) \o <<doAt("movewindow", a.target)>>, a)
    BY <2>1, <2>2
  <2> QED BY <1>2, <1>3, <1>6, <2>3 DEF planWindow, planMoveWindow
<1>7. CASE a.verb \in {"focus", "fullscreen"}
  <2> DEFINE f == focusWindow(a.window)
             g == doAt("focusmonitor", a.target)
             s == doWord("fullscreen", IF a.sub = "maximize" THEN "1" ELSE "0")
  <2>1. f.cmd = "focuswindow" /\ g.cmd = "focusmonitor" /\ s.cmd = "fullscreen"
    BY DEF focusWindow, doAt, doWord, do
  <2> HIDE DEF s
  <2>2. Alone(f, a) /\ Alone(g, a)
    BY <1>1, <2>1 DEF Alone
  <2>3. a.window # None => Follows(s, f, a)
    BY <1>1, <2>1 DEF Follows, OfLook, OneSubject
  <2>4. a.window = None => Follows(s, g, a)
    BY <1>1, <2>1 DEF Follows, OfLook, OneSubject
  <2>5. a.window = None /\ ~OfLook(a) => Alone(s, a)
    BY <1>1, <2>1 DEF Alone
  <2>6. lookFirst(a, ctx) \in {<<>>, <<f>>, <<g>>}
    BY DEF lookFirst, focusFirst
  <2>7. /\ lookFirst(a, ctx) = <<f>> <=> a.window # None
        /\ lookFirst(a, ctx) = <<>> /\ a.verb = "fullscreen" => ~OfLook(a)
    <3>1. <<f>> # <<>> /\ <<g>> # <<>> /\ <<f>> # <<g>>
      BY <2>1
    <3> HIDE DEF f, g
    <3> QED BY <3>1 DEF lookFirst, focusFirst, OneSubject, OfLook, f, g
  <2> HIDE DEF f, g
  <2>8. Aims(lookFirst(a, ctx), a)
    BY <2>2, <2>6, OneAims, NothingAims
  <2>9. a.verb = "fullscreen" => Aims(lookFirst(a, ctx) \o <<s>>, a)
    <3>1. CASE lookFirst(a, ctx) = <<f>>
      BY <2>2, <2>3, <2>7, <3>1, TwoAim
    <3>2. CASE lookFirst(a, ctx) = <<g>> /\ a.window = None
      BY <2>2, <2>4, <3>2, TwoAim
    <3>3. CASE lookFirst(a, ctx) = <<>> /\ a.window = None
      <4>1. <<>> \o <<s>> = <<s>>
        OBVIOUS
      <4> QED BY <2>5, <2>7, <3>3, <4>1, OneAims
    <3> QED BY <2>6, <2>7, <3>1, <3>2, <3>3
  <2> QED BY <1>2, <1>3, <1>7, <2>8, <2>9 DEF planWindow, planFocus, s
<1> QED BY <1>4, <1>5, <1>6, <1>7

\* Commands on the selection come after the monitor was selected.
LEMMA SelectedAims ==
  ASSUME NEW a, NEW s, a.window = None, a.verb \in Subjects, s.cmd \in ChoiceUsers \cup {"anchor"},
         s.cmd = "anchor" => s.mon = addressed(a)
  PROVE  Aims(selected(a, <<s>>), a)
<1> USE DEF Leads, FocusUsers, ChoiceUsers, Named
<1> DEFINE f == doAt("select", a.target)
<1>1. ~OfLook(a)
  BY DEF OfLook, Subjects
<1>2. isActive(a.target) => Alone(s, a)
  BY <1>1 DEF Alone, OfMonitor
<1>3. f.cmd = "select"
  BY DEF doAt, do
<1> HIDE DEF f
<1>4. Alone(f, a)
  BY <1>1, <1>3 DEF Alone
<1>5. ~isActive(a.target) => Follows(s, f, a)
  BY <1>1, <1>3 DEF Follows, addressed, f
<1> QED BY <1>2, <1>4, <1>5, OneAims, TwoAim DEF selected, f

\* Following takes up to two commands on the selection.
LEMMA FollowPlanAims ==
  ASSUME NEW a, a.window = None, a.verb \in Subjects
  PROVE  Aims(planFollow(a).steps, a)
<1> USE DEF Leads, FocusUsers, ChoiceUsers, Named
<1> DEFINE f == doAt("select", a.target)
           s == doWord("adaptive", "on")
           roam == IF a.anchor \in {"head", "body"} THEN a.anchor
                   ELSE IF a.sub \in {"head", "body"} THEN a.sub ELSE ""
           z == doWord("roam", roam)
<1>1. ~OfLook(a)
  BY DEF OfLook, Subjects
<1>2. f.cmd = "select" /\ s.cmd = "adaptive" /\ z.cmd = "roam"
  BY DEF doAt, doWord, do
<1>3. planFollow(a).steps = selected(a, IF roam = "" THEN <<s>> ELSE <<s>> \o <<z>>)
  BY DEF planFollow, Plan
<1> HIDE DEF f, s, z, roam
<1>4. Aims(selected(a, <<s>>), a)
  BY <1>2, SelectedAims
<1>5. CASE isActive(a.target)
  <2>1. Alone(s, a) /\ Follows(z, s, a)
    BY <1>1, <1>2, <1>5 DEF Alone, Follows, OfMonitor
  <2>2. Aims(<<s>> \o <<z>>, a)
    BY <2>1, TwoAim
  <2> QED BY <1>3, <1>4, <1>5, <2>2 DEF selected
<1>6. CASE ~isActive(a.target)
  <2>1. Alone(f, a)
    BY <1>1, <1>2 DEF Alone
  <2>2. Follows(s, f, a) /\ Follows(z, f, a)
    BY <1>1, <1>2 DEF Follows, f
  <2>3. Aims(<<f>> \o (<<s>> \o <<z>>), a)
    BY <2>1, <2>2, ThreeAim
  <2> QED BY <1>3, <1>4, <1>6, <2>3 DEF selected, f
<1> QED BY <1>5, <1>6

\* Commands on a monitor act on the one that was resolved.
LEMMA MonitorPlanAims ==
  ASSUME NEW a, NEW ctx, NEW sw, a.window = None,
         a.verb \notin {"fullscreen", "focus"}
  PROVE  Aims(planMonitor(a, ctx, sw).steps, a)
<1> USE DEF Leads, FocusUsers, ChoiceUsers, Named
<1>1. ~OfLook(a)
  BY DEF OfLook
<1>2. ASSUME NEW why PROVE Aims(Refuse(why).steps, a)
  BY NothingAims DEF Refuse
<1>3. ASSUME NEW steps PROVE Plan(steps).steps = steps
  BY DEF Plan
<1>4. ASSUME NEW s, s.cmd \in Named, s.mon = addressed(a) PROVE Aims(<<s>>, a)
  <2>1. Alone(s, a)
    BY <1>1, <1>4 DEF Alone, OfMonitor, addressed
  <2> QED BY <2>1, OneAims
<1>5. ASSUME NEW arg, NEW gz
      PROVE  /\ doOn("anchor", addressed(a), arg).cmd = "anchor"
             /\ doOn("anchor", addressed(a), arg).mon = addressed(a)
             /\ placeAt(addressed(a), gz).cmd = "place"
             /\ placeAt(addressed(a), gz).mon = addressed(a)
             /\ doAt("gazegrab", addressed(a)).cmd = "gazegrab"
             /\ doAt("gazegrab", addressed(a)).mon = addressed(a)
  BY DEF doOn, placeAt, doAt, do
<1>6. CASE a.verb = "pick"
  <2>1. Aims(selected(a, <<doOn("anchor", addressed(a), "head")>>), a)
    BY <1>5, <1>6, SelectedAims DEF Subjects
  <2>2. ~isActive(a.target) => Aims(<<doAt("gazegrab", a.target)>>, a)
    BY <1>4, <1>5 DEF addressed
  <2> QED BY <1>2, <1>3, <1>6, <2>1, <2>2 DEF planMonitor, planPick
<1>7. CASE a.verb = "place"
  <2>1. /\ Aims(<<placeAt(addressed(a), a.gaze)>>, a)
        /\ Aims(<<doOn("anchor", addressed(a), "local")>>, a)
    BY <1>4, <1>5
  <2>2. Aims(planPlace(a, sw).steps, a)
    BY <1>3, <2>1 DEF planPlace
  <2> QED BY <1>2, <1>7, <2>2 DEF planMonitor
<1>8. CASE a.verb \in {"move_dist", "center", "dock", "undock"}
  <2>1. ASSUME NEW n, NEW w
        PROVE  /\ doNumber("distance", n).cmd = "distance" /\ do("center").cmd = "center"
               /\ doWord("dock", w).cmd = "dock" /\ do("undock").cmd = "undock"
    BY DEF doNumber, doWord, do
  <2>2. ASSUME NEW n, NEW w
        PROVE  /\ Aims(selected(a, <<doNumber("distance", n)>>), a)
               /\ Aims(selected(a, <<do("center")>>), a)
               /\ Aims(selected(a, <<doWord("dock", w)>>), a)
               /\ Aims(selected(a, <<do("undock")>>), a)
    BY <1>8, <2>1, SelectedAims DEF Subjects
  <2> QED BY <1>2, <1>3, <1>8, <2>2 DEF planMonitor, planDistance, planDock
<1>9. CASE a.verb = "follow"
  BY <1>2, <1>9, FollowPlanAims DEF planMonitor, Subjects
<1>10. CASE a.verb = "anchor"
  <2>1. Aims(<<doOn("anchor", addressed(a), a.anchor)>>, a)
    BY <1>4, <1>5
  <2> QED BY <1>2, <1>3, <1>10, <2>1 DEF planMonitor, planAnchor
<1>11. CASE a.verb \in {"hand_input", "monitor_view"}
  <2>1. ASSUME NEW cmd \in {"handinput", "view"}, NEW w PROVE Aims(<<doWord(cmd, w)>>, a)
    <3>1. doWord(cmd, w).cmd = cmd
      BY DEF doWord, do
    <3>2. Alone(doWord(cmd, w), a)
      BY <1>1, <3>1 DEF Alone
    <3> QED BY <3>2, OneAims
  <2>2. ASSUME NEW cmd \in {"handinput", "view"}, NEW sub, NEW words
        PROVE  Aims(planSwitchable(cmd, sub, words).steps, a)
    BY <1>2, <1>3, <2>1 DEF planSwitchable
  <2> QED BY <1>2, <1>11, <2>2 DEF planMonitor
<1> QED BY <1>2, <1>6, <1>7, <1>8, <1>9, <1>10, <1>11 DEF planMonitor

\* Of an action on one subject, the plan changes nothing else.
LEMMA PlanAims ==
  ASSUME NEW a, NEW ctx, NEW sw, OneSubject(a, ctx)
  PROVE  Aims(planFor(a, ctx, sw).steps, a)
<1> USE DEF Leads, FocusUsers, ChoiceUsers, Named
<1>1. ASSUME NEW why PROVE Aims(Refuse(why).steps, a)
  BY NothingAims DEF Refuse
<1>2. ASSUME NEW steps PROVE Plan(steps).steps = steps
  BY DEF Plan
<1>3. CASE a.verb = "launch_app"
  <2>1. Alone(do("exec"), a)
    BY <1>3 DEF Alone, do, OfMonitor, OfLook, Subjects
  <2> QED BY <1>1, <1>2, <1>3, <2>1, OneAims DEF planFor
<1>4. CASE a.verb = "create_monitor"
  <2> DEFINE f == doAt("create", a.target)
             s == placeNew(a.target, a.gaze)
  <2>1. f.cmd = "create" /\ s.cmd = "place"
    BY DEF placeNew, placeAt, doAt, do
  <2> HIDE DEF f, s
  <2>2. a.window = None /\ ~OfMonitor(a) /\ ~OfLook(a)
    BY <1>4 DEF OneSubject, OfMonitor, OfLook, Subjects
  <2>3. Alone(f, a) /\ Follows(s, f, a)
    BY <2>1, <2>2 DEF Alone, Follows
  <2>4. Aims(<<f>> \o <<s>>, a) /\ Aims(<<f>> \o <<>>, a)
    <3>1. <<f>> \o <<>> = <<f>>
      OBVIOUS
    <3> QED BY <2>3, <3>1, OneAims, TwoAim
  <2>5. Aims(planCreate(a, ctx, sw).steps, a)
    BY <1>1, <1>2, <2>4 DEF planCreate, f, s
  <2> QED BY <1>1, <1>4, <2>5 DEF planFor
<1>5. CASE a.verb \in {"workspace", "focus", "fullscreen", "move_window", "move_workspace"}
  BY <1>5, WindowPlanAims DEF planFor
<1>6. CASE a.verb \notin {"none", "clarify", "launch_app", "create_monitor", "workspace",
                          "focus", "fullscreen", "move_window", "move_workspace"}
  <2>1. a.window = None
    BY <1>6 DEF OneSubject
  <2> QED BY <1>1, <1>6, <2>1, MonitorPlanAims DEF planFor
<1> QED BY <1>1, <1>3, <1>4, <1>5, <1>6 DEF planFor
=============================================================================
