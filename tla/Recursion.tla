----------------------------- MODULE Recursion -----------------------------
(***************************************************************************)
(* The two principles of recursion that the proofs need: every set of      *)
(* numbers has a least one, and a recursive function or a fold over        *)
(* numbers goes through values of which each is made from the one before.  *)
(***************************************************************************)
EXTENDS Integers, FiniteSetsExt, WellFoundedInduction, TLAPS

-----------------------------------------------------------------------------
(* Induction. *)

LEMMA LeastNat ==
  ASSUME NEW S, S \subseteq Nat, S # {}
  PROVE  \E x \in S : \A y \in S : x =< y
<1> DEFINE R == {ss \in Nat \X Nat : ss[1] < ss[2]}
<1>1. IsWellFoundedOn(R, Nat)
  BY NatLessThanWellFounded DEF OpToRel
<1>2. PICK x \in S : \A y \in S : <<y, x>> \notin R
  <2>. HIDE DEF R
  <2>. QED
    BY <1>1, WFMin
<1>3. ASSUME NEW y \in S PROVE x =< y
  <2>1. x \in Nat /\ y \in Nat
    OBVIOUS
  <2>2. ~(y < x)
    BY <1>2, <2>1
  <2>. QED
    BY <2>1, <2>2
<1>. QED
  BY <1>3

\* A set of numbers that holds 0 and with each number the next.
LEMMA Induction ==
  ASSUME NEW n \in Nat, NEW S, 0 \in S, \A k \in 0..(n - 1) : k \in S => k + 1 \in S
  PROVE  0..n \subseteq S
<1>. SUFFICES ASSUME (0..n) \ S # {} PROVE FALSE
  OBVIOUS
<1>1. PICK x \in (0..n) \ S : \A y \in (0..n) \ S : x =< y
  <2>1. (0..n) \ S \subseteq Nat
    OBVIOUS
  <2>. QED
    BY <2>1, LeastNat
<1>2. x # 0 /\ x - 1 \in 0..(n - 1)
  OBVIOUS
<1>3. x - 1 \notin S
  BY <1>2
<1>. QED
  BY <1>1, <1>2, <1>3

LEMMA MaxIsGreatest ==
  ASSUME NEW n \in Nat, NEW S, S \subseteq 1..n, S # {}
  PROVE  /\ Max(S) \in S
         /\ \A x \in S : Max(S) >= x
<1> DEFINE D == {n - x : x \in S}
<1>1. D \subseteq Nat /\ D # {}
  <2>1. ASSUME NEW x \in S PROVE n - x \in Nat
    <3>1. x \in 1..n
      OBVIOUS
    <3>. QED
      BY <3>1
  <2>2. D \subseteq Nat
    BY <2>1
  <2>3. PICK x \in S : TRUE
    OBVIOUS
  <2>4. n - x \in D
    OBVIOUS
  <2>. QED
    BY <2>2, <2>4
<1>2. PICK d \in D : \A e \in D : d =< e
  <2>. HIDE DEF D
  <2>. QED
    BY <1>1, LeastNat
<1>3. PICK m \in S : d = n - m
  OBVIOUS
<1>4. ASSUME NEW x \in S PROVE m >= x
  <2>1. x \in 1..n /\ m \in 1..n /\ n - m =< n - x
    BY <1>2, <1>3
  <2>. QED
    BY <2>1
<1>. QED
  BY <1>4 DEF Max

LEMMA MaxOfRange == ASSUME NEW n \in Nat \ {0} PROVE Max(1..n) = n
<1>1. n \in 1..n /\ 1..n \subseteq 1..n
  OBVIOUS
<1>2. Max(1..n) \in 1..n /\ Max(1..n) >= n
  BY <1>1, MaxIsGreatest
<1>. QED
  BY <1>2

-----------------------------------------------------------------------------
(* Recursion: F[k][v] is the value after v at place k. *)

Steps(V, n) == [1..n -> [V -> V]]

\* The values from base on.
Walk(g, V, base, n, F) == /\ g \in [0..n -> V] /\ g[0] = base
                          /\ \A k \in 1..n : g[k] = F[k][g[k - 1]]

\* What MapThenFoldSet chooses, where it takes the greatest element first.
FoldValues(h, V, base, n, F) ==
  /\ h \in [SUBSET (1..n) -> V]
  /\ \A s \in SUBSET (1..n) : h[s] = IF s = {} THEN base ELSE F[Max(s)][h[s \ {Max(s)}]]

LEMMA RecursionTable ==
  ASSUME NEW V, NEW base, NEW n, NEW F, base \in V, n \in Nat, F \in Steps(V, n)
  PROVE  \E g : Walk(g, V, base, n, F)
<1>0. F \in [1..n -> [V -> V]]
  BY DEF Steps
<1> DEFINE Good(g, m) == /\ g \in [0..m -> V] /\ g[0] = base
                         /\ \A k \in 1..m : g[k] = F[k][g[k - 1]]
           S == {m \in 0..n : \E g : Good(g, m)}
<1>1. 0 \in S
  <2>1. Good([k \in 0..0 |-> base], 0)
    OBVIOUS
  <2>2. 0 \in 0..n
    OBVIOUS
  <2>. HIDE DEF Good
  <2>. QED
    BY <2>1, <2>2
<1>2. ASSUME NEW m \in 0..(n - 1), m \in S PROVE m + 1 \in S
  <2>1. PICK g : Good(g, m)
    BY <1>2
  <2> DEFINE next == F[m + 1][g[m]]
             h == [k \in 0..(m + 1) |-> IF k = m + 1 THEN next ELSE g[k]]
  <2>2. next \in V
    <3>1. g[m] \in V /\ m + 1 \in 1..n
      BY <2>1
    <3>. QED
      BY <1>0, <3>1
  <2>3. h \in [0..(m + 1) -> V] /\ h[0] = base
    BY <2>1, <2>2
  <2>4. ASSUME NEW k \in 1..(m + 1) PROVE h[k] = F[k][h[k - 1]]
    <3>1. CASE k = m + 1
      <4>1. h[k] = next /\ h[k - 1] = g[m]
        BY <3>1
      <4>. QED
        BY <3>1, <4>1
    <3>2. CASE k # m + 1
      <4>1. k \in 1..m /\ k - 1 \in 0..m
        BY <3>2
      <4>2. h[k] = g[k] /\ h[k - 1] = g[k - 1]
        BY <4>1
      <4>. QED
        BY <2>1, <4>1, <4>2
    <3>. QED
      BY <3>1, <3>2
  <2>5. Good(h, m + 1)
    BY <2>3, <2>4
  <2>6. m + 1 \in 0..n
    OBVIOUS
  <2>. QED
    BY <2>5, <2>6
<1>3. n \in S
  <2>1. \A k \in 0..(n - 1) : k \in S => k + 1 \in S
    BY <1>2
  <2>2. n \in 0..n
    OBVIOUS
  <2>. HIDE DEF S
  <2>3. 0..n \subseteq S
    BY <1>1, <2>1, Induction
  <2>. QED
    BY <2>2, <2>3
<1>. QED
  BY <1>3 DEF Walk

LEMMA FoldTable ==
  ASSUME NEW V, NEW base, NEW n, NEW F, base \in V, n \in Nat, F \in Steps(V, n)
  PROVE  \E h : FoldValues(h, V, base, n, F)
<1>0. F \in [1..n -> [V -> V]]
  BY DEF Steps
<1> DEFINE Good(h, m) ==
             /\ h \in [SUBSET (1..m) -> V]
             /\ \A s \in SUBSET (1..m) :
                  h[s] = IF s = {} THEN base ELSE F[Max(s)][h[s \ {Max(s)}]]
           S == {m \in 0..n : \E h : Good(h, m)}
<1>1. 0 \in S
  <2>1. SUBSET (1..0) = {{}}
    OBVIOUS
  <2>2. Good([s \in {{}} |-> base], 0)
    BY <2>1
  <2>3. 0 \in 0..n
    OBVIOUS
  <2>. HIDE DEF Good
  <2>. QED
    BY <2>2, <2>3
<1>2. ASSUME NEW m \in 0..(n - 1), m \in S PROVE m + 1 \in S
  <2>1. PICK h : Good(h, m)
    BY <1>2
  <2> DEFINE last == m + 1
             g == [s \in SUBSET (1..last) |->
                     IF last \in s THEN F[last][h[s \ {last}]] ELSE h[s]]
  <2>2. last \in 1..n /\ last \in Nat /\ m \in Nat
    OBVIOUS
  <2>3. ASSUME NEW s \in SUBSET (1..last)
        PROVE  s \ {last} \in SUBSET (1..m)
    <3>1. \A x \in 1..last : x # last => x \in 1..m
      OBVIOUS
    <3>. QED
      BY <3>1
  <2>4. ASSUME NEW s \in SUBSET (1..m)
        PROVE  s \in SUBSET (1..last) /\ last \notin s
    <3>1. \A x \in 1..m : x \in 1..last /\ x # last
      OBVIOUS
    <3>. QED
      BY <3>1
  <2>5. ASSUME NEW s \in SUBSET (1..last), last \in s
        PROVE  Max(s) = last
    <3>1. Max(s) \in 1..last /\ Max(s) >= last
      BY <2>2, <2>5, MaxIsGreatest
    <3>. QED
      BY <3>1
  <2>6. ASSUME NEW s \in SUBSET (1..m)
        PROVE  g[s] = h[s] /\ h[s] \in V
    BY <2>1, <2>4
  <2>7. g \in [SUBSET (1..last) -> V]
    <3>1. ASSUME NEW s \in SUBSET (1..last)
          PROVE  (IF last \in s THEN F[last][h[s \ {last}]] ELSE h[s]) \in V
      <4>1. CASE last \in s
        <5>1. h[s \ {last}] \in V
          BY <2>1, <2>3
        <5>. QED
          BY <1>0, <5>1, <4>1, <2>2
      <4>2. CASE last \notin s
        <5>1. s \in SUBSET (1..m)
          BY <4>2, <2>3
        <5>. QED
          BY <5>1, <4>2, <2>1
      <4>. QED
        BY <4>1, <4>2
    <3>. QED
      BY <3>1
  <2>8. ASSUME NEW s \in SUBSET (1..last)
        PROVE  g[s] = IF s = {} THEN base ELSE F[Max(s)][g[s \ {Max(s)}]]
    <3>1. CASE last \in s
      <4>1. g[s] = F[last][h[s \ {last}]]
        BY <3>1
      <4>2. g[s \ {last}] = h[s \ {last}]
        BY <2>3, <2>6
      <4>. QED
        BY <3>1, <4>1, <4>2, <2>5
    <3>2. CASE last \notin s
      <4>1. s \in SUBSET (1..m)
        BY <2>3, <3>2
      <4>2. h[s] = IF s = {} THEN base ELSE F[Max(s)][h[s \ {Max(s)}]]
        BY <2>1, <4>1
      <4>3. g[s \ {Max(s)}] = h[s \ {Max(s)}]
        BY <4>1, <2>6
      <4>. QED
        BY <4>1, <4>2, <4>3, <2>6
    <3>. QED
      BY <3>1, <3>2
  <2>9. Good(g, last)
    BY <2>7, <2>8
  <2>10. last \in 0..n
    BY <2>2
  <2>. HIDE DEF Good
  <2>. QED
    BY <2>9, <2>10
<1>3. n \in S
  <2>1. \A k \in 0..(n - 1) : k \in S => k + 1 \in S
    BY <1>2
  <2>2. n \in 0..n
    OBVIOUS
  <2>. HIDE DEF S
  <2>3. 0..n \subseteq S
    BY <1>1, <2>1, Induction
  <2>. QED
    BY <2>2, <2>3
<1>. QED
  BY <1>3 DEF FoldValues


\* A choice that goes by F as long as it stays among the values.
FoldsBy(h, V, base, n, F) ==
  /\ h[{}] = base
  /\ \A s \in SUBSET (1..n) :
       s # {} /\ h[s \ {Max(s)}] \in V => h[s] = F[Max(s)][h[s \ {Max(s)}]]

\* It takes the numbers one after the other.
LEMMA FoldWalk ==
  ASSUME NEW V, NEW base, NEW n, NEW F, base \in V, n \in Nat, F \in Steps(V, n),
         NEW h, FoldsBy(h, V, base, n, F)
  PROVE  \E g : Walk(g, V, base, n, F) /\ h[1..n] = g[n]
<1>1. PICK g : Walk(g, V, base, n, F)
  BY RecursionTable
<1>2. /\ g \in [0..n -> V] /\ g[0] = base
      /\ \A k \in 1..n : g[k] = F[k][g[k - 1]]
  BY <1>1 DEF Walk
<1> DEFINE S == {m \in 0..n : h[1..m] = g[m]}
<1>3. 0 \in S
  <2>1. 1..0 = {} /\ 0 \in 0..n
    OBVIOUS
  <2>. QED
    BY <2>1, <1>2 DEF FoldsBy
<1>4. ASSUME NEW m \in 0..(n - 1), m \in S PROVE m + 1 \in S
  <2>1. m + 1 \in Nat \ {0} /\ m + 1 \in 1..n /\ m + 1 \in 0..n /\ (m + 1) - 1 = m /\ m \in 0..n
    OBVIOUS
  <2>2. Max(1..(m + 1)) = m + 1
    BY <2>1, MaxOfRange
  <2>3. (1..(m + 1)) \ {m + 1} = 1..m
    OBVIOUS
  <2>4. 1..(m + 1) \in SUBSET (1..n) /\ 1..(m + 1) # {}
    BY <2>1
  <2>5. h[1..m] = g[m] /\ g[m] \in V
    BY <1>2, <1>4, <2>1
  <2>6. h[1..(m + 1)] = F[m + 1][h[1..m]]
    BY <2>2, <2>3, <2>4, <2>5 DEF FoldsBy
  <2>7. g[m + 1] = F[m + 1][g[m]]
    BY <1>2, <2>1
  <2>. QED
    BY <2>1, <2>5, <2>6, <2>7
<1>5. n \in S
  <2>1. \A m \in 0..(n - 1) : m \in S => m + 1 \in S
    BY <1>4
  <2>2. n \in 0..n
    OBVIOUS
  <2>. HIDE DEF S
  <2>3. 0..n \subseteq S
    BY <1>3, <2>1, Induction
  <2>. QED
    BY <2>2, <2>3
<1>. QED
  BY <1>1, <1>5

=============================================================================
