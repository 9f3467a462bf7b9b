--------------------------- MODULE BreakdownProofs ---------------------------
(***************************************************************************)
(* For any trees of categories, any of them hidden, any items and any      *)
(* filter: every view of the spending agrees with the one above it.        *)
(***************************************************************************)
EXTENDS Breakdown, FiniteSetTheorems, NaturalsInduction, TLAPS

-----------------------------------------------------------------------------
(* The invariant: nothing but the answer changes.                          *)

\* No category is below itself.
Forest ==
    /\ parent \in [Cats -> Cats \cup {None}]
    /\ \A s \in SUBSET Cats : (\A c \in s : parent[c] \in s) => s = {}
    /\ visible \subseteq Cats

Given ==
    /\ Forest
    /\ items \in [Items -> [tx : Tx, cat : Cats \cup {None}]]
    /\ header \in [Tx -> Cats \cup {None}]
    /\ request \in [cats : SUBSET Cats, subs : SUBSET Cats]

Views ==
    [breakdown |-> Summary,
     bySub |-> [c \in {d \in Cats : parent[d] # None} |-> BySubcategory(c)],
     drill |-> [t \in TopLevels |-> DrillDown(t)],
     listed |-> [c \in visible |-> Listed(c)]]
Answered == answer = Views

IInv == Given /\ (answer = None \/ Answered)

-----------------------------------------------------------------------------
(* Counting up.                                                            *)

\* A set of numbers with 0 and with the next of each has all: a least number that
\* it lacks would have one before it.
LEMMA CountingUp ==
    ASSUME NEW N \in Nat, NEW S, 0 \in S, \A n \in 0..N : n # 0 /\ n - 1 \in S => n \in S
    PROVE  0..N \subseteq S
<1> DEFINE T == (0..N) \ S
<1> SUFFICES ASSUME T # {} PROVE FALSE
  OBVIOUS
<1>1. T \subseteq Nat
  OBVIOUS
<1>2. PICK n \in T : \A m \in T : ~(m < n)
  <2>1. IsWellFoundedOn(OpToRel(<, Nat), Nat)
    BY NatLessThanWellFounded
  <2>2. PICK n \in T : \A m \in T : <<m, n>> \notin OpToRel(<, Nat)
    <3> HIDE DEF T
    <3> QED BY <1>1, <2>1, WFMin
  <2>3. \A m \in T : m < n => <<m, n>> \in OpToRel(<, Nat)
    BY <1>1 DEF OpToRel
  <2> QED BY <2>2, <2>3
<1>3. n # 0 /\ n - 1 \in 0..N /\ n - 1 < n
  OBVIOUS
<1> QED BY <1>2, <1>3

Follows(f, N, S, a, next) ==
    f \in [0..N -> S] /\ f[0] = a /\ \A n \in 0..N : n # 0 => f[n] = next[f[n - 1]]

\* There is a function whose every value follows from the one before.
LEMMA StepByStep ==
    ASSUME NEW N \in Nat, NEW S, NEW a \in S, NEW next \in [S -> S]
    PROVE  \E f : Follows(f, N, S, a, next)
<1> DEFINE Steps(f, k) == f[0] = a /\ \A n \in 0..k : n # 0 => f[n] = next[f[n - 1]]
           Done == {k \in 0..N : \E f \in [0..k -> S] : Steps(f, k)}
<1>1. 0 \in Done
  <2> DEFINE z == [n \in 0..0 |-> a]
  <2>1. z \in [0..0 -> S] /\ Steps(z, 0)
    OBVIOUS
  <2> HIDE DEF z, Steps
  <2> QED BY <2>1
<1>2. ASSUME NEW k \in 0..N, k # 0, k - 1 \in Done PROVE k \in Done
  <2>1. PICK f \in [0..(k - 1) -> S] : Steps(f, k - 1)
    BY <1>2
  <2> DEFINE g == [n \in 0..k |-> IF n = k THEN next[f[k - 1]] ELSE f[n]]
  <2>2. k - 1 \in 0..(k - 1) /\ \A n \in 0..k : n = k \/ n \in 0..(k - 1)
    BY <1>2
  <2>3. g \in [0..k -> S]
    BY <2>2
  <2>4. g[0] = a
    BY <1>2, <2>1
  <2>5. ASSUME NEW n \in 0..k, n # 0 PROVE g[n] = next[g[n - 1]]
    <3>1. n - 1 \in 0..k /\ n - 1 # k /\ g[n - 1] = f[n - 1]
      BY <2>5
    <3> QED BY <2>1, <2>2, <2>5, <3>1
  <2> HIDE DEF g
  <2> QED BY <2>3, <2>4, <2>5
<1>3. N \in Done
  <2> HIDE DEF Done
  <2>1. 0..N \subseteq Done
    BY <1>1, <1>2, CountingUp
  <2> QED BY <2>1
<1> QED BY <1>3 DEF Follows

-----------------------------------------------------------------------------
(* The tree, as far as it is visible.                                      *)

\* There are so many categories.
LEMMA CountIsNat ==
    ASSUME CategoriesAssumption PROVE Cardinality(Cats) \in Nat
  BY FS_CardinalityType DEF CategoriesAssumption

\* The walk up, in a set that it cannot leave.
Walk(up, c, ends, S) ==
    /\ up \in [0..Cardinality(Cats) -> S]
    /\ up[0] = c /\ up[Cardinality(Cats)] = Climb(c, ends)
    /\ \A n \in 0..Cardinality(Cats) : n # 0 =>
        up[n] = IF up[n - 1] \in ends THEN up[n - 1] ELSE parent[up[n - 1]]

\* It exists step by step.
LEMMA ClimbSteps ==
    ASSUME CategoriesAssumption, NEW S, NEW c \in S, NEW ends,
           \A x \in S \ ends : parent[x] \in S
    PROVE  \E up : Walk(up, c, ends, S)
<1> DEFINE N == Cardinality(Cats)
           next == [x \in S |-> IF x \in ends THEN x ELSE parent[x]]
           Up(f) == [n \in 0..N |->
                        IF n = 0 THEN c
                        ELSE IF f[n - 1] \in ends THEN f[n - 1] ELSE parent[f[n - 1]]]
           up == CHOOSE f : f = Up(f)
<1>1. N \in Nat /\ Climb(c, ends) = up[N]
  BY CountIsNat DEF Climb
<1>2. next \in [S -> S]
  OBVIOUS
<1>f. \E f : Follows(f, N, S, c, next)
  <2> HIDE DEF N, next
  <2> QED BY <1>1, <1>2, StepByStep
<1>3. PICK f \in [0..N -> S] : f[0] = c /\ \A n \in 0..N : n # 0 => f[n] = next[f[n - 1]]
  <2> HIDE DEF N, next
  <2> QED BY <1>f DEF Follows
<1>4. \A n \in 0..N : n # 0 =>
        f[n] = IF f[n - 1] \in ends THEN f[n - 1] ELSE parent[f[n - 1]]
  <2> SUFFICES ASSUME NEW n \in 0..N, n # 0
               PROVE  f[n] = IF f[n - 1] \in ends THEN f[n - 1] ELSE parent[f[n - 1]]
    OBVIOUS
  <2>1. n - 1 \in 0..N
    BY <1>1
  <2>2. f[n - 1] \in S
    BY <2>1
  <2> QED BY <1>3, <2>2
<1>5. f = Up(f)
  BY <1>3, <1>4
<1>6. up = Up(up)
  <2> HIDE DEF Up
  <2> QED BY <1>5
<1>7. /\ up = [n \in 0..N |-> up[n]] /\ up[0] = c
      /\ \A n \in 0..N : n # 0 =>
            up[n] = IF up[n - 1] \in ends THEN up[n - 1] ELSE parent[up[n - 1]]
  <2> HIDE DEF up
  <2> QED BY <1>1, <1>6
<1> HIDE DEF up, Up
<1>8. up \in [0..N -> S]
  <2> DEFINE Same == {n \in 0..N : up[n] = f[n]}
  <2> HIDE DEF next
  <2>1. 0 \in Same
    BY <1>1, <1>3, <1>7
  <2>2. ASSUME NEW n \in 0..N, n # 0, n - 1 \in Same PROVE n \in Same
    BY <1>4, <1>7, <2>2
  <2> HIDE DEF Same
  <2>3. 0..N \subseteq Same
    BY <1>1, <2>1, <2>2, CountingUp
  <2>4. \A n \in 0..N : up[n] = f[n]
    BY <2>3 DEF Same
  <2> QED BY <1>3, <1>7, <2>4
<1> QED BY <1>1, <1>7, <1>8 DEF Walk

\* What holds of a category, and above each that is no end, holds where the walk ends.
LEMMA ClimbKeeps ==
    ASSUME CategoriesAssumption, NEW S, NEW c \in S, NEW ends,
           \A x \in S \ ends : parent[x] \in S
    PROVE  Climb(c, ends) \in S
<1>1. Cardinality(Cats) \in 0..Cardinality(Cats)
  BY CountIsNat
<1>2. PICK up : Walk(up, c, ends, S)
  BY ClimbSteps
<1> QED BY <1>1, <1>2 DEF Walk

\* The walk gets to an end: otherwise it would pass more categories than there are.
LEMMA ClimbEnds ==
    ASSUME CategoriesAssumption, Forest, NEW c \in visible, NEW ends, TopLevels \subseteq ends
    PROVE  Climb(c, ends) \in ends
<1> DEFINE N == Cardinality(Cats)
<1>1. N \in Nat
  BY CountIsNat
<1>2. \A x \in visible \ ends : parent[x] \in visible
  BY DEF TopLevels
<1>w. \E up : Walk(up, c, ends, visible)
  BY <1>2, ClimbSteps
<1>3. PICK up \in [0..N -> visible] :
        /\ up[0] = c /\ up[N] = Climb(c, ends)
        /\ \A n \in 0..N : n # 0 =>
            up[n] = IF up[n - 1] \in ends THEN up[n - 1] ELSE parent[up[n - 1]]
  BY <1>w DEF Walk
<1> SUFFICES ASSUME up[N] \notin ends PROVE FALSE
  BY <1>3
<1>4. ASSUME NEW k \in 0..N PROVE up[k] \notin ends
  <2> SUFFICES ASSUME up[k] \in ends PROVE FALSE
    OBVIOUS
  <2> DEFINE After == {n \in 0..N : n < k \/ up[n] \in ends}
  <2>1. 0 \in After
    BY <1>1
  <2>2. ASSUME NEW n \in 0..N, n # 0, n - 1 \in After PROVE n \in After
    <3>1. CASE n < k
      BY <3>1
    <3>2. CASE n = k
      BY <3>2
    <3>3. CASE n > k
      BY <1>3, <2>2, <3>3
    <3> QED BY <1>1, <3>1, <3>2, <3>3
  <2>3. 0..N \subseteq After
    <3> HIDE DEF After
    <3> QED BY <1>1, <2>1, <2>2, CountingUp
  <2>4. N \in After
    BY <1>1, <2>3
  <2> QED BY <1>1, <2>4
<1>5. ASSUME NEW n \in 0..N, n # 0 PROVE up[n] = parent[up[n - 1]]
  <2>1. n - 1 \in 0..N
    BY <1>1, <1>5
  <2> QED BY <1>3, <1>4, <1>5, <2>1
<1> DEFINE Passed(n) == {up[m] : m \in 0..n}
           Many == {n \in 0..N : IsFiniteSet(Passed(n)) /\ Cardinality(Passed(n)) = n + 1}
<1>6. 0 \in Many
  <2>1. Passed(0) = {up[0]}
    OBVIOUS
  <2>2. IsFiniteSet(Passed(0)) /\ Cardinality(Passed(0)) = 1
    BY <2>1, FS_Singleton
  <2> HIDE DEF Passed
  <2> QED BY <1>1, <2>2
<1>7. ASSUME NEW n \in 0..N, n # 0, n - 1 \in Many PROVE n \in Many
  <2>1. Passed(n) = Passed(n - 1) \cup {up[n]}
    <3>1. \A m \in 0..n : m = n \/ m \in 0..(n - 1)
      BY <1>7
    <3>2. \A m \in 0..(n - 1) : m \in 0..n
      BY <1>7
    <3>3. n \in 0..n
      BY <1>7
    <3> QED BY <3>1, <3>2, <3>3
  <2>2. up[n] \notin Passed(n - 1)
    <3> SUFFICES ASSUME up[n] \in Passed(n - 1) PROVE FALSE
      OBVIOUS
    <3>1. ASSUME NEW x \in Passed(n - 1) PROVE parent[x] \in Passed(n - 1)
      <4>1. PICK m \in 0..(n - 1) : x = up[m]
        BY <3>1
      <4>2. m + 1 \in 0..N /\ m + 1 # 0 /\ (m + 1) - 1 = m
        BY <1>1, <1>7, <4>1
      <4>3. parent[x] = up[m + 1]
        BY <1>5, <4>1, <4>2
      <4>4. CASE m + 1 = n
        BY <4>3, <4>4
      <4>5. CASE m + 1 \in 0..(n - 1)
        BY <4>3, <4>5
      <4> QED BY <1>7, <4>1, <4>4, <4>5
    <3>2. Passed(n - 1) \in SUBSET Cats
      <4>1. \A m \in 0..(n - 1) : up[m] \in visible
        BY <1>1, <1>7
      <4> QED BY <4>1 DEF Forest
    <3>3. up[0] \in Passed(n - 1)
      BY <1>7
    <3> HIDE DEF Passed
    <3> QED BY <3>1, <3>2, <3>3 DEF Forest
  <2> HIDE DEF Passed
  <2>3. IsFiniteSet(Passed(n - 1)) /\ Cardinality(Passed(n - 1)) = n
    BY <1>7
  <2>4. IsFiniteSet(Passed(n)) /\ Cardinality(Passed(n)) = n + 1
    BY <2>1, <2>2, <2>3, FS_AddElement
  <2> QED BY <2>4
<1>8. N \in Many
  <2>1. 0..N \subseteq Many
    <3> HIDE DEF Many
    <3> QED BY <1>1, <1>6, <1>7, CountingUp
  <2> QED BY <1>1, <2>1
<1>9. Passed(N) \subseteq Cats
  BY DEF Forest
<1>10. Cardinality(Passed(N)) <= N
  <2> HIDE DEF Passed
  <2> QED BY <1>9, FS_Subset DEF CategoriesAssumption
<1> QED BY <1>1, <1>8, <1>10

\* The walk down.
Descent(down, roots) ==
    /\ down \in [0..Cardinality(Cats) -> SUBSET (roots \cup visible)]
    /\ down[0] = roots /\ down[Cardinality(Cats)] = Descendants(roots)
    /\ \A n \in 0..Cardinality(Cats) : n # 0 =>
        down[n] = down[n - 1] \cup {c \in visible : parent[c] \in down[n - 1]}

\* It exists step by step.
LEMMA DescentSteps ==
    ASSUME CategoriesAssumption, NEW roots
    PROVE  \E down : Descent(down, roots)
<1> DEFINE N == Cardinality(Cats)
           S == SUBSET (roots \cup visible)
           next == [x \in S |-> x \cup {c \in visible : parent[c] \in x}]
           Down(f) == [n \in 0..N |->
                        IF n = 0 THEN roots
                        ELSE f[n - 1] \cup {c \in visible : parent[c] \in f[n - 1]}]
           down == CHOOSE f : f = Down(f)
<1>1. N \in Nat /\ Descendants(roots) = down[N]
  BY CountIsNat DEF Descendants
<1>2. next \in [S -> S] /\ roots \in S
  OBVIOUS
<1>f. \E f : Follows(f, N, S, roots, next)
  <2> HIDE DEF N, S, next
  <2> QED BY <1>1, <1>2, StepByStep
<1>3. PICK f \in [0..N -> S] : f[0] = roots /\ \A n \in 0..N : n # 0 => f[n] = next[f[n - 1]]
  <2> HIDE DEF N, S, next
  <2> QED BY <1>f DEF Follows
<1>4. ASSUME NEW n \in 0..N, n # 0
      PROVE  f[n] = f[n - 1] \cup {c \in visible : parent[c] \in f[n - 1]}
  <2>1. n - 1 \in 0..N
    BY <1>1, <1>4
  <2>2. f[n - 1] \in S
    BY <2>1
  <2> HIDE DEF S
  <2> QED BY <1>3, <1>4, <2>2
<1>5. f = Down(f)
  <2> HIDE DEF S
  <2> QED BY <1>3, <1>4
<1>6. down = Down(down)
  <2> HIDE DEF Down
  <2> QED BY <1>5
<1>7. /\ down = [n \in 0..N |-> down[n]] /\ down[0] = roots
      /\ \A n \in 0..N : n # 0 =>
            down[n] = down[n - 1] \cup {c \in visible : parent[c] \in down[n - 1]}
  <2> HIDE DEF down
  <2> QED BY <1>1, <1>6
<1> HIDE DEF down, Down
<1>8. down \in [0..N -> S]
  <2> DEFINE Same == {n \in 0..N : down[n] = f[n]}
  <2> HIDE DEF S, next
  <2>1. 0 \in Same
    BY <1>1, <1>3, <1>7
  <2>2. ASSUME NEW n \in 0..N, n # 0, n - 1 \in Same PROVE n \in Same
    BY <1>4, <1>7, <2>2
  <2> HIDE DEF Same
  <2>3. 0..N \subseteq Same
    BY <1>1, <2>1, <2>2, CountingUp
  <2>4. \A n \in 0..N : down[n] = f[n]
    BY <2>3 DEF Same
  <2> QED BY <1>3, <1>7, <2>4
<1> QED BY <1>1, <1>7, <1>8 DEF Descent

\* The walk down finds nothing that is not below its roots.
LEMMA DescendantsLeast ==
    ASSUME CategoriesAssumption, NEW roots, NEW S, roots \subseteq S,
           \A c \in visible : parent[c] \in S => c \in S
    PROVE  Descendants(roots) \subseteq S
<1> DEFINE N == Cardinality(Cats)
<1>1. N \in Nat
  BY CountIsNat
<1>2. PICK down \in [0..N -> SUBSET (roots \cup visible)] :
        /\ down[0] = roots /\ down[N] = Descendants(roots)
        /\ \A n \in 0..N : n # 0 =>
            down[n] = down[n - 1] \cup {c \in visible : parent[c] \in down[n - 1]}
  <2>1. \E down : Descent(down, roots)
    BY DescentSteps
  <2> QED BY <2>1 DEF Descent
<1> DEFINE Inside == {n \in 0..N : down[n] \subseteq S}
<1>3. 0 \in Inside
  BY <1>1, <1>2
<1>4. ASSUME NEW n \in 0..N, n # 0, n - 1 \in Inside PROVE n \in Inside
  BY <1>2, <1>4
<1>5. 0..N \subseteq Inside
  <2> HIDE DEF Inside
  <2> QED BY <1>1, <1>3, <1>4, CountingUp
<1> QED BY <1>1, <1>2, <1>5

\* It finds all that is below them: it grows with each step until nothing is left.
LEMMA DescendantsClosed ==
    ASSUME CategoriesAssumption, Forest, NEW roots \in SUBSET Cats
    PROVE  /\ roots \subseteq Descendants(roots) /\ Descendants(roots) \subseteq roots \cup visible
           /\ \A c \in visible : parent[c] \in Descendants(roots) => c \in Descendants(roots)
<1> DEFINE N == Cardinality(Cats)
<1>1. N \in Nat /\ IsFiniteSet(Cats) /\ visible \subseteq Cats
  BY CountIsNat DEF CategoriesAssumption, Forest
<1>2. PICK down \in [0..N -> SUBSET (roots \cup visible)] :
        /\ down[0] = roots /\ down[N] = Descendants(roots)
        /\ \A n \in 0..N : n # 0 =>
            down[n] = down[n - 1] \cup {c \in visible : parent[c] \in down[n - 1]}
  <2>1. \E down : Descent(down, roots)
    BY DescentSteps
  <2> QED BY <2>1 DEF Descent
<1>3. \A n \in 0..N : down[n] \subseteq Cats /\ IsFiniteSet(down[n]) /\ Cardinality(down[n]) \in Nat
  <2> SUFFICES ASSUME NEW n \in 0..N
               PROVE  down[n] \subseteq Cats /\ IsFiniteSet(down[n]) /\ Cardinality(down[n]) \in Nat
    OBVIOUS
  <2>1. down[n] \subseteq Cats
    BY <1>1, <1>2
  <2> QED BY <1>1, <2>1, FS_Subset, FS_CardinalityType
<1> DEFINE Closed(x) == \A c \in visible : parent[c] \in x => c \in x
           Good == {n \in 0..N : /\ roots \subseteq down[n]
                                 /\ Closed(down[n]) \/ Cardinality(down[n]) >= n}
<1>4. 0 \in Good
  <2>1. 0 \in 0..N /\ Cardinality(down[0]) \in Nat
    BY <1>1, <1>3
  <2> HIDE DEF Closed
  <2> QED BY <1>2, <2>1
<1>5. ASSUME NEW n \in 0..N, n # 0, n - 1 \in Good PROVE n \in Good
  <2>1. n - 1 \in 0..N /\ roots \subseteq down[n - 1]
        /\ (Closed(down[n - 1]) \/ Cardinality(down[n - 1]) >= n - 1)
    BY <1>5
  <2>2. down[n] = down[n - 1] \cup {c \in visible : parent[c] \in down[n - 1]}
    BY <1>2, <1>5
  <2>3. CASE Closed(down[n - 1])
    <3>1. down[n] = down[n - 1]
      BY <2>2, <2>3
    <3> HIDE DEF Closed
    <3> QED BY <2>1, <2>3, <3>1
  <2>4. CASE ~Closed(down[n - 1])
    <3>1. PICK c \in visible : c \in down[n] /\ c \notin down[n - 1]
      BY <2>2, <2>4
    <3> HIDE DEF Closed
    <3>a. IsFiniteSet(down[n - 1])
      BY <1>3, <2>1
    <3>2. Cardinality(down[n - 1] \cup {c}) = Cardinality(down[n - 1]) + 1
      BY <3>a, <3>1, FS_AddElement
    <3>3. down[n - 1] \cup {c} \subseteq down[n]
      BY <2>2, <3>1
    <3>4. Cardinality(down[n - 1] \cup {c}) <= Cardinality(down[n])
      BY <1>3, <3>3, FS_Subset
    <3>5. Cardinality(down[n]) >= n
      BY <1>3, <2>1, <2>4, <3>2, <3>4
    <3> QED BY <2>1, <2>2, <3>5
  <2> QED BY <2>3, <2>4
<1>6. N \in Good
  <2>1. 0..N \subseteq Good
    <3> HIDE DEF Good
    <3> QED BY <1>1, <1>4, <1>5, CountingUp
  <2> QED BY <1>1, <2>1
<1>7. Closed(down[N])
  <2>1. CASE Cardinality(down[N]) >= N
    <3>1. N \in 0..N /\ down[N] \subseteq Cats /\ Cardinality(down[N]) <= N
      BY <1>1, <1>3, FS_Subset
    <3>2. down[N] = Cats
      BY <1>1, <1>3, <2>1, <3>1, FS_Subset
    <3> QED BY <1>1, <3>2
  <2> HIDE DEF Closed
  <2> QED BY <1>6, <2>1
<1> QED BY <1>1, <1>2, <1>6, <1>7

\* What the walk down finds is a root, or right below what it finds.
LEMMA DescendantsInverse ==
    ASSUME CategoriesAssumption, Forest, NEW roots \in SUBSET Cats, NEW c \in Descendants(roots)
    PROVE  c \in roots \/ (c \in visible /\ parent[c] \in Descendants(roots))
<1> DEFINE S == {x \in Descendants(roots) :
                    x \in roots \/ (x \in visible /\ parent[x] \in Descendants(roots))}
<1>1. roots \subseteq S /\ \A x \in visible : parent[x] \in S => x \in S
  BY DescendantsClosed
<1>2. Descendants(roots) \subseteq S
  <2> HIDE DEF S
  <2> QED BY <1>1, DescendantsLeast
<1> QED BY <1>2

\* More roots have more below them.
LEMMA DescendantsGrow ==
    ASSUME CategoriesAssumption, Forest, NEW roots \in SUBSET Cats, NEW more \in SUBSET Cats,
           roots \subseteq Descendants(more)
    PROVE  Descendants(roots) \subseteq Descendants(more)
  BY DescendantsClosed, DescendantsLeast

\* A category is not below two of which neither is below the other.
LEMMA OneAbove ==
    ASSUME CategoriesAssumption, Forest, NEW a \in visible, NEW b \in visible,
           parent[a] \notin Descendants({b}), parent[b] \notin Descendants({a}),
           NEW c \in Descendants({a}), c \in Descendants({b})
    PROVE  a = b
<1>1. {a} \in SUBSET Cats /\ {b} \in SUBSET Cats
  BY DEF Forest
<1> DEFINE S == {x \in Descendants({b}) : x \in Descendants({a}) => a = b}
<1>2. b \in S
  <2>1. b \in Descendants({b})
    BY <1>1, DescendantsClosed
  <2>2. ASSUME b \in Descendants({a}) PROVE a = b
    BY <1>1, <2>2, DescendantsInverse
  <2> QED BY <2>1, <2>2
<1>3. ASSUME NEW x \in visible, parent[x] \in S PROVE x \in S
  <2>1. x \in Descendants({b})
    BY <1>1, <1>3, DescendantsClosed
  <2>2. ASSUME x \in Descendants({a}) PROVE a = b
    <3>1. x = a \/ parent[x] \in Descendants({a})
      BY <1>1, <2>2, DescendantsInverse
    <3> QED BY <1>3, <3>1
  <2> QED BY <2>1, <2>2
<1>4. Descendants({b}) \subseteq S
  <2>1. {b} \subseteq S
    BY <1>2
  <2> HIDE DEF S
  <2> QED BY <1>3, <2>1, DescendantsLeast
<1> QED BY <1>4

\* A category is below where the walk up from it ends.
LEMMA ClimbIsAbove ==
    ASSUME CategoriesAssumption, Forest, NEW c \in visible, NEW ends, TopLevels \subseteq ends
    PROVE  /\ Climb(c, ends) \in visible /\ Climb(c, ends) \in ends
           /\ c \in Descendants({Climb(c, ends)})
<1> DEFINE S == {x \in visible : c \in Descendants({x})}
<1>1. c \in S
  <2>1. {c} \in SUBSET Cats
    BY DEF Forest
  <2> QED BY <2>1, DescendantsClosed
<1>2. ASSUME NEW x \in S \ ends PROVE parent[x] \in S
  <2>1. parent[x] \in visible
    BY DEF TopLevels
  <2>2. {x} \in SUBSET Cats /\ {parent[x]} \in SUBSET Cats
    BY <2>1 DEF Forest
  <2>3. {x} \subseteq Descendants({parent[x]})
    BY <2>2, DescendantsClosed
  <2>4. Descendants({x}) \subseteq Descendants({parent[x]})
    BY <2>2, <2>3, DescendantsGrow
  <2> QED BY <2>1, <2>4
<1>3. Climb(c, ends) \in S
  <2> HIDE DEF S
  <2> QED BY <1>1, <1>2, ClimbKeeps
<1> QED BY <1>3, ClimbEnds

\* What is below visible categories is visible.
LEMMA DescendantsVisible ==
    ASSUME CategoriesAssumption, Forest, NEW roots \in SUBSET visible
    PROVE  Descendants(roots) \subseteq visible
<1>1. roots \in SUBSET Cats
  BY DEF Forest
<1> QED BY <1>1, DescendantsClosed

\* The top-level category of one is the only one from which it is below.
LEMMA TopLevelIsTop ==
    ASSUME CategoriesAssumption, Forest, NEW c \in visible
    PROVE  /\ TopLevel(c) \in TopLevels
           /\ \A t \in TopLevels : c \in Descendants({t}) <=> TopLevel(c) = t
<1>1. TopLevel(c) \in TopLevels /\ TopLevel(c) \in visible /\ c \in Descendants({TopLevel(c)})
  BY ClimbIsAbove DEF TopLevel
<1>2. ASSUME NEW t \in TopLevels, NEW u \in TopLevels PROVE parent[t] \notin Descendants({u})
  <2>1. u \in visible /\ parent[t] \notin visible
    BY DEF TopLevels
  <2> QED BY <2>1, DescendantsVisible
<1>3. \A t \in TopLevels : t \in visible
  BY DEF TopLevels
<1> QED BY <1>1, <1>2, <1>3, OneAbove

\* What is below a top-level category is below one right below it, which the walk
\* up finds.
LEMMA DirectChildIsAbove ==
    ASSUME CategoriesAssumption, Forest, NEW t \in TopLevels, NEW c \in Descendants({t}), c # t
    PROVE  /\ DirectChild(c, t) \in Children(t)
           /\ \A d \in Children(t) : c \in Descendants({d}) <=> DirectChild(c, t) = d
<1>1. t \in visible /\ parent[t] \notin visible /\ {t} \in SUBSET Cats
  BY DEF TopLevels, Forest
<1>2. c \in visible
  BY <1>1, DescendantsVisible
<1> DEFINE e == DirectChild(c, t)
           ends == TopLevels \cup Children(t)
<1>3. e \in visible /\ e \in ends /\ c \in Descendants({e})
  BY <1>2, ClimbIsAbove DEF DirectChild
<1>4. e # t
  <2> DEFINE S == visible \ {t}
  <2>1. c \in S
    BY <1>2
  <2>2. \A x \in S \ ends : parent[x] \in S
    BY DEF TopLevels, Children
  <2> HIDE DEF S, ends
  <2>3. Climb(c, ends) \in S
    BY <2>1, <2>2, ClimbKeeps
  <2> QED BY <2>3 DEF DirectChild, S, ends
<1> HIDE DEF e
<1>5. e \in Children(t)
  <2>1. CASE e \in TopLevels
    <3>1. TopLevel(c) = t /\ TopLevel(c) = e
      BY <1>2, <1>3, <2>1, TopLevelIsTop
    <3> QED BY <1>4, <3>1
  <2> QED BY <1>3, <2>1
<1>6. ASSUME NEW d \in Children(t)
      PROVE  d \in visible /\ parent[d] = t /\ t \notin Descendants({d})
  <2>1. d \in visible /\ parent[d] = t /\ {d} \in SUBSET Cats
    BY DEF Children, Forest
  <2>2. Descendants({d}) \subseteq visible
    BY <2>1, DescendantsVisible
  <2>3. t # d
    BY <1>1, <2>1
  <2> QED BY <1>1, <2>1, <2>2, <2>3, DescendantsInverse
<1>7. \A d \in Children(t) : c \in Descendants({d}) <=> e = d
  BY <1>3, <1>5, <1>6, OneAbove
<1> QED BY <1>5, <1>7 DEF e

-----------------------------------------------------------------------------
(* The views.                                                              *)

\* A category right below a top-level one has that one above it, not below.
LEMMA ChildrenAreBelow ==
    ASSUME CategoriesAssumption, Forest, NEW t \in TopLevels, NEW d \in Children(t)
    PROVE  /\ d \in visible /\ parent[d] = t /\ d # t
           /\ Descendants({d}) \subseteq Descendants({t}) /\ t \notin Descendants({d})
<1>1. /\ d \in visible /\ parent[d] = t /\ {d} \in SUBSET Cats /\ {t} \in SUBSET Cats
      /\ t \in visible /\ parent[t] \notin visible
  BY DEF Children, TopLevels, Forest
<1>2. {d} \subseteq Descendants({t})
  BY <1>1, DescendantsClosed
<1>3. Descendants({d}) \subseteq visible
  BY <1>1, DescendantsVisible
<1>4. d # t
  BY <1>1
<1> QED BY <1>1, <1>2, <1>3, <1>4, DescendantsGrow, DescendantsInverse

\* A row of the drill-down is for a category and all below it.
LEMMA RowIsSubtree ==
    ASSUME CategoriesAssumption, Forest, NEW t \in TopLevels, NEW d \in Children(t), NEW k
    PROVE  k \in Descendants({t}) /\ DirectChild(k, t) = d <=> k \in Descendants({d})
<1>1. d # t /\ Descendants({d}) \subseteq Descendants({t}) /\ t \notin Descendants({d})
  BY ChildrenAreBelow
<1>2. DirectChild(t, t) = t
  <2> DEFINE S == {t}
             ends == TopLevels \cup Children(t)
  <2>1. t \in S /\ \A x \in S \ ends : parent[x] \in S
    OBVIOUS
  <2> HIDE DEF S, ends
  <2>2. Climb(t, ends) \in S
    BY <2>1, ClimbKeeps
  <2> QED BY <2>2 DEF S, ends, DirectChild
<1>3. CASE k = t
  BY <1>1, <1>2, <1>3
<1>4. CASE k # t
  BY <1>1, <1>4, DirectChildIsAbove
<1> QED BY <1>3, <1>4

\* What the breakdown shows for a visible category is what is listed for it, if it
\* is a top-level one, and what is right below it.
LEMMA SummaryAgrees ==
    ASSUME CategoriesAssumption, Given, Answered, NEW c \in visible
    PROVE  Shown(c) = Own(c) \cup Below(c, FALSE) \cup Below(c, TRUE)
<1>1. c \in Cats /\ c # None
  BY DEF Given, Forest, CategoriesAssumption
<1>2. \A i \in Scope : i \in Items /\ items[i].cat \in Cats \cup {None}
  BY DEF Scope, Given
<1>3. Shown(c) = {i \in Scope : items[i].cat # None /\ RolledUp(items[i].cat) = c}
  <2> DEFINE counted == {i \in Scope : items[i].cat # None}
  <2>1. answer.breakdown = [k \in {RolledUp(items[i].cat) : i \in counted} |->
                                {i \in counted : RolledUp(items[i].cat) = k}]
    BY DEF Answered, Views, Summary
  <2>2. c \in DOMAIN answer.breakdown <=> \E i \in counted : RolledUp(items[i].cat) = c
    BY <2>1
  <2>3. c \in DOMAIN answer.breakdown =>
            answer.breakdown[c] = {i \in counted : RolledUp(items[i].cat) = c}
    BY <2>1
  <2> QED BY <2>2, <2>3 DEF Shown
<1>4. Own(c) = {i \in Scope : items[i].cat = c /\ parent[c] = None}
  <2>1. answer.listed[c] = {i \in Scope : items[i].cat = c}
    BY DEF Answered, Views, Listed
  <2> QED BY <2>1 DEF Own
<1>5. Below(c, FALSE) \cup Below(c, TRUE) =
        {i \in Scope : items[i].cat \in Cats /\ parent[items[i].cat] = c}
  <2>1. ASSUME NEW e \in Cats, parent[e] = c
        PROVE  answer.bySub[e] = {i \in Scope : items[i].cat = e}
    BY <1>1, <2>1 DEF Answered, Views, BySubcategory, CategoriesAssumption
  <2>2. Below(c, FALSE) = UNION {answer.bySub[e] : e \in {d \in Cats : parent[d] = c /\ d \in visible}}
    BY DEF Below
  <2>3. Below(c, TRUE) = UNION {answer.bySub[e] : e \in {d \in Cats : parent[d] = c /\ d \notin visible}}
    BY DEF Below
  <2>4. ASSUME NEW i \in Below(c, FALSE) \cup Below(c, TRUE)
        PROVE  i \in Scope /\ items[i].cat \in Cats /\ parent[items[i].cat] = c
    <3>1. PICK e \in Cats : parent[e] = c /\ i \in answer.bySub[e]
      BY <2>2, <2>3
    <3> QED BY <2>1, <3>1
  <2>5. ASSUME NEW i \in Scope, items[i].cat \in Cats, parent[items[i].cat] = c
        PROVE  i \in Below(c, FALSE) \cup Below(c, TRUE)
    <3>1. i \in answer.bySub[items[i].cat]
      BY <2>1, <2>5
    <3> QED BY <2>2, <2>3, <2>5, <3>1
  <2> QED BY <2>4, <2>5
<1>6. \A k \in Cats : RolledUp(k) = c <=> (k = c /\ parent[c] = None) \/ parent[k] = c
  BY <1>1 DEF RolledUp
<1>7. \A i \in Scope : items[i].cat # None /\ RolledUp(items[i].cat) = c <=>
        (items[i].cat = c /\ parent[c] = None) \/ (items[i].cat \in Cats /\ parent[items[i].cat] = c)
  BY <1>1, <1>2, <1>6 DEF CategoriesAssumption
<1>8. Shown(c) = Own(c) \cup (Below(c, FALSE) \cup Below(c, TRUE))
  BY <1>3, <1>4, <1>5, <1>7, Zenon
<1> QED BY <1>8

\* A row of the drill-down is what is listed for its category and all below.
LEMMA RowAgrees ==
    ASSUME CategoriesAssumption, Given, Answered, NEW t \in TopLevels, NEW d \in Children(t)
    PROVE  /\ answer.drill[t][d] = {i \in Scope : items[i].cat \in Descendants({d})}
           /\ answer.drill[t][d] = UNION {answer.listed[c] : c \in Descendants({d})}
<1>1. answer.drill[t] = DrillDown(t)
  BY DEF Answered, Views
<1>2. answer.drill[t][d] =
        {i \in Scope : items[i].cat \in Descendants({t}) /\ DirectChild(items[i].cat, t) = d}
  BY <1>1 DEF DrillDown
<1>3. \A k : k \in Descendants({t}) /\ DirectChild(k, t) = d <=> k \in Descendants({d})
  BY RowIsSubtree DEF Given
<1>4. answer.drill[t][d] = {i \in Scope : items[i].cat \in Descendants({d})}
  BY <1>2, <1>3
<1>5. Descendants({d}) \subseteq visible
  BY DescendantsVisible DEF Children, Given
<1>6. \A c \in Descendants({d}) : answer.listed[c] = {i \in Scope : items[i].cat = c}
  BY <1>5 DEF Answered, Views, Listed
<1>7. UNION {answer.listed[c] : c \in Descendants({d})}
        = {i \in Scope : items[i].cat \in Descendants({d})}
  <2> DEFINE Tree == Descendants({d})
  <2>1. ASSUME NEW c \in Tree, NEW i \in answer.listed[c]
        PROVE  i \in Scope /\ items[i].cat \in Tree
    BY <1>6
  <2>2. ASSUME NEW i \in Scope, items[i].cat \in Tree
        PROVE  i \in answer.listed[items[i].cat]
    BY <1>6, <2>2
  <2> HIDE DEF Tree
  <2>3. UNION {answer.listed[c] : c \in Tree} = {i \in Scope : items[i].cat \in Tree}
    BY <2>1, <2>2
  <2> QED BY <2>3 DEF Tree
<1> QED BY <1>4, <1>7

\* All of a tree is the same in the breakdown and the drill-down, except what is
\* hidden below it.
LEMMA TreeAgrees ==
    ASSUME CategoriesAssumption, Given, Answered, NEW t \in TopLevels
    PROVE  UNION {Shown(c) : c \in Descendants({t})} =
                Own(t) \cup (UNION {answer.drill[t][d] : d \in Children(t)})
                \cup (UNION {Below(c, TRUE) : c \in Descendants({t})})
<1> DEFINE Tree == Descendants({t})
           rows == UNION {answer.drill[t][d] : d \in Children(t)}
<1>1. t \in visible /\ t \in Cats /\ {t} \in SUBSET Cats /\ visible \subseteq Cats /\ None \notin Cats
  BY DEF TopLevels, Given, Forest, CategoriesAssumption
<1>2. t \in Tree /\ Tree \subseteq visible
  BY <1>1, DescendantsClosed, DescendantsVisible DEF Given
<1>3. \A k : k \in Tree /\ k # t <=> k \in visible /\ parent[k] \in Tree
  <2>1. ASSUME NEW k \in Tree, k # t PROVE k \in visible /\ parent[k] \in Tree
    BY <1>1, <2>1, DescendantsInverse DEF Given
  <2>2. ASSUME NEW k \in visible, parent[k] \in Tree PROVE k \in Tree /\ k # t
    <3>1. k \in Tree
      BY <1>1, <2>2, DescendantsClosed DEF Given
    <3>2. parent[t] \notin Tree
      BY <1>2 DEF TopLevels
    <3> QED BY <2>2, <3>1, <3>2
  <2> QED BY <2>1, <2>2
<1>4. ASSUME NEW c \in Tree, c # t PROVE Own(c) = {}
  <2>1. parent[c] # None
    BY <1>1, <1>2, <1>3, <1>4
  <2> QED BY <2>1 DEF Own
<1>5. rows = {i \in Scope : items[i].cat \in Tree /\ items[i].cat # t}
  <2>1. ASSUME NEW d \in Children(t)
        PROVE  /\ answer.drill[t][d] = {i \in Scope : items[i].cat \in Descendants({d})}
               /\ \A k \in Descendants({d}) : k \in Tree /\ k # t
    <3>1. answer.drill[t][d] = {i \in Scope : items[i].cat \in Descendants({d})}
      BY RowAgrees
    <3>2. Descendants({d}) \subseteq Tree /\ t \notin Descendants({d})
      BY ChildrenAreBelow DEF Given
    <3> QED BY <3>1, <3>2
  <2>2. ASSUME NEW k \in Tree, k # t
        PROVE  \E d \in Children(t) : k \in Descendants({d})
    <3>1. DirectChild(k, t) \in Children(t) /\ k \in Descendants({DirectChild(k, t)})
      BY <2>2, DirectChildIsAbove DEF Given
    <3> QED BY <3>1
  <2> HIDE DEF Tree
  <2>3. ASSUME NEW i \in rows PROVE i \in Scope /\ items[i].cat \in Tree /\ items[i].cat # t
    <3>1. PICK d \in Children(t) : i \in answer.drill[t][d]
      OBVIOUS
    <3> QED BY <2>1, <3>1
  <2>4. ASSUME NEW i \in Scope, items[i].cat \in Tree, items[i].cat # t PROVE i \in rows
    <3>1. PICK d \in Children(t) : items[i].cat \in Descendants({d})
      BY <2>2, <2>4
    <3>2. i \in answer.drill[t][d]
      BY <2>1, <3>1
    <3> QED BY <3>2
  <2> HIDE DEF rows
  <2> QED BY <2>3, <2>4
<1>6. ASSUME NEW c \in Tree
      PROVE  Below(c, FALSE) = {i \in Scope : items[i].cat \in visible /\ parent[items[i].cat] = c}
  <2>1. c # None
    BY <1>1, <1>2
  <2>2. ASSUME NEW e \in visible, parent[e] = c
        PROVE  answer.bySub[e] = {i \in Scope : items[i].cat = e}
    BY <1>1, <2>1, <2>2 DEF Answered, Views, BySubcategory
  <2>3. Below(c, FALSE) = UNION {answer.bySub[e] : e \in {d \in visible : parent[d] = c}}
    <3>1. {e \in Cats : parent[e] = c /\ (e \in visible <=> ~FALSE)} = {d \in visible : parent[d] = c}
      BY <1>1
    <3> QED BY <3>1 DEF Below
  <2>4. ASSUME NEW i \in Below(c, FALSE)
        PROVE  i \in Scope /\ items[i].cat \in visible /\ parent[items[i].cat] = c
    <3>1. PICK e \in visible : parent[e] = c /\ i \in answer.bySub[e]
      BY <2>3
    <3> QED BY <2>2, <3>1
  <2>5. ASSUME NEW i \in Scope, items[i].cat \in visible, parent[items[i].cat] = c
        PROVE  i \in Below(c, FALSE)
    <3>1. i \in answer.bySub[items[i].cat]
      BY <2>2, <2>5
    <3> QED BY <2>3, <2>5, <3>1
  <2> HIDE DEF Tree, rows
  <2> QED BY <2>4, <2>5
<1> HIDE DEF Tree, rows
<1>7. \A x : x \in rows <=> \E c \in Tree : x \in Below(c, FALSE)
  <2>1. ASSUME NEW x \in rows PROVE \E c \in Tree : x \in Below(c, FALSE)
    <3>1. x \in Scope /\ items[x].cat \in visible /\ parent[items[x].cat] \in Tree
      BY <1>3, <1>5
    <3> QED BY <1>6, <3>1
  <2>2. ASSUME NEW c \in Tree, NEW x \in Below(c, FALSE) PROVE x \in rows
    <3>1. x \in Scope /\ items[x].cat \in visible /\ parent[items[x].cat] = c
      BY <1>6
    <3> QED BY <1>3, <1>5, <3>1
  <2> QED BY <2>1, <2>2
<1>8. \A c \in Tree : Shown(c) = Own(c) \cup Below(c, FALSE) \cup Below(c, TRUE)
  BY <1>2, SummaryAgrees
<1>9. UNION {Shown(c) : c \in Tree} = Own(t) \cup rows \cup (UNION {Below(c, TRUE) : c \in Tree})
  <2>1. ASSUME NEW x, NEW c \in Tree, x \in Shown(c)
        PROVE  x \in Own(t) \cup rows \cup (UNION {Below(k, TRUE) : k \in Tree})
    BY <1>4, <1>7, <1>8, <2>1
  <2>2. ASSUME NEW x \in Own(t) \cup rows \cup (UNION {Below(c, TRUE) : c \in Tree})
        PROVE  \E c \in Tree : x \in Shown(c)
    <3>1. CASE x \in Own(t)
      BY <1>2, <1>8, <3>1
    <3>2. CASE x \in rows
      BY <1>7, <1>8, <3>2
    <3>3. CASE x \in UNION {Below(c, TRUE) : c \in Tree}
      BY <1>8, <3>3
    <3> QED BY <2>2, <3>1, <3>2, <3>3
  <2> QED BY <2>1, <2>2
<1> QED BY <1>9 DEF Tree, rows

\* The visible categories below those of a filter are those of their trees.
LEMMA WantedIsTrees ==
    ASSUME CategoriesAssumption, Given
    PROVE  /\ Requested \subseteq TopLevels /\ Requested \subseteq Wanted
           /\ \A k : k \in Wanted <=> k \in visible /\ TopLevel(k) \in Requested
<1>1. Requested \subseteq TopLevels
  BY TopLevelIsTop DEF Requested, Given
<1>2. Requested \in SUBSET visible /\ Requested \in SUBSET Cats
  BY <1>1 DEF TopLevels, Given, Forest
<1>3. Wanted = Descendants(Requested)
  BY DEF Wanted
<1> DEFINE S == {k \in visible : TopLevel(k) \in Requested}
<1> HIDE DEF Requested
<1>4. Requested \subseteq S
  <2> SUFFICES ASSUME NEW t \in Requested PROVE t \in S
    OBVIOUS
  <2>1. t \in visible /\ t \in TopLevels /\ {t} \in SUBSET Cats
    BY <1>1, <1>2
  <2>2. t \in Descendants({t})
    BY <2>1, DescendantsClosed DEF Given
  <2> QED BY <2>1, <2>2, TopLevelIsTop DEF Given
<1>5. ASSUME NEW x \in visible, parent[x] \in S PROVE x \in S
  <2> DEFINE t == TopLevel(parent[x])
  <2>1. parent[x] \in visible /\ t \in Requested /\ t \in TopLevels /\ {t} \in SUBSET Cats
    BY <1>1, <1>2, <1>5
  <2>2. parent[x] \in Descendants({t})
    BY <2>1, TopLevelIsTop DEF Given
  <2> HIDE DEF t
  <2>3. x \in Descendants({t})
    BY <2>1, <2>2, DescendantsClosed DEF Given
  <2>4. TopLevel(x) = t
    BY <2>1, <2>3, TopLevelIsTop DEF Given
  <2> QED BY <2>1, <2>4
<1>6. Wanted \subseteq S
  <2> HIDE DEF S
  <2> QED BY <1>3, <1>4, <1>5, DescendantsLeast
<1>7. Requested \subseteq Wanted
  BY <1>2, <1>3, DescendantsClosed DEF Given
<1>8. ASSUME NEW k \in S PROVE k \in Wanted
  <2> DEFINE t == TopLevel(k)
  <2>1. k \in visible /\ t \in Requested /\ t \in TopLevels /\ {t} \in SUBSET Cats
    BY <1>1, <1>2
  <2>2. k \in Descendants({t})
    BY <2>1, TopLevelIsTop DEF Given
  <2> HIDE DEF t
  <2>3. {t} \subseteq Descendants(Requested)
    BY <1>3, <1>7, <2>1
  <2>4. Descendants({t}) \subseteq Descendants(Requested)
    BY <1>2, <2>1, <2>3, DescendantsGrow DEF Given
  <2> QED BY <1>3, <2>2, <2>4
<1> QED BY <1>1, <1>6, <1>7, <1>8

\* What a filter lets through is what its categories and those below them have.
LEMMA FilterAgrees ==
    ASSUME CategoriesAssumption, Given, Answered, Requested # {}, WantedSubs = {}
    PROVE  UNION {answer.breakdown[c] : c \in DOMAIN answer.breakdown}
           = {i \in Items : items[i].cat \in visible /\ TopLevel(items[i].cat) \in Requested}
<1>1. UNION {answer.breakdown[c] : c \in DOMAIN answer.breakdown}
        = {i \in Scope : items[i].cat # None}
  <2> DEFINE counted == {i \in Scope : items[i].cat # None}
  <2>1. answer.breakdown = [c \in {RolledUp(items[i].cat) : i \in counted} |->
                                {i \in counted : RolledUp(items[i].cat) = c}]
    BY DEF Answered, Views, Summary
  <2> QED BY <2>1
<1>2. visible \subseteq Cats /\ None \notin Cats
  BY DEF Given, Forest, CategoriesAssumption
<1>3. ASSUME NEW k
      PROVE  k \in Wanted <=> k \in visible /\ TopLevel(k) \in Requested
  BY WantedIsTrees
<1>4. \A i \in Items : items[i].cat \in Wanted => items[i].tx \in Filtered
  BY DEF Filtered, HasItem, Given
<1>5. Wanted # {}
  BY WantedIsTrees
<1>6. Scope = {i \in Items : items[i].cat \in Wanted}
  BY <1>4, <1>5 DEF Scope
<1> QED BY <1>1, <1>2, <1>3, <1>6

\* The invariant gives the property and the types of the answer.
LEMMA InvariantSuffices ==
    ASSUME CategoriesAssumption, IInv PROVE TypeOK /\ DrillDownAgrees
<1>1. DrillDownAgrees
  BY SummaryAgrees, RowAgrees, TreeAgrees, FilterAgrees DEF IInv, DrillDownAgrees
<1>2. ASSUME Answered
      PROVE  /\ DOMAIN answer.breakdown \subseteq Cats
             /\ answer.bySub \in [{c \in Cats : parent[c] # None} -> SUBSET Items]
             /\ DOMAIN answer.drill = TopLevels
             /\ \A t \in TopLevels : answer.drill[t] \in [Children(t) -> SUBSET Items]
             /\ answer.listed \in [visible -> SUBSET Items]
  <2>1. DOMAIN answer.breakdown \subseteq Cats
    <3>1. \A i \in Scope : items[i].cat # None => items[i].cat \in Cats
      BY DEF IInv, Given, Scope
    <3>2. \A k \in Cats : RolledUp(k) \in Cats
      BY DEF RolledUp, IInv, Given, Forest
    <3> QED BY <1>2, <3>1, <3>2 DEF Answered, Views, Summary
  <2> QED BY <1>2, <2>1 DEF Answered, Views, BySubcategory, DrillDown, Listed, Scope
<1>3. TypeOK
  BY <1>2 DEF IInv, Given, Forest, TypeOK
<1> QED BY <1>1, <1>3

-----------------------------------------------------------------------------
(* The theorems.                                                           *)

\* Trees at first, and no answer.
LEMMA InitHolds == ASSUME Init PROVE IInv
  BY DEF Init, Roots, IInv, Given, Forest

\* The views are of what does not change.
LEMMA ViewsStay ==
    ASSUME UNCHANGED <<parent, visible, items, header, request>>
    PROVE  Views' = Views
BY DEF Views, Summary, BySubcategory, DrillDown, Listed, Scope, Filtered, Wanted, WantedSubs,
       Requested, HasItem, Descendants, DirectChild, TopLevel, Climb, Children, TopLevels, RolledUp

\* The only step answers.
LEMMA NextKept == ASSUME IInv, [Next]_vars PROVE IInv'
<1>1. UNCHANGED <<parent, visible, items, header, request>>
  BY DEF Next, Answer, vars
<1>2. Given'
  BY <1>1 DEF IInv, Given, Forest
<1>3. CASE UNCHANGED vars
  <2>1. Answered => Answered'
    BY <1>1, <1>3, ViewsStay DEF vars, Answered
  <2> QED BY <1>2, <1>3, <2>1 DEF vars, IInv
<1>4. CASE Answer
  <2>1. Answered'
    <3>1. answer' = Views
      BY <1>4 DEF Answer, Views
    <3> QED BY <1>1, <3>1, ViewsStay DEF Answered
  <2> QED BY <1>2, <2>1 DEF IInv
<1> QED BY <1>3, <1>4 DEF Next

\* The tree, the items and the answer have their types.
THEOREM BreakdownTypes == ASSUME CategoriesAssumption PROVE Spec => []TypeOK
<1>1. Init => IInv
  BY InitHolds
<1>2. IInv /\ [Next]_vars => IInv'
  BY NextKept
<1>3. IInv => TypeOK
  BY InvariantSuffices
<1> QED BY <1>1, <1>2, <1>3, PTL DEF Spec

\* However deep the trees are, and whatever is hidden, filtered and filed where, the
\* breakdown, the views below it and the lists of items show the same spending.
THEOREM DrillDownTheorem == ASSUME CategoriesAssumption PROVE Spec => []DrillDownAgrees
<1>1. Init => IInv
  BY InitHolds
<1>2. IInv /\ [Next]_vars => IInv'
  BY NextKept
<1>3. IInv => DrillDownAgrees
  BY InvariantSuffices
<1> QED BY <1>1, <1>2, <1>3, PTL DEF Spec

=============================================================================
