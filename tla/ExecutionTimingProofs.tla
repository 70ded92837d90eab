------------------------ MODULE ExecutionTimingProofs ------------------------
(***************************************************************************)
(* What holds of planned starts, miss windows and gates for every timing:  *)
(* the lemmas that the proofs about a series of beats need.                *)
(***************************************************************************)
EXTENDS ExecutionTiming, NaturalsInduction, WellFoundedInduction, TLAPS

\* A nonempty set of naturals has a least element.
LEMMA Least ==
  ASSUME NEW S, S \subseteq Nat, S # {}
  PROVE  Min(S) \in S /\ \A y \in S : Min(S) <= y
<1>1. \E x \in S : \A y \in S : ~(<<y, x>> \in OpToRel(<, Nat))
  BY NatLessThanWellFounded, WFMin
<1>2. PICK x \in S : \A y \in S : ~(<<y, x>> \in OpToRel(<, Nat))
  BY <1>1
<1>3. \A y \in S : x <= y
  <2> SUFFICES ASSUME NEW y \in S, y < x PROVE FALSE
    OBVIOUS
  <2> QED BY <1>2 DEF OpToRel
<1> QED BY <1>3 DEF Min

\* The next fire of a cron expression is later, and there is none before it.
LEMMA NextFire ==
  ASSUME NEW fires \in SUBSET Nat, NEW a \in Nat
  PROVE  \/ CronNextAfter(fires, a) = None
         \/ CronNextAfter(fires, a) \in Nat /\ CronNextAfter(fires, a) > a
<1> DEFINE Later == {f \in fires : f > a}
<1>1. CASE Later = {}
  BY <1>1 DEF CronNextAfter
<1>2. CASE Later # {}
  <2>1. Later \subseteq Nat /\ (\A f \in Later : f > a) /\ (\E f \in fires : f > a)
    BY <1>2
  <2>2. CronNextAfter(fires, a) = Min(Later)
    BY <2>1 DEF CronNextAfter
  <2> HIDE DEF Later
  <2>3. Min(Later) \in Later
    BY <1>2, <2>1, Least
  <2> QED BY <2>1, <2>2, <2>3
<1> QED BY <1>1, <1>2

-----------------------------------------------------------------------------
(* The recursion in PlannedStart. That its function exists, and that the   *)
(* one up to a later beat goes on as the one up to an earlier beat, is     *)
(* shown by looking at the least beat where it would fail.                 *)

\* f holds the planned starts of the beats of a cron step up to b.
IsStarts(f, t, b) ==
    f = [k \in 0..b |-> IF k = 0 THEN t.first
                        ELSE IF f[k - 1] = None THEN None
                        ELSE CronNextAfter(t.fires, f[k - 1])]

LEMMA StartsExist ==
  ASSUME NEW t
  PROVE  \A b \in Nat : \E f : IsStarts(f, t, b)
<1> DEFINE Bad == {b \in Nat : ~ \E f : IsStarts(f, t, b)}
<1> SUFFICES ASSUME Bad # {} PROVE FALSE
  OBVIOUS
<1>1. Bad \subseteq Nat
  OBVIOUS
<1> DEFINE b == Min(Bad)
<1>2. b \in Bad /\ \A c \in Bad : b <= c
  <2> HIDE DEF Bad
  <2> QED BY <1>1, Least
<1>3. b \in Nat /\ (\A c \in Nat : c < b => \E f : IsStarts(f, t, c)) /\ ~ \E f : IsStarts(f, t, b)
  BY <1>2
<1> HIDE DEF b, Bad
<1>4. CASE b = 0
  <2> DEFINE f == [k \in 0..0 |-> t.first]
  <2>1. IsStarts(f, t, 0)
    BY DEF IsStarts
  <2> QED BY <1>3, <1>4, <2>1
<1>5. CASE b # 0
  <2>1. b - 1 \in Nat /\ b - 1 < b
    BY <1>3, <1>5
  <2>2. PICK g : IsStarts(g, t, b - 1)
    BY <1>3, <2>1
  <2> DEFINE last == IF g[b - 1] = None THEN None ELSE CronNextAfter(t.fires, g[b - 1])
             f == [k \in 0..b |-> IF k = b THEN last ELSE g[k]]
  <2>3. \A k \in 0..(b - 1) : f[k] = g[k]
    BY <1>3, <2>1
  <2>4. f[b] = last
    BY <1>3
  <2>5. \A k \in 0..(b - 1) : g[k] = IF k = 0 THEN t.first
                                     ELSE IF g[k - 1] = None THEN None
                                     ELSE CronNextAfter(t.fires, g[k - 1])
    BY <2>2 DEF IsStarts
  <2> HIDE DEF f
  <2> DEFINE R(k) == IF k = 0 THEN t.first
                     ELSE IF f[k - 1] = None THEN None
                     ELSE CronNextAfter(t.fires, f[k - 1])
  <2>6. \A k \in 0..b : f[k] = R(k)
    <3> SUFFICES ASSUME NEW k \in 0..b PROVE f[k] = R(k)
      OBVIOUS
    <3>1. CASE k = b
      BY <1>3, <1>5, <2>1, <2>3, <2>4, <3>1
    <3>2. CASE k # b /\ k = 0
      BY <1>3, <2>1, <2>3, <2>5, <3>2
    <3>3. CASE k # b /\ k # 0
      <4>1. k \in 0..(b - 1) /\ k - 1 \in 0..(b - 1)
        BY <1>3, <3>3
      <4> QED BY <2>3, <2>5, <3>3, <4>1
    <3> QED BY <3>1, <3>2, <3>3
  <2>7. f = [k \in 0..b |-> f[k]]
    BY DEF f
  <2>8. [k \in 0..b |-> f[k]] = [k \in 0..b |-> R(k)]
    BY <2>6
  <2>9. IsStarts(f, t, b)
    BY <2>7, <2>8 DEF IsStarts
  <2> QED BY <1>3, <2>9
<1> QED BY <1>4, <1>5

LEMMA StartsAgree ==
  ASSUME NEW t, NEW b \in Nat, NEW c \in Nat, NEW f, NEW g,
         IsStarts(f, t, b), IsStarts(g, t, c), b <= c
  PROVE  \A k \in 0..b : f[k] = g[k]
<1> DEFINE Bad == {k \in 0..b : f[k] # g[k]}
<1> SUFFICES ASSUME Bad # {} PROVE FALSE
  OBVIOUS
<1>1. Bad \subseteq Nat
  OBVIOUS
<1> DEFINE k == Min(Bad)
<1>2. k \in Bad /\ \A m \in Bad : k <= m
  <2> HIDE DEF Bad
  <2> QED BY <1>1, Least
<1>3. k \in 0..b /\ k \in 0..c /\ f[k] # g[k] /\ (k # 0 => f[k - 1] = g[k - 1])
  BY <1>2
<1> HIDE DEF k, Bad
<1>4. /\ f[k] = IF k = 0 THEN t.first ELSE IF f[k - 1] = None THEN None
                ELSE CronNextAfter(t.fires, f[k - 1])
      /\ g[k] = IF k = 0 THEN t.first ELSE IF g[k - 1] = None THEN None
                ELSE CronNextAfter(t.fires, g[k - 1])
  BY <1>3 DEF IsStarts
<1> QED BY <1>3, <1>4

\* The beats of a cron step follow each other.
LEMMA CronFollows ==
  ASSUME NEW t \in Timing, t.mode = "cron", NEW b \in Nat
  PROVE  /\ PlannedStart(t, 0) = t.first
         /\ PlannedStart(t, b + 1) = IF PlannedStart(t, b) = None THEN None
                                     ELSE CronNextAfter(t.fires, PlannedStart(t, b))
<1> DEFINE s(n) == CHOOSE f : IsStarts(f, t, n)
<1>1. \A n \in Nat : PlannedStart(t, n) = s(n)[n]
  BY Zenon DEF PlannedStart, IsStarts
<1>2. \A n \in Nat : IsStarts(s(n), t, n)
  BY StartsExist, Zenon
<1> HIDE DEF s
<1>3. s(0)[0] = t.first
  BY <1>2 DEF IsStarts
<1>4. s(b + 1)[b + 1] = IF s(b + 1)[b] = None THEN None ELSE CronNextAfter(t.fires, s(b + 1)[b])
  <2>1. IsStarts(s(b + 1), t, b + 1) /\ b + 1 \in 0..(b + 1) /\ (b + 1) - 1 = b
    BY <1>2
  <2> QED BY <2>1 DEF IsStarts
<1>5. s(b)[b] = s(b + 1)[b]
  BY <1>2, StartsAgree
<1> QED BY <1>1, <1>3, <1>4, <1>5

-----------------------------------------------------------------------------
(* The starts of a series.                                                 *)

\* A product of naturals is one, and grows with its first factor.
LEMMA Product ==
  ASSUME NEW b \in Nat, NEW n \in Nat
  PROVE  b * n \in Nat /\ (b + 1) * n = b * n + n
OBVIOUS

\* Planned starts are times or missing.
LEMMA PlannedType ==
  ASSUME NEW t \in Timing
  PROVE  \A b \in Nat : PlannedStart(t, b) \in OptTime
<1>t. /\ t.mode \in Modes /\ t.exec \in OptTime /\ t.first \in OptTime
      /\ t.interval \in OptTime /\ t.fires \in SUBSET Nat
  BY DEF Timing
<1>1. CASE t.mode = "cron"
  <2> DEFINE Bad == {b \in Nat : PlannedStart(t, b) \notin OptTime}
  <2> SUFFICES ASSUME Bad # {} PROVE FALSE
    OBVIOUS
  <2>1. Bad \subseteq Nat
    OBVIOUS
  <2> DEFINE b == Min(Bad)
  <2>2. b \in Bad /\ \A c \in Bad : b <= c
    <3> HIDE DEF Bad
    <3> QED BY <2>1, Least
  <2>3. /\ b \in Nat /\ PlannedStart(t, b) \notin OptTime
        /\ b # 0 => b - 1 \in Nat /\ PlannedStart(t, b - 1) \in OptTime
    BY <2>2
  <2> HIDE DEF b, Bad
  <2>4. CASE b = 0
    BY <1>t, <1>1, <2>3, <2>4, CronFollows
  <2>5. CASE b # 0
    <3> DEFINE p == PlannedStart(t, b - 1)
    <3>1. b - 1 \in Nat /\ p \in OptTime /\ (b - 1) + 1 = b
      BY <2>3, <2>5
    <3>2. PlannedStart(t, (b - 1) + 1) = IF p = None THEN None ELSE CronNextAfter(t.fires, p)
      BY <1>1, <3>1, CronFollows
    <3>3. PlannedStart(t, b) = IF p = None THEN None ELSE CronNextAfter(t.fires, p)
      BY <3>1, <3>2
    <3> HIDE DEF p
    <3>4. CASE p = None
      BY <2>3, <3>3, <3>4 DEF OptTime
    <3>5. CASE p # None
      BY <1>t, <2>3, <3>1, <3>3, <3>5, NextFire DEF OptTime
    <3> QED BY <3>4, <3>5
  <2> QED BY <2>4, <2>5
<1>2. CASE t.mode = "interval"
  <2> SUFFICES ASSUME NEW b \in Nat PROVE PlannedStart(t, b) \in OptTime
    OBVIOUS
  <2>1. CASE t.first = None \/ t.interval = None
    BY <1>2, <2>1 DEF PlannedStart, OptTime
  <2>2. CASE ~(t.first = None \/ t.interval = None)
    <3>1. t.first \in Nat /\ t.interval \in Nat
      BY <1>t, <2>2 DEF OptTime
    <3>2. b * t.interval \in Nat
      BY <3>1, Product
    <3>3. PlannedStart(t, b) = t.first + b * t.interval
      BY <1>2, <2>2 DEF PlannedStart
    <3> QED BY <3>1, <3>2, <3>3 DEF OptTime
  <2> QED BY <2>1, <2>2
<1>3. CASE t.mode \in {"immediate", "delay"}
  BY <1>t, <1>3 DEF PlannedStart, OptTime
<1> QED BY <1>t, <1>1, <1>2, <1>3 DEF Modes

\* The planned start after a beat's is the next beat's; a beat that has one is
\* later than the beat before it, which then has one too.
LEMMA PlannedFollows ==
  ASSUME NEW t \in Timing, IsRecurring(t), NEW b \in Nat
  PROVE  LET p == PlannedStart(t, b)
             q == PlannedStart(t, b + 1)
         IN  /\ p = None => q = None
             /\ p # None => NextPlannedAfter(t, p) = q
             /\ q # None => p < q
<1> DEFINE p == PlannedStart(t, b)
           q == PlannedStart(t, b + 1)
<1>t. p \in OptTime /\ q \in OptTime
  <2>1. b + 1 \in Nat
    OBVIOUS
  <2> QED BY <2>1, PlannedType
<1>1. CASE t.mode = "cron"
  <2>1. q = IF p = None THEN None ELSE CronNextAfter(t.fires, p)
    BY <1>1, CronFollows
  <2>2. NextPlannedAfter(t, p) = CronNextAfter(t.fires, p)
    BY <1>1 DEF NextPlannedAfter
  <2>3. t.fires \in SUBSET Nat
    BY DEF Timing
  <2> HIDE DEF p, q
  <2>4. (p = None => q = None) /\ (p # None => NextPlannedAfter(t, p) = q)
    BY <2>1, <2>2
  <2>5. ASSUME q # None PROVE p < q
    <3>1. p \in Nat /\ q = CronNextAfter(t.fires, p)
      BY <1>t, <2>1, <2>5 DEF OptTime
    <3> QED BY <2>3, <2>5, <3>1, NextFire
  <2> QED BY <2>4, <2>5 DEF p, q
<1>2. CASE t.mode = "interval"
  <2>i. t.interval \in OptTime \ {0} /\ t.first \in OptTime
    BY DEF Timing
  <2>1. CASE t.first = None \/ t.interval = None
    <3>1. p = None /\ q = None
      BY <1>2, <2>1 DEF PlannedStart
    <3> QED BY <3>1
  <2>2. CASE ~(t.first = None \/ t.interval = None)
    <3>1. t.first \in Nat /\ t.interval \in Nat /\ t.interval > 0
      BY <2>i, <2>2 DEF OptTime
    <3>2. p = t.first + b * t.interval /\ q = t.first + (b + 1) * t.interval
      BY <1>2, <2>2 DEF PlannedStart
    <3>3. b * t.interval \in Nat /\ (b + 1) * t.interval = b * t.interval + t.interval
      BY <3>1, Product
    <3>4. NextPlannedAfter(t, p) = p + t.interval
      BY <1>2, <2>2 DEF NextPlannedAfter
    <3> DEFINE m == b * t.interval
    <3>5. p = t.first + m /\ q = t.first + (m + t.interval) /\ m \in Nat
      BY <3>2, <3>3
    <3> HIDE DEF m, p, q
    <3>6. p \in Nat /\ q = p + t.interval /\ p < q
      BY <3>1, <3>5
    <3>7. (p = None => q = None) /\ (p # None => NextPlannedAfter(t, p) = q) /\ (q # None => p < q)
      BY <3>4, <3>6 DEF None
    <3> QED BY <3>7 DEF p, q
  <2> QED BY <2>1, <2>2
<1> QED BY <1>1, <1>2 DEF IsRecurring

\* A later beat of a series that has a start starts later, and every beat before it
\* has one.
LEMMA PlannedGrows ==
  ASSUME NEW t \in Timing, IsRecurring(t), NEW b \in Nat, NEW c \in Nat, b < c,
         PlannedStart(t, c) # None
  PROVE  PlannedStart(t, b) # None /\ PlannedStart(t, b) < PlannedStart(t, c)
<1> DEFINE P(n) == PlannedStart(t, n)
           Bad == {n \in Nat : b < n /\ P(n) # None /\ ~(P(b) # None /\ P(b) < P(n))}
<1> SUFFICES ASSUME Bad # {} PROVE FALSE
  OBVIOUS
<1>1. Bad \subseteq Nat
  OBVIOUS
<1> DEFINE n == Min(Bad)
<1>2. n \in Bad /\ \A m \in Bad : n <= m
  <2> HIDE DEF Bad
  <2> QED BY <1>1, Least
<1>3. n \in Nat /\ b < n /\ P(n) # None /\ ~(P(b) # None /\ P(b) < P(n))
  BY <1>2
<1>4. ASSUME b < n - 1, P(n - 1) # None PROVE P(b) # None /\ P(b) < P(n - 1)
  BY <1>2, <1>3, <1>4
<1> HIDE DEF n, Bad
<1>5. n - 1 \in Nat /\ (n - 1) + 1 = n
  BY <1>3
<1>6. P(n - 1) # None /\ P(n - 1) < P(n)
  BY <1>3, <1>5, PlannedFollows
<1>7. P(b) \in OptTime /\ P(n - 1) \in OptTime /\ P(n) \in OptTime
  BY <1>3, <1>5, PlannedType
<1> HIDE DEF P
<1>8. CASE n - 1 = b
  BY <1>3, <1>6, <1>8
<1>9. CASE b < n - 1
  BY <1>3, <1>4, <1>6, <1>7, <1>9 DEF OptTime, None
<1> QED BY <1>3, <1>5, <1>8, <1>9

-----------------------------------------------------------------------------
(* Windows and gates.                                                      *)

\* The lesser of two numbers.
LEMMA LesserOf ==
  ASSUME NEW x \in Nat, NEW y \in Nat
  PROVE  Min({x, y}) \in {x, y} /\ Min({x, y}) <= x /\ Min({x, y}) <= y
<1>1. {x, y} \subseteq Nat /\ {x, y} # {}
  OBVIOUS
<1> QED BY <1>1, Least

\* The window of a beat is a length of time, and ends before the next beat begins.
LEMMA WindowEnds ==
  ASSUME NEW t \in Timing, NEW b \in Nat, PlannedStart(t, b) # None
  PROVE  /\ MissWindow(t, PlannedStart(t, b)) \in Nat
         /\ IsRecurring(t) /\ PlannedStart(t, b + 1) # None
              => PlannedStart(t, b) + MissWindow(t, PlannedStart(t, b)) < PlannedStart(t, b + 1)
<1> DEFINE p == PlannedStart(t, b)
           q == PlannedStart(t, b + 1)
           w == MissWindow(t, p)
<1>t. p \in Nat /\ q \in OptTime
  <2>1. b + 1 \in Nat
    OBVIOUS
  <2> QED BY <2>1, PlannedType DEF OptTime
<1>1. CASE ~IsRecurring(t)
  BY <1>1, MissAssumption DEF MissWindow
<1>2. CASE IsRecurring(t)
  <2>1. NextPlannedAfter(t, p) = q /\ (q # None => p < q)
    BY <1>2, PlannedFollows
  <2>2. w = IF q = None \/ q <= p THEN PeriodicMiss ELSE Min({(q - p) \div 2, PeriodicMiss})
    BY <1>2, <2>1 DEF MissWindow
  <2> HIDE DEF p, q, w
  <2>3. CASE q = None
    BY <1>2, <2>2, <2>3, MissAssumption DEF p, q, w
  <2>4. CASE q # None
    <3>1. q \in Nat /\ p < q
      BY <1>t, <2>1, <2>4 DEF OptTime
    <3> DEFINE h == (q - p) \div 2
    <3>2. h \in Nat /\ p + h < q
      BY <1>t, <3>1
    <3>3. w = Min({h, PeriodicMiss})
      BY <1>t, <2>2, <2>4, <3>1
    <3> HIDE DEF h
    <3>4. w \in Nat /\ w <= h
      BY <3>2, <3>3, LesserOf, MissAssumption
    <3>5. w \in Nat /\ p + w < q
      BY <1>t, <3>1, <3>2, <3>4
    <3> QED BY <3>5 DEF p, q, w
  <2> QED BY <2>3, <2>4
<1> QED BY <1>1, <1>2

\* A beat of a series that is due has its start behind it, and the next beat's, if
\* there is one, before it.
LEMMA DueBetween ==
  ASSUME NEW t \in Timing, IsRecurring(t), NEW b \in Nat, NEW n \in Int,
         Gate(t, n, b) = "due"
  PROVE  /\ PlannedStart(t, b) # None /\ PlannedStart(t, b) <= n
         /\ PlannedStart(t, b + 1) # None => n < PlannedStart(t, b + 1)
<1> DEFINE p == PlannedStart(t, b)
           q == PlannedStart(t, b + 1)
           w == MissWindow(t, p)
<1>1. p # None /\ ~(n < p) /\ n - p <= w
  BY DEF Gate, IsRecurring
<1>2. w \in Nat /\ (q # None => p + w < q)
  BY <1>1, WindowEnds
<1>3. p \in Nat /\ q \in OptTime
  <2>1. b + 1 \in Nat
    OBVIOUS
  <2> QED BY <1>1, <2>1, PlannedType DEF OptTime
<1> HIDE DEF p, q, w
<1>4. p <= n /\ (q # None => n < q)
  BY <1>1, <1>2, <1>3 DEF OptTime
<1> QED BY <1>1, <1>4 DEF p, q

\* At any instant one beat of a series may start, at most.
LEMMA OneDue ==
  ASSUME NEW t \in Timing, IsRecurring(t), NEW n \in Int, NEW b \in Nat, NEW c \in Nat,
         Gate(t, n, b) = "due", Gate(t, n, c) = "due"
  PROVE  b = c
<1>1. ASSUME NEW x \in Nat, NEW y \in Nat, x < y, Gate(t, n, x) = "due", Gate(t, n, y) = "due"
      PROVE  FALSE
  <2>1. PlannedStart(t, y) # None /\ PlannedStart(t, y) <= n
    BY <1>1, DueBetween
  <2>2. PlannedStart(t, x + 1) # None /\ PlannedStart(t, x + 1) <= PlannedStart(t, y)
    <3>1. CASE x + 1 = y
      <4>1. PlannedStart(t, y) \in OptTime
        BY <1>1, PlannedType
      <4> QED BY <2>1, <3>1, <4>1 DEF OptTime, None
    <3>2. CASE x + 1 # y
      <4>1. x + 1 \in Nat /\ x + 1 < y
        BY <1>1, <3>2
      <4>2. PlannedStart(t, x + 1) # None /\ PlannedStart(t, x + 1) < PlannedStart(t, y)
        BY <1>1, <2>1, <4>1, PlannedGrows
      <4>3. PlannedStart(t, x + 1) \in OptTime /\ PlannedStart(t, y) \in OptTime
        BY <1>1, <4>1, PlannedType
      <4> QED BY <4>2, <4>3 DEF OptTime, None
    <3> QED BY <3>1, <3>2
  <2>3. n < PlannedStart(t, x + 1)
    BY <1>1, <2>2, DueBetween
  <2>4. PlannedStart(t, x + 1) \in OptTime /\ PlannedStart(t, y) \in OptTime
    <3>1. x + 1 \in Nat
      BY <1>1
    <3> QED BY <1>1, <3>1, PlannedType
  <2> QED BY <2>1, <2>2, <2>3, <2>4 DEF OptTime, None
<1> QED BY <1>1

\* An instant after it was too early, a beat is still early or it is due.
LEMMA NotPassedOver ==
  ASSUME NEW t \in Timing, NEW n \in Nat, NEW b \in Nat, Gate(t, n, b) = "wait"
  PROVE  Gate(t, n + 1, b) \in {"wait", "due"}
<1> DEFINE p == PlannedStart(t, b)
<1>1. /\ t.mode # "immediate" /\ ~(t.count # None /\ b >= t.count)
      /\ p # None => ~(t.end # None /\ p > t.end)
  BY DEF Gate
<1>2. p \in OptTime
  BY PlannedType
<1>3. CASE p = None
  BY <1>1, <1>3 DEF Gate
<1>4. CASE p # None
  <2>1. n < p /\ p \in Nat
    BY <1>1, <1>2, <1>4 DEF Gate, OptTime
  <2>2. MissWindow(t, p) \in Nat
    BY <1>4, WindowEnds
  <2>3. n + 1 < p \/ (n + 1) - p <= MissWindow(t, p)
    BY <2>1, <2>2
  <2> QED BY <1>1, <1>4, <2>3 DEF Gate
<1> QED BY <1>3, <1>4

=============================================================================
