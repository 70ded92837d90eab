-------------------------- MODULE HomeMediaProofs ---------------------------
(***************************************************************************)
(* The first half of the proof about Home: what the house hears, says, plays *)
(* and shows, for every number of workers and microphones and every value of *)
(* the other constants.  Each part has an invariant, which its initial states *)
(* and its steps are shown to keep and which implies what Home states of the *)
(* part.  HomeProofs has the other parts and puts all together.            *)
(***************************************************************************)
EXTENDS Home, NaturalsInduction, WellFoundedInduction, FiniteSetTheorems, TLAPS

\* A list of songs and the Brains are numbered from 1, and there are some.
LEMMA MusicNumbers == SongLength \in Nat /\ \E n \in Nat \ {0} : Songs = 1..n
<1>1. Cardinality(Songs) \in Nat /\ Cardinality(Songs) # 0
  BY MusicAssumption, FS_CardinalityType, FS_EmptySet
<1> QED BY <1>1, MusicAssumption

\* The Brains are numbered from 1, and there are some.
LEMMA BrainsNumbers == MaxCloudCalls \in Nat /\ \E n \in Nat \ {0} : Brains = 1..n
<1>1. Cardinality(Brains) \in Nat /\ Cardinality(Brains) # 0
  BY BrainsAssumption, FS_CardinalityType, FS_EmptySet
<1> QED BY <1>1, BrainsAssumption

\* A nonempty set of naturals has a least element.
LEMMA LeastNat ==
  ASSUME NEW S, S \subseteq Nat, S # {}
  PROVE  \E x \in S : \A y \in S : x <= y
<1>1. \E x \in S : \A y \in S : ~(<<y, x>> \in OpToRel(<, Nat))
  BY NatLessThanWellFounded, WFMin
<1>2. PICK x \in S : \A y \in S : ~(<<y, x>> \in OpToRel(<, Nat))
  BY <1>1
<1>3. \A y \in S : x <= y
  <2> SUFFICES ASSUME NEW y \in S, y < x PROVE FALSE
    OBVIOUS
  <2> QED BY <1>2 DEF OpToRel
<1> QED BY <1>3

\* Sums, for the steps in which a term keeps its name from one state to the next.
LEMMA SumsGrow ==
  /\ \A a, b, c \in Nat : a <= b => c + a <= c + b
  /\ \A a, b, c, d \in Nat : a <= b + d => c + a <= c + b + d
OBVIOUS

\* Counting in a finite set.
Counts(All, S) ==
    /\ IsFiniteSet(S) /\ Cardinality(S) \in Nat /\ Cardinality(All) \in Nat
    /\ Cardinality(S) <= Cardinality(All)
    /\ \A R \in SUBSET S : IsFiniteSet(R) /\ Cardinality(R) <= Cardinality(S)
    /\ \A w \in S : Cardinality(S \ {w}) = Cardinality(S) - 1
    /\ \A R \in SUBSET All : /\ Cardinality(S \union R) <= Cardinality(S) + Cardinality(R)
                             /\ S \intersect R = {} => Cardinality(S \union R) = Cardinality(S) + Cardinality(R)
    /\ \A w \in All : Cardinality(S \union {w}) <= Cardinality(S) + 1
    /\ \A w \in All \ S : Cardinality(S \union {w}) = Cardinality(S) + 1

\* The subsets of a finite set can be counted.
LEMMA CountIn ==
  ASSUME NEW All, IsFiniteSet(All), NEW S, S \subseteq All
  PROVE  Counts(All, S)
<1>1. IsFiniteSet(S) /\ Cardinality(S) <= Cardinality(All)
  BY FS_Subset
<1>2. Cardinality(S) \in Nat /\ Cardinality(All) \in Nat
  BY <1>1, FS_CardinalityType
<1>3. \A R \in SUBSET S : IsFiniteSet(R) /\ Cardinality(R) <= Cardinality(S)
  BY <1>1, FS_Subset
<1>4. \A w \in S : Cardinality(S \ {w}) = Cardinality(S) - 1
  BY <1>1, FS_RemoveElement
<1>5. ASSUME NEW R \in SUBSET All
      PROVE  /\ Cardinality(S \union R) <= Cardinality(S) + Cardinality(R)
             /\ S \intersect R = {} => Cardinality(S \union R) = Cardinality(S) + Cardinality(R)
  <2>1. IsFiniteSet(R)
    BY FS_Subset
  <2>2. /\ Cardinality(S \union R) = Cardinality(S) + Cardinality(R) - Cardinality(S \intersect R)
        /\ IsFiniteSet(S \intersect R)
    BY <1>1, <2>1, FS_Union, FS_Intersection
  <2>3. Cardinality(S \intersect R) \in Nat /\ Cardinality(R) \in Nat
    BY <2>1, <2>2, FS_CardinalityType
  <2>4. S \intersect R = {} => Cardinality(S \intersect R) = 0
    BY FS_EmptySet
  <2> QED BY <1>2, <2>2, <2>3, <2>4
<1>6. \A w \in All \ S : Cardinality(S \union {w}) = Cardinality(S) + 1
  BY <1>1, FS_AddElement
<1>7. ASSUME NEW w \in All PROVE Cardinality(S \union {w}) <= Cardinality(S) + 1
  <2>1. CASE w \in S
    <3>1. S \union {w} = S
      BY <2>1
    <3> QED BY <3>1, <1>2
  <2>2. CASE w \notin S
    <3>1. Cardinality(S \union {w}) = Cardinality(S) + 1
      BY <2>2, <1>6
    <3> QED BY <3>1, <1>2
  <2> QED BY <2>1, <2>2
<1> QED BY <1>1, <1>2, <1>3, <1>4, <1>5, <1>6, <1>7 DEF Counts

\* The numbers of a finite pool's workers.
LEMMA WorkersCount ==
  ASSUME NEW S, S \subseteq Workers
  PROVE  /\ IsFiniteSet(S) /\ Cardinality(S) \in Nat /\ Cardinality(Workers) \in Nat
         /\ Cardinality(S) <= Cardinality(Workers)
         /\ \A R \in SUBSET S : IsFiniteSet(R) /\ Cardinality(R) <= Cardinality(S)
         /\ \A w \in S : Cardinality(S \ {w}) = Cardinality(S) - 1
         /\ \A R \in SUBSET Workers : /\ Cardinality(S \union R) <= Cardinality(S) + Cardinality(R)
                                      /\ S \intersect R = {} => Cardinality(S \union R) = Cardinality(S) + Cardinality(R)
         /\ \A w \in Workers : Cardinality(S \union {w}) <= Cardinality(S) + 1
         /\ \A w \in Workers \ S : Cardinality(S \union {w}) = Cardinality(S) + 1
<1>1. Counts(Workers, S)
  BY WorkersAssumption, CountIn
<1> QED BY <1>1 DEF Counts

\* A nonempty set of numbers that are not above a bound has a greatest element.
LEMMA GreatestNat ==
  ASSUME NEW top \in Nat, NEW S, S \subseteq 0..top, S # {}
  PROVE  \E x \in S : \A y \in S : y <= x
<1> DEFINE gaps == {top - x : x \in S}
<1>1. gaps \subseteq Nat /\ gaps # {}
  <2>1. \A x \in S : x \in 0..top
    OBVIOUS
  <2>2. \A x \in S : top - x \in Nat
    BY <2>1
  <2> QED BY <2>2
<1> HIDE DEF gaps
<1>2. PICK g \in gaps : \A h \in gaps : g <= h
  BY <1>1, LeastNat
<1>3. PICK x \in S : g = top - x
  BY <1>2 DEF gaps
<1>4. \A y \in S : top - y \in gaps
  BY DEF gaps
<1>5. \A y \in S : top - x <= top - y
  BY <1>2, <1>3, <1>4
<1> QED BY <1>5

-----------------------------------------------------------------------------
(* The gates of the microphones.                                           *)

GateState == [state : {"idle", "partial", "acking", "listening"}, deadline : Nat, open : Nat, late : Nat]
Utterances == [what : {"speech"}, key : Keys, start : Nat \ {0}, end : Nat \ {0}]
Answers == {"answer", "wake and answer", "answer then command"}

\* A gate's times: a window is as long as it is, also one that is kept for late words.
GateRight(g) ==
    /\ g.state = "listening" => g.deadline = g.open + Window
    /\ g.state = "idle" => g.late = 0 \/ g.late >= Window
    /\ g.state \in {"acking", "listening"} => g.deadline > 0

\* The gate still owes somebody a command.
Owes(g) == g.state \in {"acking", "listening"} \/ (g.state = "idle" /\ g.late > 0)

\* The window opened last is the gate's, or the one the timer closed.
WindowRight(g, win) ==
    \/ win = Listening!NoWindow
    \/ /\ win.till = win.from + Window /\ win.till > 0
       /\ \/ g.state = "listening" /\ g.open = win.from /\ g.deadline = win.till
          \/ g.state = "idle" /\ g.late = win.till

ListeningTypes ==
    /\ instant \in Nat /\ 1 <= instant /\ instant <= LastInstant /\ capture \in BOOLEAN
    /\ queue \in Seq(Utterances \union {Listening!Dead}) /\ Len(queue) <= QueueMax
    /\ loop \in Utterances \union {Listening!Poll, Listening!Over}
    /\ ack \in [Keys -> {"none", "saying"}] /\ mic \in [Keys -> Nat]
    /\ gate \in [Keys -> GateState] /\ window \in [Keys -> [from : Nat, till : Nat]]
    /\ posted \in [Keys -> Nat] /\ openings \in [Keys -> Nat]

ListeningInv ==
    /\ ListeningTypes
    /\ \A k \in Keys :
          /\ mic[k] <= instant /\ GateRight(gate[k]) /\ WindowRight(gate[k], window[k])
          /\ posted[k] <= openings[k]
          /\ Owes(gate[k]) => posted[k] < openings[k]

-----------------------------------------------------------------------------
(* Gates.                                                                  *)

\* What an utterance makes of a gate: a command is owed or comes with an answer, and so
\* is what the gate owes afterwards.
Outcome(g, r, words) ==
    /\ r.gate \in GateState /\ GateRight(r.gate) /\ r.cmd \in BOOLEAN /\ r.say \in BOOLEAN
    /\ r.cmd => ~Owes(r.gate) /\ (Owes(g) \/ words \in Answers)
    /\ Owes(r.gate) => Owes(g) \/ r.say \/ words \in Answers

\* What an utterance makes of a gate, by its parts.
LEMMA ResultIs ==
  ASSUME NEW g, NEW c, NEW s
  PROVE  /\ Listening!Result(g, c, s).gate = g /\ Listening!Result(g, c, s).cmd = c
         /\ Listening!Result(g, c, s).say = s
BY DEF Listening!Result

\* A gate at rest is a gate, with a window for late words or without.
LEMMA IdleGate ==
  ASSUME NEW n \in Nat
  PROVE  LET i == [Listening!Idle EXCEPT !.late = n]
         IN  i \in GateState /\ i.state = "idle" /\ i.late = n
<1>1. Listening!Idle = [state |-> "idle", deadline |-> 0, open |-> 0, late |-> 0]
  BY DEF Listening!Idle
<1>2. Listening!Idle \in GateState /\ Listening!Idle.state = "idle"
  BY <1>1 DEF GateState
<1> QED BY <1>2 DEF GateState

\* So is one that was put to rest: it owes nothing, unless it keeps its window for late
\* words (reset).
LEMMA ResetGate ==
  ASSUME NEW g \in GateState, NEW keep \in BOOLEAN, GateRight(g)
  PROVE  LET i == Listening!Reset(g, keep)
         IN  /\ i \in GateState /\ GateRight(i) /\ i.state = "idle" /\ (keep = FALSE => i.late = 0)
             /\ i.late = IF keep /\ g.state = "listening" THEN g.deadline ELSE 0
<1> DEFINE n == IF keep /\ g.state = "listening" THEN g.deadline ELSE 0
<1>1. n \in Nat /\ (keep = FALSE => n = 0)
  BY DEF GateState
<1>2. n = 0 \/ n >= Window
  <2>1. g.deadline \in Nat /\ g.open \in Nat /\ Window \in Nat
    BY ListeningAssumption DEF GateState
  <2> QED BY <2>1 DEF GateRight
<1>3. Listening!Reset(g, keep) = [Listening!Idle EXCEPT !.late = n]
  BY DEF Listening!Reset
<1> HIDE DEF n
<1>4. LET i == [Listening!Idle EXCEPT !.late = n] IN i \in GateState /\ i.state = "idle" /\ i.late = n
  BY <1>1, IdleGate
<1> QED BY <1>1, <1>2, <1>3, <1>4 DEF GateRight, n

\* A window that is opened is as long as Window says.
LEMMA OpenGate ==
  ASSUME NEW at \in Nat \ {0}
  PROVE  LET l == Listening!Listening(at)
         IN  /\ l \in GateState /\ GateRight(l) /\ l.state = "listening" /\ l.open = at /\ l.deadline = at + Window
             /\ l.deadline > 0
<1>1. at + Window \in Nat /\ at + Window > 0
  BY ListeningAssumption
<1> DEFINE n == at + Window
<1>2. Listening!Listening(at) = [state |-> "listening", deadline |-> n, open |-> at, late |-> 0]
  BY DEF Listening!Listening
<1>3. n \in Nat /\ n > 0
  BY <1>1
<1> HIDE DEF n
<1>4. \A z \in Nat : LET l == [state |-> "listening", deadline |-> n, open |-> at, late |-> z]
                     IN  l \in GateState /\ l.state = "listening" /\ l.open = at /\ l.deadline = n
  BY <1>3 DEF GateState
<1>5. LET l == Listening!Listening(at) IN l \in GateState /\ l.state = "listening" /\ l.open = at /\ l.deadline = n
  BY <1>2, <1>4
<1> QED BY <1>3, <1>5 DEF GateRight, n

\* A gate that waits for the rest of a wake word, or for its answer to be said.
LEMMA WaitingGate ==
  ASSUME NEW g \in GateState, NEW end \in Nat \ {0}
  PROVE  /\ LET p == Listening!Partial(g, end) IN p \in GateState /\ GateRight(p) /\ ~Owes(p)
         /\ LET a == Listening!Acking(g, end) IN a \in GateState /\ GateRight(a)
<1> DEFINE m == end + PartialWait
           n == end + AckWait
<1>1. m \in Nat /\ n \in Nat /\ n > 0
  BY ListeningAssumption
<1>2. /\ Listening!Partial(g, end) = [g EXCEPT !.state = "partial", !.deadline = m]
      /\ Listening!Acking(g, end) = [g EXCEPT !.state = "acking", !.deadline = n]
  BY DEF Listening!Partial, Listening!Acking
<1> HIDE DEF m, n
<1>3. \A v \in Nat, st \in {"partial", "acking"} :
         LET p == [g EXCEPT !.state = st, !.deadline = v] IN p \in GateState /\ p.state = st /\ p.deadline = v
  BY DEF GateState
<1>4. LET p == Listening!Partial(g, end) IN p \in GateState /\ p.state = "partial" /\ p.deadline = m
  BY <1>1, <1>2, <1>3
<1>5. LET a == Listening!Acking(g, end) IN a \in GateState /\ a.state = "acking" /\ a.deadline = n
  BY <1>1, <1>2, <1>3
<1> QED BY <1>1, <1>4, <1>5 DEF GateRight, Owes

\* An outcome is right if its gate is and a command is owed.
LEMMA OutcomeOf ==
  ASSUME NEW g, NEW words, NEW n \in GateState, GateRight(n), NEW c \in BOOLEAN, NEW s \in BOOLEAN,
         c => ~Owes(n) /\ (Owes(g) \/ words \in Answers), Owes(n) => Owes(g) \/ s \/ words \in Answers
  PROVE  Outcome(g, Listening!Result(n, c, s), words)
<1> DEFINE r == Listening!Result(n, c, s)
<1>1. r.gate = n /\ r.cmd = c /\ r.say = s
  BY ResultIs
<1> HIDE DEF r
<1>2. Outcome(g, r, words)
  BY <1>1, Zenon DEF Outcome
<1> QED BY <1>2 DEF r

\* The outcomes the gate chooses between are right, each where it is chosen.
LEMMA OutcomesRight ==
  ASSUME NEW g \in GateState, GateRight(g), NEW u \in Utterances, NEW words \in Listening!Words, instant \in Nat \ {0}
  PROVE  /\ Outcome(g, Listening!Quiet(g), words)
         /\ Outcome(g, Listening!Quiet(Listening!Partial(g, u.end)), words)
         /\ Outcome(g, Listening!Quiet(Listening!Reset(g, FALSE)), words)
         /\ Outcome(g, Listening!Wakes(g, u), words)
         /\ Owes(g) \/ words \in Answers => Outcome(g, Listening!Command(g), words)
         /\ words \in Answers => Outcome(g, Listening!HearsAnswer(u), words)
<1>1. u.end \in Nat \ {0}
  BY DEF Utterances
<1>2. /\ LET p == Listening!Partial(g, u.end) IN p \in GateState /\ GateRight(p) /\ ~Owes(p)
      /\ LET a == Listening!Acking(g, u.end) IN a \in GateState /\ GateRight(a)
  BY <1>1, WaitingGate
<1>3. LET i == Listening!Reset(g, FALSE) IN i \in GateState /\ GateRight(i) /\ i.state = "idle" /\ i.late = 0
  BY ResetGate
<1>4. \A n \in GateState : GateRight(n) /\ (Owes(n) => Owes(g) \/ words \in Answers) => Outcome(g, Listening!Quiet(n), words)
  BY OutcomeOf DEF Listening!Quiet
<1>5. Outcome(g, Listening!Quiet(g), words)
  BY <1>4
<1>6. Outcome(g, Listening!Quiet(Listening!Partial(g, u.end)), words)
  BY <1>2, <1>4
<1>7. ~Owes(Listening!Reset(g, FALSE))
  <2>1. Listening!Reset(g, FALSE).state = "idle" /\ Listening!Reset(g, FALSE).late = 0
    BY <1>3
  <2>2. \A x : x.state = "idle" /\ x.late = 0 => ~Owes(x)
    BY DEF Owes
  <2> QED BY <2>1, <2>2
<1>10. Outcome(g, Listening!Quiet(Listening!Reset(g, FALSE)), words)
  BY <1>3, <1>4, <1>7
<1>11. Outcome(g, Listening!Wakes(g, u), words)
  BY <1>2, OutcomeOf DEF Listening!Wakes
<1>8. ASSUME Owes(g) \/ words \in Answers PROVE Outcome(g, Listening!Command(g), words)
  BY <1>3, <1>7, <1>8, OutcomeOf DEF Listening!Command
<1>9. ASSUME words \in Answers PROVE Outcome(g, Listening!HearsAnswer(u), words)
  <2> DEFINE m == Listening!Max2(u.end, instant)
  <2>1. m \in Nat \ {0}
    BY <1>1 DEF Listening!Max2
  <2> HIDE DEF m
  <2>2. LET l == Listening!Listening(m) IN l \in GateState /\ GateRight(l)
    BY <2>1, OpenGate
  <2>3. Listening!HearsAnswer(u) = Listening!Quiet(Listening!Listening(m))
    BY DEF Listening!HearsAnswer, m
  <2> QED BY <1>4, <1>9, <2>2, <2>3
<1> QED BY <1>5, <1>6, <1>8, <1>9, <1>10, <1>11

\* An outcome of a gate that was reset first is one of the gate as it was.
LEMMA OutcomeSince ==
  ASSUME NEW g, NEW c, NEW r, NEW words, Outcome(c, r, words), Owes(c) => Owes(g)
  PROVE  Outcome(g, r, words)
BY DEF Outcome

\* What a gate makes of words is right, whatever state it is in (feed).
LEMMA HeardBy ==
  ASSUME NEW g \in GateState, GateRight(g), NEW u \in Utterances, NEW words \in Listening!Words \ {"none"},
         instant \in Nat \ {0}
  PROVE  /\ g.state = "idle" => Outcome(g, Listening!OnIdle(g, u, words), words)
         /\ g.state = "partial" => Outcome(g, Listening!OnPartial(g, u, words), words)
         /\ g.state = "acking" => Outcome(g, Listening!OnAcking(g, u, words), words)
         /\ g.state = "listening" => Outcome(g, Listening!OnListening(g, u, words), words)
<1>1. words \in {"wake", "half wake", "answer", "wake and answer", "answer then command", "command"}
  BY DEF Listening!Words
<1>2. /\ Outcome(g, Listening!Quiet(g), words)
      /\ Outcome(g, Listening!Quiet(Listening!Partial(g, u.end)), words)
      /\ Outcome(g, Listening!Quiet(Listening!Reset(g, FALSE)), words)
      /\ Outcome(g, Listening!Wakes(g, u), words)
      /\ Owes(g) \/ words \in Answers => Outcome(g, Listening!Command(g), words)
      /\ words \in Answers => Outcome(g, Listening!HearsAnswer(u), words)
  BY OutcomesRight
<1>3. g.state \in {"acking", "listening"} => Owes(g)
  BY DEF Owes
<1>4. g.state = "idle" => Outcome(g, Listening!OnIdle(g, u, words), words)
  <2>1. CASE words \in {"wake", "wake and answer"}
    BY <1>2, <2>1 DEF Listening!OnIdle
  <2>2. CASE words = "half wake"
    BY <1>2, <2>2 DEF Listening!OnIdle
  <2>3. CASE words = "answer then command"
    BY <1>2, <2>3 DEF Listening!OnIdle, Answers
  <2>4. CASE words = "answer"
    BY <1>2, <2>4 DEF Listening!OnIdle, Answers
  <2>5. CASE words = "command"
    BY <1>2, <2>5 DEF Listening!OnIdle
  <2> QED BY <1>1, <2>1, <2>2, <2>3, <2>4, <2>5
<1>5. g.state = "partial" => Outcome(g, Listening!OnPartial(g, u, words), words)
  <2>1. CASE words \in {"wake", "wake and answer", "half wake"}
    BY <1>2, <2>1 DEF Listening!OnPartial
  <2>2. CASE words = "answer then command"
    BY <1>2, <2>2 DEF Listening!OnPartial, Answers
  <2>3. CASE words = "answer"
    BY <1>2, <2>3 DEF Listening!OnPartial, Answers
  <2>4. CASE words = "command"
    BY <1>2, <2>4 DEF Listening!OnPartial
  <2> QED BY <1>1, <2>1, <2>2, <2>3, <2>4
<1>6. g.state = "acking" => Outcome(g, Listening!OnAcking(g, u, words), words)
  <2>1. CASE words \in {"answer", "wake and answer"}
    BY <1>2, <2>1 DEF Listening!OnAcking, Answers
  <2>2. CASE words = "wake"
    BY <1>2, <2>2 DEF Listening!OnAcking
  <2>3. CASE words = "half wake"
    BY <1>2, <2>3 DEF Listening!OnAcking
  <2>4. CASE words \in {"command", "answer then command"}
    BY <1>2, <1>3, <2>4 DEF Listening!OnAcking
  <2> QED BY <1>1, <2>1, <2>2, <2>3, <2>4
<1>7. g.state = "listening" => Outcome(g, Listening!OnListening(g, u, words), words)
  <2>1. CASE words = "answer then command"
    BY <1>2, <2>1 DEF Listening!OnListening, Answers
  <2>2. CASE words \in {"answer", "wake and answer"}
    BY <1>2, <2>2 DEF Listening!OnListening, Answers
  <2>3. CASE words \in {"wake", "half wake", "command"} /\ Listening!EchoTail(g, u)
    BY <1>2, <2>3 DEF Listening!OnListening
  <2>4. CASE words = "wake" /\ ~Listening!EchoTail(g, u)
    BY <1>2, <2>4 DEF Listening!OnListening
  <2>5. CASE words = "half wake" /\ ~Listening!EchoTail(g, u)
    BY <1>2, <2>5 DEF Listening!OnListening
  <2>6. CASE words = "command" /\ ~Listening!EchoTail(g, u)
    BY <1>2, <1>3, <2>6 DEF Listening!OnListening
  <2> QED BY <1>1, <2>1, <2>2, <2>3, <2>4, <2>5, <2>6
<1> QED BY <1>4, <1>5, <1>6, <1>7

\* A gate is brought up to the time an utterance began.
LEMMA CaughtUpRight ==
  ASSUME NEW g \in GateState, GateRight(g), NEW u \in Utterances
  PROVE  LET c == Listening!CaughtUp(g, u)
         IN  /\ c \in GateState /\ GateRight(c) /\ (Owes(c) => Owes(g))
<1> DEFINE late == [state |-> "listening", deadline |-> g.late,
                    open |-> IF g.late > Window THEN g.late - Window ELSE 0, late |-> 0]
           c == Listening!CaughtUp(g, u)
<1>1. g.late \in Nat /\ g.deadline \in Nat /\ Window \in Nat
  BY ListeningAssumption DEF GateState
<1>2. c = IF g.state = "idle" /\ g.late > 0 /\ u.start <= g.late THEN late
          ELSE IF g.state = "acking" /\ u.start > g.deadline THEN Listening!Listening(g.deadline)
          ELSE IF g.state \in {"partial", "listening"} /\ u.start > g.deadline THEN Listening!Reset(g, FALSE)
          ELSE g
  BY DEF Listening!CaughtUp
<1>3. ASSUME g.state = "idle", g.late > 0 PROVE late \in GateState /\ GateRight(late) /\ Owes(g)
  <2> DEFINE o == IF g.late > Window THEN g.late - Window ELSE 0
             d == g.late
  <2>1. o \in Nat /\ d \in Nat /\ d > 0 /\ d = o + Window
    BY <1>1, <1>3 DEF GateRight
  <2> HIDE DEF o, d
  <2>2. \A z \in Nat : LET l == [state |-> "listening", deadline |-> d, open |-> o, late |-> z]
                       IN  l \in GateState /\ l.state = "listening" /\ l.deadline = d /\ l.open = o
    BY <2>1 DEF GateState
  <2>3. late = [state |-> "listening", deadline |-> d, open |-> o, late |-> 0]
    BY DEF o, d
  <2> HIDE DEF late
  <2>4. late \in GateState /\ late.state = "listening" /\ late.deadline = d /\ late.open = o
    BY <2>2, <2>3
  <2> QED BY <1>3, <2>1, <2>4 DEF GateRight, Owes
<1>4. ASSUME g.state = "acking"
      PROVE  LET l == Listening!Listening(g.deadline) IN l \in GateState /\ GateRight(l) /\ Owes(g)
  <2>1. g.deadline \in Nat \ {0}
    BY <1>1, <1>4 DEF GateRight
  <2> QED BY <1>4, <2>1, OpenGate DEF Owes
<1>5. LET i == Listening!Reset(g, FALSE) IN i \in GateState /\ GateRight(i) /\ ~Owes(i)
  <2>1. LET i == Listening!Reset(g, FALSE) IN i \in GateState /\ GateRight(i) /\ i.state = "idle" /\ i.late = 0
    BY ResetGate
  <2>2. \A x : x.state = "idle" /\ x.late = 0 => ~Owes(x)
    BY DEF Owes
  <2> QED BY <2>1, <2>2
<1> HIDE DEF late, c
<1>6. CASE g.state = "idle" /\ g.late > 0 /\ u.start <= g.late
  BY <1>2, <1>3, <1>6 DEF c
<1>7. CASE g.state = "acking" /\ u.start > g.deadline
  <2>1. c = Listening!Listening(g.deadline)
    BY <1>2, <1>7
  <2> QED BY <1>4, <1>7, <2>1 DEF c
<1>8. CASE g.state \in {"partial", "listening"} /\ u.start > g.deadline
  <2>1. c = Listening!Reset(g, FALSE)
    BY <1>2, <1>8
  <2> QED BY <1>5, <2>1 DEF c
<1>9. CASE c = g
  BY <1>9 DEF c
<1> QED BY <1>2, <1>6, <1>7, <1>8, <1>9

\* So it is after the timers have been looked at.
LEMMA FedRight ==
  ASSUME NEW g \in GateState, GateRight(g), NEW u \in Utterances, NEW words \in Listening!Words,
         instant \in Nat \ {0}
  PROVE  /\ Outcome(g, Listening!Fed(g, u, words), words)
         /\ words = "none" => Listening!Fed(g, u, words).gate = g
<1>1. CASE words = "none"
  <2>1. Listening!Fed(g, u, words) = Listening!Quiet(g)
    BY <1>1 DEF Listening!Fed
  <2>2. Outcome(g, Listening!Quiet(g), words)
    BY OutcomesRight
  <2>3. Listening!Quiet(g).gate = g
    BY DEF Listening!Quiet, Listening!Result
  <2> QED BY <2>1, <2>2, <2>3
<1>2. CASE words # "none"
  <2> DEFINE c == Listening!CaughtUp(g, u)
  <2>1. c \in GateState /\ GateRight(c) /\ (Owes(c) => Owes(g))
    BY CaughtUpRight
  <2>2. c.state \in {"idle", "partial", "acking", "listening"}
    BY <2>1 DEF GateState
  <2>3. Listening!Fed(g, u, words) =
          CASE c.state = "listening" -> Listening!OnListening(c, u, words)
            [] c.state = "acking"    -> Listening!OnAcking(c, u, words)
            [] c.state = "partial"   -> Listening!OnPartial(c, u, words)
            [] c.state = "idle"      -> Listening!OnIdle(c, u, words)
    BY <1>2 DEF Listening!Fed
  <2> HIDE DEF c
  <2>4. /\ c.state = "idle" => Outcome(c, Listening!OnIdle(c, u, words), words)
        /\ c.state = "partial" => Outcome(c, Listening!OnPartial(c, u, words), words)
        /\ c.state = "acking" => Outcome(c, Listening!OnAcking(c, u, words), words)
        /\ c.state = "listening" => Outcome(c, Listening!OnListening(c, u, words), words)
    BY <1>2, <2>1, HeardBy
  <2>5. Outcome(c, Listening!Fed(g, u, words), words)
    BY <2>2, <2>3, <2>4
  <2> QED BY <1>2, <2>1, <2>5, OutcomeSince
<1> QED BY <1>1, <1>2

\* The timer: an answer that was not heard opens the window, a window is kept for late words.
LEMMA ExpiredRight ==
  ASSUME NEW g \in GateState, GateRight(g), NEW win, WindowRight(g, win)
  PROVE  LET e == Listening!Expired(g)
         IN  /\ e \in GateState /\ GateRight(e) /\ (Owes(e) => Owes(g))
             /\ g.state = "acking" /\ e.state = "listening" => e.open \in Nat /\ e.deadline = e.open + Window /\ e.deadline > 0
             /\ ~(g.state = "acking" /\ e.state = "listening") => WindowRight(e, win)
<1> DEFINE e == Listening!Expired(g)
<1>1. e = IF g.state = "acking" /\ instant > g.deadline THEN Listening!Listening(g.deadline)
          ELSE IF g.state = "listening" /\ instant > g.deadline THEN Listening!Reset(g, TRUE) ELSE g
  BY DEF Listening!Expired
<1>2. CASE g.state = "acking" /\ instant > g.deadline
  <2>1. g.deadline \in Nat \ {0}
    BY <1>2 DEF GateRight, GateState
  <2>2. e = Listening!Listening(g.deadline)
    BY <1>1, <1>2
  <2>3. LET l == Listening!Listening(g.deadline)
        IN  /\ l \in GateState /\ GateRight(l) /\ l.state = "listening" /\ l.open = g.deadline
            /\ l.deadline = g.deadline + Window /\ l.deadline > 0
    BY <2>1, OpenGate
  <2>4. Owes(g)
    BY <1>2 DEF Owes
  <2> HIDE DEF e
  <2>5. /\ e \in GateState /\ GateRight(e) /\ e.state = "listening" /\ e.open \in Nat
        /\ e.deadline = e.open + Window /\ e.deadline > 0
    BY <2>1, <2>2, <2>3
  <2> QED BY <1>2, <2>4, <2>5 DEF e
<1>3. CASE g.state = "listening" /\ instant > g.deadline
  <2>1. e = Listening!Reset(g, TRUE)
    BY <1>1, <1>3
  <2>2. LET i == Listening!Reset(g, TRUE)
        IN  i \in GateState /\ GateRight(i) /\ i.state = "idle" /\ i.late = IF TRUE /\ g.state = "listening" THEN g.deadline ELSE 0
    BY ResetGate
  <2> HIDE DEF e
  <2>3. e \in GateState /\ GateRight(e) /\ e.state = "idle" /\ e.late = g.deadline
    BY <1>3, <2>1, <2>2
  <2>4. WindowRight(e, win)
    BY <1>3, <2>3 DEF WindowRight
  <2>5. Owes(g)
    BY <1>3 DEF Owes
  <2> QED BY <1>3, <2>3, <2>4, <2>5 DEF e
<1>4. CASE e = g
  <2>1. ~(g.state = "acking" /\ g.state = "listening")
    OBVIOUS
  <2> HIDE DEF e
  <2> QED BY <1>4, <2>1 DEF e
<1> QED BY <1>1, <1>2, <1>3, <1>4

\* A command that was begun in the window opened last comes out of the gate.
LEMMA LateCommand ==
  ASSUME NEW g \in GateState, GateRight(g), NEW win, win \in [from : Nat, till : Nat], WindowRight(g, win),
         NEW u \in Utterances, win.from <= u.start, u.start <= win.till
  PROVE  Listening!Fed(g, u, "command").cmd = TRUE
<1> DEFINE c == Listening!CaughtUp(g, u)
<1>1. /\ g.late \in Nat /\ g.deadline \in Nat /\ g.open \in Nat /\ Window \in Nat /\ u.start \in Nat
      /\ win.from \in Nat /\ win.till \in Nat
  BY ListeningAssumption DEF GateState, Utterances
<1>2. win # Listening!NoWindow
  BY <1>1 DEF Listening!NoWindow
<1>3. /\ win.till = win.from + Window /\ win.till > 0
      /\ \/ g.state = "listening" /\ g.open = win.from /\ g.deadline = win.till
         \/ g.state = "idle" /\ g.late = win.till
  BY <1>2 DEF WindowRight
<1>4. c.state = "listening" /\ c.open <= u.start
  <2>1. CASE g.state = "listening" /\ g.open = win.from /\ g.deadline = win.till
    <3>1. ~(u.start > g.deadline)
      BY <1>1, <2>1
    <3>2. c = g
      BY <2>1, <3>1 DEF Listening!CaughtUp
    <3> HIDE DEF c
    <3> QED BY <2>1, <3>2
  <2>2. CASE g.state = "idle" /\ g.late = win.till
    <3> DEFINE o == IF g.late > Window THEN g.late - Window ELSE 0
    <3>1. o <= u.start /\ g.late > 0 /\ u.start <= g.late
      BY <1>1, <1>3, <2>2
    <3>2. c = [state |-> "listening", deadline |-> g.late, open |-> o, late |-> 0]
      BY <2>2, <3>1 DEF Listening!CaughtUp
    <3> HIDE DEF c, o
    <3>3. c.state = "listening" /\ c.open = o
      BY <3>2
    <3> QED BY <3>1, <3>3
  <2> QED BY <1>3, <2>1, <2>2
<1>5. c.open \in Nat
  <2>1. c \in GateState
    BY CaughtUpRight
  <2> QED BY <2>1 DEF GateState
<1>6. Listening!Fed(g, u, "command") = Listening!OnListening(c, u, "command")
  BY <1>4 DEF Listening!Fed
<1> HIDE DEF c
<1>7. ~Listening!EchoTail(c, u)
  BY <1>1, <1>4, <1>5 DEF Listening!EchoTail
<1>8. Listening!OnListening(c, u, "command") = Listening!Command(c)
  BY <1>7 DEF Listening!OnListening
<1>9. Listening!Command(c).cmd = TRUE
  BY DEF Listening!Command, Listening!Result
<1> QED BY <1>6, <1>8, <1>9

-----------------------------------------------------------------------------
(* Steps.                                                                  *)

\* The invariant of the gates holds at the start.
LEMMA ListeningBegins == Listening!Init => ListeningInv
<1> SUFFICES ASSUME Listening!Init PROVE ListeningInv
  OBVIOUS
<1>1. /\ instant = 1 /\ mic = [k \in Keys |-> 0] /\ queue = <<>> /\ capture = TRUE /\ loop = Listening!Poll
      /\ gate = [k \in Keys |-> Listening!Idle] /\ ack = [k \in Keys |-> "none"]
      /\ openings = [k \in Keys |-> 0] /\ posted = [k \in Keys |-> 0] /\ window = [k \in Keys |-> Listening!NoWindow]
  BY DEF Listening!Init
<1>2. LastInstant \in Nat \ {0} /\ QueueMax \in Nat
  BY ListeningAssumption
<1>3. Listening!Idle \in GateState /\ Listening!Idle.state = "idle" /\ Listening!Idle.late = 0
  <2>1. Listening!Idle = [state |-> "idle", deadline |-> 0, open |-> 0, late |-> 0]
    BY DEF Listening!Idle
  <2> QED BY <2>1 DEF GateState
<1>4. GateRight(Listening!Idle) /\ ~Owes(Listening!Idle)
  BY <1>3 DEF GateRight, Owes
<1>5. WindowRight(Listening!Idle, Listening!NoWindow) /\ Listening!NoWindow \in [from : Nat, till : Nat]
  BY DEF WindowRight, Listening!NoWindow
<1>6. ListeningTypes
  <2>1. queue \in Seq(Utterances \union {Listening!Dead}) /\ Len(queue) <= QueueMax
    BY <1>1, <1>2
  <2>2. instant \in Nat /\ 1 <= instant /\ instant <= LastInstant
    BY <1>1, <1>2
  <2>3. mic \in [Keys -> Nat] /\ posted \in [Keys -> Nat] /\ openings \in [Keys -> Nat]
    BY <1>1
  <2>4. gate \in [Keys -> GateState]
    BY <1>1, <1>3
  <2>5. window \in [Keys -> [from : Nat, till : Nat]]
    BY <1>1, <1>5
  <2> QED BY <1>1, <2>1, <2>2, <2>3, <2>4, <2>5 DEF ListeningTypes
<1>7. ASSUME NEW k \in Keys
      PROVE  /\ mic[k] = 0 /\ posted[k] = 0 /\ openings[k] = 0 /\ gate[k] = Listening!Idle
             /\ window[k] = Listening!NoWindow
  BY <1>1
<1> QED BY <1>1, <1>4, <1>5, <1>6, <1>7 DEF ListeningInv

\* It holds as long as none of the part's variables changes.
LEMMA ListeningStays == ListeningInv /\ UNCHANGED listeningVars => ListeningInv'
BY DEF ListeningInv, ListeningTypes, listeningVars

\* A step that leaves the gates alone.
LEMMA ListeningAround ==
  ASSUME ListeningInv, UNCHANGED <<gate, openings, posted, window>>,
         instant' \in Nat, instant <= instant', instant' <= LastInstant, capture' \in BOOLEAN,
         queue' \in Seq(Utterances \union {Listening!Dead}), Len(queue') <= QueueMax,
         loop' \in Utterances \union {Listening!Poll, Listening!Over},
         ack' \in [Keys -> {"none", "saying"}], mic' \in [Keys -> Nat],
         \A k \in Keys : mic'[k] <= instant'
  PROVE  ListeningInv'
<1>1. ListeningTypes'
  BY DEF ListeningInv, ListeningTypes
<1>2. \A k \in Keys : /\ GateRight(gate[k]) /\ WindowRight(gate[k], window[k])
                       /\ posted[k] <= openings[k] /\ (Owes(gate[k]) => posted[k] < openings[k])
  BY DEF ListeningInv
<1> QED BY <1>1, <1>2 DEF ListeningInv

\* A step of one gate.
LEMMA GateOfOne ==
  ASSUME ListeningInv, NEW k \in Keys, NEW g \in GateState, GateRight(g), gate' = [gate EXCEPT ![k] = g],
         NEW p \in Nat, posted' = [posted EXCEPT ![k] = p], NEW o \in Nat, openings' = [openings EXCEPT ![k] = o],
         NEW win \in [from : Nat, till : Nat], window' = [window EXCEPT ![k] = win], WindowRight(g, win),
         p <= o, Owes(g) => p < o,
         UNCHANGED <<instant, queue>>, capture' \in BOOLEAN,
         loop' \in Utterances \union {Listening!Poll, Listening!Over},
         ack' \in [Keys -> {"none", "saying"}], mic' \in [Keys -> Nat],
         \A j \in Keys : mic'[j] <= instant
  PROVE  ListeningInv'
<1>1. gate \in [Keys -> GateState] /\ posted \in [Keys -> Nat] /\ openings \in [Keys -> Nat]
      /\ window \in [Keys -> [from : Nat, till : Nat]]
  BY DEF ListeningInv, ListeningTypes
<1>2. /\ gate' \in [Keys -> GateState] /\ posted' \in [Keys -> Nat] /\ openings' \in [Keys -> Nat]
      /\ window' \in [Keys -> [from : Nat, till : Nat]]
  BY <1>1
<1>3. /\ gate'[k] = g /\ posted'[k] = p /\ openings'[k] = o /\ window'[k] = win
      /\ \A j \in Keys \ {k} : /\ gate'[j] = gate[j] /\ posted'[j] = posted[j] /\ openings'[j] = openings[j]
                               /\ window'[j] = window[j]
  BY <1>1
<1>4. ListeningTypes'
  BY <1>2 DEF ListeningInv, ListeningTypes
<1>5. \A j \in Keys \ {k} : /\ GateRight(gate[j]) /\ WindowRight(gate[j], window[j])
                            /\ posted[j] <= openings[j] /\ (Owes(gate[j]) => posted[j] < openings[j])
  BY DEF ListeningInv
<1>6. ASSUME NEW j \in Keys
      PROVE  /\ GateRight(gate'[j]) /\ WindowRight(gate'[j], window'[j])
             /\ posted'[j] <= openings'[j] /\ (Owes(gate'[j]) => posted'[j] < openings'[j])
  <2>1. CASE j = k
    BY <1>3, <2>1
  <2>2. CASE j # k
    BY <1>3, <1>5, <2>2
  <2> QED BY <2>1, <2>2
<1>7. \A j \in Keys : mic'[j] <= instant'
  OBVIOUS
<1> QED BY <1>4, <1>6, <1>7 DEF ListeningInv

\* Every step of the part keeps it.
LEMMA ListeningStep == ListeningInv /\ Listening!Next => ListeningInv'
<1> SUFFICES ASSUME ListeningInv, Listening!Next PROVE ListeningInv'
  OBVIOUS
<1> DEFINE Clips == Utterances \union {Listening!Dead}
<1>1. /\ instant \in Nat /\ 1 <= instant /\ instant <= LastInstant /\ capture \in BOOLEAN
      /\ queue \in Seq(Clips) /\ Len(queue) <= QueueMax
      /\ loop \in Utterances \union {Listening!Poll, Listening!Over}
      /\ ack \in [Keys -> {"none", "saying"}] /\ mic \in [Keys -> Nat]
      /\ gate \in [Keys -> GateState] /\ window \in [Keys -> [from : Nat, till : Nat]]
      /\ posted \in [Keys -> Nat] /\ openings \in [Keys -> Nat]
  BY DEF ListeningInv, ListeningTypes
<1>2. \A k \in Keys :
          /\ mic[k] <= instant /\ GateRight(gate[k]) /\ WindowRight(gate[k], window[k])
          /\ posted[k] <= openings[k] /\ (Owes(gate[k]) => posted[k] < openings[k])
  BY DEF ListeningInv
<1>3. /\ QueueMax \in Nat \ {0} /\ LastInstant \in Nat /\ instant \in Nat \ {0}
  BY <1>1, ListeningAssumption
<1>4. CASE Listening!Tick
  <2>1. /\ instant < LastInstant /\ instant' = instant + 1
        /\ UNCHANGED <<mic, queue, capture, loop, gate, ack, openings, posted, window>>
    BY <1>4 DEF Listening!Tick
  <2>2. instant' \in Nat /\ instant <= instant' /\ instant' <= LastInstant /\ \A k \in Keys : mic'[k] <= instant'
    BY <1>1, <1>2, <1>3, <2>1
  <2> QED BY <1>1, <2>1, <2>2, ListeningAround
<1>5. ASSUME NEW k \in Keys, Listening!SpeechBegins(k) PROVE ListeningInv'
  <2>1. /\ mic' = [mic EXCEPT ![k] = instant]
        /\ UNCHANGED <<instant, queue, capture, loop, gate, ack, openings, posted, window>>
    BY <1>5 DEF Listening!SpeechBegins
  <2>2. mic' \in [Keys -> Nat] /\ \A j \in Keys : mic'[j] <= instant
    BY <1>1, <1>2, <2>1
  <2> QED BY <1>1, <2>1, <2>2, ListeningAround
\* The microphone falls silent.
<1>6. ASSUME NEW k, mic' = [mic EXCEPT ![k] = 0]
      PROVE  mic' \in [Keys -> Nat] /\ \A j \in Keys : mic'[j] <= instant
  <2>1. mic' = [j \in Keys |-> IF j = k THEN 0 ELSE mic[j]]
    BY <1>1, <1>6
  <2>2. \A j \in Keys : mic[j] \in Nat /\ mic[j] <= instant /\ 0 <= instant /\ instant \in Nat
    BY <1>1, <1>2
  <2> QED BY <2>1, <2>2
<1>7. \A c \in Clips : Append(queue, c) \in Seq(Clips) /\ Len(Append(queue, c)) = Len(queue) + 1
  BY <1>1
<1>8. ASSUME NEW k \in Keys, Listening!SpeechEnds(k) PROVE ListeningInv'
  <2> DEFINE c == [what |-> "speech", key |-> k, start |-> mic[k], end |-> instant]
  <2>1. /\ mic[k] # 0 /\ queue' = Listening!PutLatest(c) /\ mic' = [mic EXCEPT ![k] = 0]
        /\ UNCHANGED <<instant, capture, loop, gate, ack, openings, posted, window>>
    BY <1>8 DEF Listening!SpeechEnds
  <2>2. c \in Clips
    BY <1>1, <1>3, <2>1 DEF Utterances
  <2> HIDE DEF c
  <2>3. queue' \in Seq(Clips) /\ Len(queue') <= QueueMax
    <3>1. (queue' = Append(queue, c) /\ Len(queue) < QueueMax) \/ queue' = <<c>>
      BY <2>1 DEF Listening!PutLatest
    <3>2. CASE queue' = Append(queue, c) /\ Len(queue) < QueueMax
      <4>1. Len(queue) \in Nat
        BY <1>1
      <4> QED BY <1>3, <1>7, <2>2, <3>2, <4>1
    <3>3. CASE queue' = <<c>>
      <4>1. <<c>> \in Seq(Clips) /\ Len(<<c>>) = 1
        BY <2>2
      <4> QED BY <1>3, <3>3, <4>1
    <3> QED BY <3>1, <3>2, <3>3
  <2>4. mic' \in [Keys -> Nat] /\ \A j \in Keys : mic'[j] <= instant
    BY <1>6, <2>1
  <2> QED BY <1>1, <2>1, <2>3, <2>4, ListeningAround
<1>9. ASSUME NEW k \in Keys, Listening!SpeechDropped(k) PROVE ListeningInv'
  <2>1. /\ mic' = [mic EXCEPT ![k] = 0]
        /\ UNCHANGED <<instant, queue, capture, loop, gate, ack, openings, posted, window>>
    BY <1>9 DEF Listening!SpeechDropped
  <2>2. mic' \in [Keys -> Nat] /\ \A j \in Keys : mic'[j] <= instant
    BY <1>6, <2>1
  <2> QED BY <1>1, <2>1, <2>2, ListeningAround
<1>10. CASE Listening!CaptureDies
  <2>1. /\ mic' = [mic EXCEPT ![Usb] = 0] /\ capture' = FALSE
        /\ queue' = IF Len(queue) < QueueMax THEN Append(queue, Listening!Dead) ELSE queue
        /\ UNCHANGED <<instant, loop, gate, ack, openings, posted, window>>
    BY <1>10 DEF Listening!CaptureDies
  <2>4. capture' \in BOOLEAN
    BY <2>1
  <2>2. mic' \in [Keys -> Nat] /\ \A j \in Keys : mic'[j] <= instant
    BY <1>6, <2>1
  <2>3. queue' \in Seq(Clips) /\ Len(queue') <= QueueMax
    <3>1. Len(queue) \in Nat /\ Listening!Dead \in Clips
      BY <1>1
    <3> QED BY <1>1, <1>3, <1>7, <2>1, <3>1
  <2> QED BY <1>1, <2>1, <2>2, <2>3, <2>4, ListeningAround
<1>11. CASE Listening!LoopTakes
  <2>1. /\ queue # <<>> /\ queue' = Tail(queue) /\ UNCHANGED <<instant, gate, openings, posted, window>>
    BY <1>11 DEF Listening!LoopTakes
  <2>2. Head(queue) \in Clips /\ queue' \in Seq(Clips) /\ Len(queue') <= QueueMax
    <3>1. Len(queue) \in Nat /\ Len(queue) > 0
      BY <1>1, <2>1
    <3>2. Len(Tail(queue)) = Len(queue) - 1
      BY <1>1, <2>1
    <3>3. Len(queue') <= QueueMax
      BY <1>1, <1>3, <2>1, <3>1, <3>2
    <3> QED BY <1>1, <2>1, <3>3
  <2>3. CASE Head(queue) = Listening!Dead
    <3>1. /\ loop' = Listening!Over /\ ack' = [k \in Keys |-> "none"] /\ capture' = FALSE /\ mic' = [k \in Keys |-> 0]
      BY <1>11, <2>3 DEF Listening!LoopTakes, Listening!Ended
    <3>2. ack' \in [Keys -> {"none", "saying"}] /\ mic' \in [Keys -> Nat] /\ \A k \in Keys : mic'[k] <= instant
      BY <1>1, <3>1
    <3>3. capture' \in BOOLEAN /\ loop' \in Utterances \union {Listening!Poll, Listening!Over}
      BY <3>1
    <3> QED BY <1>1, <2>1, <2>2, <3>2, <3>3, ListeningAround
  <2>4. CASE Head(queue) # Listening!Dead
    <3>1. /\ loop' = Listening!Poll \/ loop' = Head(queue)
          /\ UNCHANGED <<ack, capture, mic>>
      BY <1>11, <2>4 DEF Listening!LoopTakes
    <3>2. loop' \in Utterances \union {Listening!Poll, Listening!Over}
      BY <2>2, <2>4, <3>1
    <3> QED BY <1>1, <1>2, <2>1, <2>2, <3>1, <3>2, ListeningAround
  <2> QED BY <2>3, <2>4
<1>12. CASE Listening!LoopDrops
  <2>1. loop' = Listening!Poll /\ UNCHANGED <<instant, mic, queue, capture, gate, ack, openings, posted, window>>
    BY <1>12 DEF Listening!LoopDrops
  <2> QED BY <1>1, <1>2, <2>1, ListeningAround
<1>13. CASE Listening!LoopExpires
  <2>1. /\ gate' = [k \in Keys |-> Listening!Expired(gate[k])]
        /\ window' = [k \in Keys |->
                        IF gate[k].state = "acking" /\ gate'[k].state = "listening"
                        THEN [from |-> gate'[k].open, till |-> gate'[k].deadline] ELSE window[k]]
        /\ UNCHANGED <<instant, mic, queue, capture, loop, ack, openings, posted>>
    BY <1>13 DEF Listening!LoopExpires
  <2>2. ASSUME NEW k \in Keys
        PROVE  /\ gate'[k] \in GateState /\ GateRight(gate'[k]) /\ (Owes(gate'[k]) => Owes(gate[k]))
               /\ window'[k] \in [from : Nat, till : Nat] /\ WindowRight(gate'[k], window'[k])
    <3>1. gate'[k] = Listening!Expired(gate[k])
      BY <2>1
    <3>2. LET e == Listening!Expired(gate[k])
          IN  /\ e \in GateState /\ GateRight(e) /\ (Owes(e) => Owes(gate[k]))
              /\ gate[k].state = "acking" /\ e.state = "listening" =>
                    e.open \in Nat /\ e.deadline = e.open + Window /\ e.deadline > 0
              /\ ~(gate[k].state = "acking" /\ e.state = "listening") => WindowRight(e, window[k])
      BY <1>1, <1>2, ExpiredRight
    <3> DEFINE e == gate'[k]
    <3>3. /\ e \in GateState /\ GateRight(e) /\ (Owes(e) => Owes(gate[k]))
          /\ gate[k].state = "acking" /\ e.state = "listening" =>
                 e.open \in Nat /\ e.deadline = e.open + Window /\ e.deadline > 0
          /\ ~(gate[k].state = "acking" /\ e.state = "listening") => WindowRight(e, window[k])
      BY <3>1, <3>2
    <3>4. window'[k] = IF gate[k].state = "acking" /\ e.state = "listening"
                       THEN [from |-> e.open, till |-> e.deadline] ELSE window[k]
      BY <2>1
    <3> HIDE DEF e
    <3>5. CASE gate[k].state = "acking" /\ e.state = "listening"
      <4>1. window'[k] = [from |-> e.open, till |-> e.deadline] /\ e.open \in Nat /\ e.deadline \in Nat
        BY <3>3, <3>4, <3>5 DEF GateState
      <4>2. window'[k] \in [from : Nat, till : Nat] /\ window'[k].from = e.open /\ window'[k].till = e.deadline
        BY <4>1
      <4>3. WindowRight(e, window'[k])
        BY <3>3, <3>5, <4>2 DEF WindowRight
      <4> QED BY <3>3, <4>2, <4>3 DEF e
    <3>6. CASE ~(gate[k].state = "acking" /\ e.state = "listening")
      BY <1>1, <3>3, <3>4, <3>6 DEF e
    <3> QED BY <3>5, <3>6
  <2>3. ListeningTypes'
    <3>1. gate' \in [Keys -> GateState]
      BY <2>1, <2>2
    <3>2. window' \in [Keys -> [from : Nat, till : Nat]]
      BY <2>1, <2>2
    <3> QED BY <1>1, <2>1, <3>1, <3>2 DEF ListeningTypes
  <2>4. \A k \in Keys : posted'[k] <= openings'[k] /\ (Owes(gate'[k]) => posted'[k] < openings'[k]) /\ mic'[k] <= instant'
    BY <1>2, <2>1, <2>2
  <2> QED BY <2>2, <2>3, <2>4 DEF ListeningInv
<1>14. ASSUME NEW k \in Keys, Listening!AckDone(k) PROVE ListeningInv'
  <2> DEFINE opens == gate[k].state = "acking"
             g == IF opens THEN Listening!Listening(instant) ELSE gate[k]
             till == instant + Window
             win == IF opens THEN [from |-> instant, till |-> till] ELSE window[k]
  <2>1. /\ ack' = [ack EXCEPT ![k] = "none"] /\ gate' = [gate EXCEPT ![k] = g] /\ window' = [window EXCEPT ![k] = win]
        /\ UNCHANGED <<instant, mic, queue, capture, loop, openings, posted>>
    BY <1>1, <1>14 DEF Listening!AckDone
  <2>2. LET l == Listening!Listening(instant)
        IN  /\ l \in GateState /\ GateRight(l) /\ l.state = "listening" /\ l.open = instant
            /\ l.deadline = instant + Window /\ l.deadline > 0
    BY <1>3, OpenGate
  <2>3. till \in Nat
    BY <1>1, ListeningAssumption
  <2>4. opens => Owes(gate[k])
    BY DEF Owes
  <2>5. g \in GateState /\ GateRight(g) /\ (Owes(g) => Owes(gate[k]))
    BY <1>1, <1>2, <2>2, <2>4
  <2>6. win \in [from : Nat, till : Nat] /\ WindowRight(g, win)
    <3>1. CASE opens
      <4>1. g = Listening!Listening(instant) /\ win = [from |-> instant, till |-> till]
        BY <3>1
      <4> HIDE DEF g, win, opens
      <4>2. win \in [from : Nat, till : Nat] /\ win.from = instant /\ win.till = till
        BY <1>1, <2>3, <4>1
      <4>3. g.state = "listening" /\ g.open = instant /\ g.deadline = till /\ till > 0
        BY <2>2, <4>1 DEF till
      <4>4. win.till = win.from + Window
        BY <4>2 DEF till
      <4>5. WindowRight(g, win)
        BY <4>2, <4>3, <4>4 DEF WindowRight
      <4> QED BY <4>2, <4>5
    <3>2. CASE ~opens
      BY <1>1, <1>2, <3>2
    <3> QED BY <3>1, <3>2
  <2>7. /\ posted[k] \in Nat /\ openings[k] \in Nat /\ posted[k] <= openings[k] /\ (Owes(g) => posted[k] < openings[k])
        /\ posted' = [posted EXCEPT ![k] = posted[k]] /\ openings' = [openings EXCEPT ![k] = openings[k]]
    BY <1>1, <1>2, <2>1, <2>5
  <2> HIDE DEF g, win, opens, till
  <2>8. ack' \in [Keys -> {"none", "saying"}] /\ \A j \in Keys : mic'[j] <= instant
    BY <1>1, <1>2, <2>1
  <2> QED BY <1>1, <2>1, <2>5, <2>6, <2>7, <2>8, GateOfOne
<1>15. ASSUME NEW words \in Listening!Words, Listening!LoopHears(words) PROVE ListeningInv'
  <2> DEFINE u == loop
             k == u.key
             r == Listening!Fed(gate[k], u, words)
             hears == r.gate.state = "listening" /\ r.gate # gate[k]
             opens == r.say \/ words \in Answers
             o == openings[k] + (IF opens THEN 1 ELSE 0)
             p == posted[k] + (IF r.cmd THEN 1 ELSE 0)
             win == IF hears THEN [from |-> r.gate.open, till |-> r.gate.deadline]
                    ELSE IF words = "none" \/ r.gate = gate[k] THEN window[k] ELSE Listening!NoWindow
  <2>1. u \in Utterances
    BY <1>1, <1>15 DEF Listening!LoopHears
  <2>2. k \in Keys
    BY <2>1 DEF Utterances
  <2>3. /\ gate' = [gate EXCEPT ![k] = r.gate] /\ openings' = [openings EXCEPT ![k] = o]
        /\ posted' = [posted EXCEPT ![k] = p] /\ window' = [window EXCEPT ![k] = win]
    BY <1>1, <1>15, <2>2 DEF Listening!LoopHears, Answers
  <2>4. /\ \/ /\ loop' = Listening!Poll
              /\ ack' = [ack EXCEPT ![k] = "saying"] \/ ack' = ack
              /\ UNCHANGED <<capture, mic>>
           \/ Listening!Ended
        /\ UNCHANGED <<instant, queue>>
    BY <1>15 DEF Listening!LoopHears
  <2>5. Outcome(gate[k], r, words) /\ (words = "none" => r.gate = gate[k])
    BY <1>1, <1>2, <1>3, <2>1, <2>2, FedRight
  <2> HIDE DEF k, u, r
  <2>6. r.gate \in GateState /\ GateRight(r.gate) /\ r.cmd \in BOOLEAN /\ r.say \in BOOLEAN
    BY <2>5 DEF Outcome
  <2>7. /\ r.cmd => ~Owes(r.gate) /\ (Owes(gate[k]) \/ opens)
        /\ Owes(r.gate) => Owes(gate[k]) \/ opens
    BY <2>5 DEF Outcome
  <2>8. WindowRight(r.gate, win) /\ win \in [from : Nat, till : Nat]
    <3>1. CASE hears
      <4>1. win = [from |-> r.gate.open, till |-> r.gate.deadline] /\ r.gate.state = "listening"
        BY <3>1
      <4>2. r.gate.open \in Nat /\ r.gate.deadline \in Nat
        BY <2>6 DEF GateState
      <4> HIDE DEF win, hears
      <4>3. win \in [from : Nat, till : Nat] /\ win.from = r.gate.open /\ win.till = r.gate.deadline
        BY <4>1, <4>2
      <4>4. r.gate.deadline = r.gate.open + Window /\ r.gate.deadline > 0
        BY <2>6, <4>1 DEF GateRight
      <4> QED BY <4>1, <4>3, <4>4 DEF WindowRight
    <3>2. CASE ~hears /\ (words = "none" \/ r.gate = gate[k])
      <4>1. r.gate = gate[k] /\ win = window[k]
        BY <2>5, <3>2
      <4> QED BY <1>1, <1>2, <2>2, <4>1
    <3>3. CASE ~hears /\ ~(words = "none" \/ r.gate = gate[k])
      <4>1. win = Listening!NoWindow
        BY <3>3
      <4> QED BY <4>1 DEF WindowRight, Listening!NoWindow
    <3> QED BY <3>1, <3>2, <3>3
  <2>9. /\ p \in Nat /\ o \in Nat /\ p <= o /\ (Owes(r.gate) => p < o)
    <3>1. posted[k] \in Nat /\ openings[k] \in Nat /\ posted[k] <= openings[k] /\ (Owes(gate[k]) => posted[k] < openings[k])
      BY <1>1, <1>2, <2>2
    <3> HIDE DEF opens
    <3>2. opens \in BOOLEAN
      BY <2>6 DEF opens
    <3>3. CASE r.cmd
      <4>1. p = posted[k] + 1 /\ ~Owes(r.gate) /\ (Owes(gate[k]) \/ opens)
        BY <2>7, <3>3
      <4>2. CASE opens
        BY <3>1, <4>1, <4>2
      <4>3. CASE ~opens
        BY <3>1, <4>1, <4>3
      <4> QED BY <4>2, <4>3
    <3>4. CASE ~r.cmd
      <4>1. p = posted[k]
        BY <3>1, <3>4
      <4>2. CASE opens
        BY <3>1, <4>1, <4>2
      <4>3. CASE ~opens
        BY <2>7, <3>1, <4>1, <4>3
      <4> QED BY <4>2, <4>3
    <3> QED BY <3>3, <3>4
  <2> HIDE DEF p, o, win
  <2>10. /\ loop' \in Utterances \union {Listening!Poll, Listening!Over} /\ capture' \in BOOLEAN
         /\ ack' \in [Keys -> {"none", "saying"}] /\ mic' \in [Keys -> Nat] /\ \A j \in Keys : mic'[j] <= instant
    <3>1. CASE Listening!Ended
      <4>1. /\ loop' = Listening!Over /\ ack' = [j \in Keys |-> "none"] /\ capture' = FALSE
            /\ mic' = [j \in Keys |-> 0]
        BY <3>1 DEF Listening!Ended
      <4>2. capture' \in BOOLEAN /\ loop' \in Utterances \union {Listening!Poll, Listening!Over}
        BY <4>1
      <4>3. ack' \in [Keys -> {"none", "saying"}] /\ mic' \in [Keys -> Nat] /\ \A j \in Keys : mic'[j] <= instant
        BY <1>1, <4>1
      <4> QED BY <4>2, <4>3
    <3>2. CASE loop' = Listening!Poll /\ (ack' = [ack EXCEPT ![k] = "saying"] \/ ack' = ack) /\ UNCHANGED <<capture, mic>>
      BY <1>1, <1>2, <3>2
    <3> QED BY <2>4, <3>1, <3>2
  <2> QED BY <2>2, <2>3, <2>4, <2>6, <2>8, <2>9, <2>10, GateOfOne
<1> QED BY <1>4, <1>5, <1>8, <1>9, <1>10, <1>11, <1>12, <1>13, <1>14, <1>15 DEF Listening!Next

\* It implies the types and the properties of the gates.
LEMMA ListeningSafe == ListeningInv => Listening!TypeOK /\ Listening!OneCommandEach
<1> SUFFICES ASSUME ListeningInv PROVE Listening!TypeOK /\ Listening!OneCommandEach
  OBVIOUS
<1>1. /\ instant \in 1..LastInstant /\ capture \in BOOLEAN /\ Len(queue) <= QueueMax
      /\ ack \in [Keys -> {"none", "saying"}]
  BY ListeningAssumption DEF ListeningInv, ListeningTypes
<1>2. loop \in {Listening!Poll, Listening!Over} \/ loop.what = "speech"
  BY DEF ListeningInv, ListeningTypes, Utterances
<1>3. ASSUME NEW k \in Keys
      PROVE  mic[k] \in 0..instant /\ gate[k].state \in {"idle", "partial", "acking", "listening"}
  BY DEF ListeningInv, ListeningTypes, GateState
<1>4. Listening!TypeOK
  BY <1>1, <1>2, <1>3 DEF Listening!TypeOK
<1>5. Listening!OneCommandEach
  BY DEF ListeningInv, Listening!OneCommandEach
<1> QED BY <1>4, <1>5

\* What a recogniser brings late counts in every step.
LEMMA LateCounts ==
  ASSUME ListeningInv, NEW k \in Keys, Listening!LoopHears("command"), loop.key = k,
         window[k].from <= loop.start, loop.start <= window[k].till
  PROVE  posted'[k] = posted[k] + 1
<1>1. /\ loop \in Utterances /\ gate[k] \in GateState /\ GateRight(gate[k]) /\ window[k] \in [from : Nat, till : Nat]
      /\ WindowRight(gate[k], window[k]) /\ posted \in [Keys -> Nat]
  BY DEF ListeningInv, ListeningTypes, Listening!LoopHears
<1> DEFINE r == Listening!Fed(gate[k], loop, "command")
<1>2. r.cmd = TRUE
  BY <1>1, LateCommand
<1>3. posted' = [posted EXCEPT ![k] = @ + IF r.cmd THEN 1 ELSE 0]
  BY DEF Listening!LoopHears
<1> HIDE DEF r
<1> QED BY <1>1, <1>2, <1>3

-----------------------------------------------------------------------------
(* The cutting of sound into clips.                                        *)

ClipState == [from : Nat, length : (0..WakeMax) \union (0..CommandMax), quiet : Nat, command : BOOLEAN]

EndpointTypes ==
    /\ chunk \in 0..MaxChunks /\ preRoll \in 0..chunk /\ clip \in ClipState
    /\ deadline \in 0..(MaxChunks + Hold + Onset) /\ lastMuted \in 0..chunk

\* Sound that is kept is younger than the last that was muted, and a command's clip
\* has the endpoint that waits for the end of a command.
EndpointKept ==
    /\ preRoll # 0 => lastMuted < preRoll
    /\ clip # Endpoint!NoClip => lastMuted < clip.from
    /\ clip.command => inCommand = TRUE
    /\ Endpoint!CommandHeardOut

EndpointInv == EndpointTypes /\ inCommand \in BOOLEAN /\ EndpointKept

\* The invariant of the clips holds at the start.
LEMMA EndpointBegins == Endpoint!Init => EndpointInv
<1> SUFFICES ASSUME Endpoint!Init PROVE EndpointInv
  OBVIOUS
<1>1. /\ chunk = 0 /\ preRoll = 0 /\ clip = Endpoint!NoClip /\ deadline = 0 /\ lastMuted = 0
      /\ cut = Endpoint!NoCut
  BY DEF Endpoint!Init
<1>2. inCommand \in BOOLEAN
  BY Zenon DEF Endpoint!Init
<1> QED BY <1>1, <1>2, EndpointAssumption
      DEF EndpointInv, EndpointTypes, EndpointKept, ClipState, Endpoint!NoClip, Endpoint!NoCut,
          Endpoint!CommandHeardOut

\* It holds as long as none of the part's variables changes.
LEMMA EndpointStays == EndpointInv /\ UNCHANGED endpointVars => EndpointInv'
BY DEF EndpointInv, endpointVars, EndpointTypes, EndpointKept, ClipState, Endpoint!NoClip,
       Endpoint!CommandHeardOut

\* Every step of the part keeps it.
LEMMA EndpointStep == EndpointInv /\ Endpoint!Next => EndpointInv'
<1> SUFFICES ASSUME EndpointInv, Endpoint!Next PROVE EndpointInv'
  OBVIOUS
<1>1. /\ chunk \in 0..MaxChunks /\ preRoll \in 0..chunk /\ clip \in ClipState
      /\ deadline \in 0..(MaxChunks + Hold + Onset) /\ lastMuted \in 0..chunk
  BY DEF EndpointInv, EndpointTypes
<1>2. inCommand \in BOOLEAN
  BY DEF EndpointInv
<1>3. /\ preRoll # 0 => lastMuted < preRoll
      /\ clip # Endpoint!NoClip => lastMuted < clip.from
      /\ clip.command => inCommand = TRUE
  BY DEF EndpointInv, EndpointKept
<1>4. Endpoint!CommandHeardOut
  BY DEF EndpointInv, EndpointKept
<1>5. Endpoint!NoClip \in ClipState /\ ~Endpoint!NoClip.command
  BY EndpointAssumption DEF Endpoint!NoClip, ClipState
<1>6. /\ WakeSilence \in Nat /\ CommandSilence \in Nat /\ WakeMax \in Nat /\ MinSpeech \in Nat
      /\ Hold \in Nat /\ Onset \in Nat /\ MaxChunks \in Nat /\ CommandMax \in Nat \ {0}
  BY EndpointAssumption
<1>7. ASSUME Endpoint!BeginCommandListen PROVE EndpointInv'
  <2>1. /\ UNCHANGED <<chunk, preRoll, lastMuted, cut>> /\ inCommand' = FALSE
        /\ clip' = [clip EXCEPT !.command = FALSE]
        /\ deadline' = chunk + Onset + IF ingress = "phone" THEN Hold ELSE 0
    BY <1>7 DEF Endpoint!BeginCommandListen
  <2>2. deadline' \in 0..(MaxChunks + Hold + Onset)
    <3>1. CASE ingress = "phone"
      BY <1>1, <1>6, <2>1, <3>1
    <3>2. CASE ingress # "phone"
      BY <1>1, <1>6, <2>1, <3>2
    <3> QED BY <3>1, <3>2
  <2>3. /\ clip' \in ClipState /\ ~clip'.command /\ clip'.from = clip.from
        /\ clip' # Endpoint!NoClip => clip # Endpoint!NoClip
    <3>1. clip' \in ClipState /\ ~clip'.command /\ clip'.from = clip.from
      BY <1>1, <2>1 DEF ClipState
    <3>2. clip = Endpoint!NoClip => clip' = Endpoint!NoClip
      <4>1. \A c \in ClipState : c.command = FALSE => [c EXCEPT !.command = FALSE] = c
        BY DEF ClipState
      <4>2. Endpoint!NoClip.command = FALSE
        BY DEF Endpoint!NoClip
      <4> QED BY <1>5, <2>1, <4>1, <4>2
    <3>3. UNCHANGED Endpoint!NoClip
      BY DEF Endpoint!NoClip
    <3> QED BY <3>1, <3>2, <3>3
  <2>4. EndpointTypes'
    BY <1>1, <2>1, <2>2, <2>3 DEF EndpointTypes, ClipState
  <2>5. Endpoint!CommandHeardOut'
    BY <1>4, <2>1 DEF Endpoint!CommandHeardOut
  <2> QED BY <1>3, <2>1, <2>3, <2>4, <2>5 DEF EndpointInv, EndpointKept, Endpoint!NoClip
<1>8. ASSUME Endpoint!PlaybackTurns PROVE EndpointInv'
  <2>1. UNCHANGED <<chunk, preRoll, clip, deadline, inCommand, lastMuted, cut>>
    BY <1>8 DEF Endpoint!PlaybackTurns
  <2> QED BY <2>1 DEF EndpointInv, EndpointTypes, EndpointKept, ClipState, Endpoint!NoClip,
        Endpoint!CommandHeardOut
<1>9. ASSUME Endpoint!Idles PROVE inCommand' = FALSE /\ deadline' \in 0..(MaxChunks + Hold + Onset)
  BY <1>1, <1>6, <1>9 DEF Endpoint!Idles
<1>10. ASSUME Endpoint!MutedChunk PROVE EndpointInv'
  <2>1. /\ chunk < MaxChunks /\ chunk' = chunk + 1 /\ lastMuted' = chunk'
        /\ clip' = Endpoint!NoClip /\ preRoll' = 0 /\ cut' = cut
    BY <1>10 DEF Endpoint!MutedChunk
  <2>2. deadline' \in 0..(MaxChunks + Hold + Onset) /\ inCommand' \in BOOLEAN
    BY <1>1, <1>2, <1>9, <1>10 DEF Endpoint!MutedChunk
  <2>3. chunk' \in 0..MaxChunks
    BY <1>1, <1>6, <2>1
  <2>4. EndpointTypes'
    BY <1>5, <2>1, <2>2, <2>3 DEF EndpointTypes, ClipState
  <2>5. Endpoint!CommandHeardOut'
    BY <1>4, <2>1 DEF Endpoint!CommandHeardOut
  <2> QED BY <1>5, <2>1, <2>2, <2>4, <2>5 DEF EndpointInv, EndpointKept, Endpoint!NoClip
\* A chunk that is heard: what the clip that is open afterwards has to be.
<1>11. ASSUME Endpoint!Heard, NEW c \in ClipState, clip' = c,
              c # Endpoint!NoClip => lastMuted < c.from,
              c.command => inCommand' = TRUE, inCommand' \in BOOLEAN,
              preRoll' \in 0..chunk', preRoll' # 0 => lastMuted < preRoll',
              deadline' \in 0..(MaxChunks + Hold + Onset), Endpoint!CommandHeardOut'
       PROVE  EndpointInv'
  <2>1. chunk < MaxChunks /\ chunk' = chunk + 1 /\ lastMuted' = lastMuted
    BY <1>11 DEF Endpoint!Heard
  <2>2. chunk' \in 0..MaxChunks /\ lastMuted' \in 0..chunk'
    BY <1>1, <1>6, <2>1
  <2>3. EndpointTypes'
    BY <1>11, <2>2 DEF EndpointTypes, ClipState
  <2> QED BY <1>11, <2>1, <2>3 DEF EndpointInv, EndpointKept, Endpoint!NoClip
<1>12. ASSUME Endpoint!Heard PROVE chunk' = chunk + 1 /\ chunk' \in 0..MaxChunks /\ chunk' \in Nat
                                    /\ chunk' + Onset \in 0..(MaxChunks + Hold + Onset)
                                    /\ lastMuted < chunk' /\ lastMuted <= chunk
  BY <1>1, <1>6, <1>12 DEF Endpoint!Heard
<1>13. ASSUME Endpoint!QuietChunk PROVE EndpointInv'
  <2>1. Endpoint!Heard /\ clip = Endpoint!NoClip /\ clip' = clip /\ inCommand' = inCommand /\ cut' = cut
    BY <1>13 DEF Endpoint!QuietChunk
  <2>2. preRoll' \in 0..chunk' /\ (preRoll' # 0 => lastMuted < preRoll')
    <3>1. preRoll' = IF preRoll = 0 THEN chunk'
                     ELSE IF preRoll + 1 < chunk' THEN chunk' - 1 ELSE preRoll
      BY <1>13 DEF Endpoint!QuietChunk
    <3> QED BY <1>1, <1>3, <1>12, <2>1, <3>1
  <2>3. deadline' \in 0..(MaxChunks + Hold + Onset)
    BY <1>1, <1>12, <1>13, <2>1 DEF Endpoint!QuietChunk
  <2>4. Endpoint!CommandHeardOut'
    BY <1>4, <2>1 DEF Endpoint!CommandHeardOut
  <2>5. inCommand' \in BOOLEAN /\ (clip.command => inCommand' = TRUE)
    BY <1>2, <1>3, <2>1
  <2> QED BY <1>1, <1>3, <1>11, <2>1, <2>2, <2>3, <2>4, <2>5
<1>14. ASSUME Endpoint!LoudChunk PROVE EndpointInv'
  <2> DEFINE c == [from |-> IF preRoll = 0 THEN chunk' ELSE preRoll, length |-> 1,
                   quiet |-> 0, command |-> chunk' <= deadline \/ Endpoint!Unmuted]
  <2>1. /\ Endpoint!Heard /\ preRoll' = 0 /\ cut' = cut /\ clip' = c
        /\ deadline' = IF Endpoint!Unmuted THEN chunk' + Onset ELSE deadline
    BY <1>14 DEF Endpoint!LoudChunk
  <2>2. inCommand' = ((inCommand \/ chunk' <= deadline) \/ Endpoint!Unmuted)
    BY <1>14 DEF Endpoint!LoudChunk, Endpoint!ActiveOnSpeech, Endpoint!InWindow
  <2>3. c \in ClipState
    <3>1. (IF preRoll = 0 THEN chunk' ELSE preRoll) \in Nat
      BY <1>1, <1>12, <2>1
    <3>2. (chunk' <= deadline \/ Endpoint!Unmuted) \in BOOLEAN
      OBVIOUS
    <3>3. 1 \in (0..WakeMax) \union (0..CommandMax)
      BY <1>6
    <3> QED BY <3>1, <3>2, <3>3 DEF ClipState
  <2>4. lastMuted < c.from
    BY <1>1, <1>3, <1>12, <2>1
  <2>5. c.command => inCommand' = TRUE
    BY <2>2
  <2>6. inCommand' \in BOOLEAN
    BY <2>2
  <2>7. deadline' \in 0..(MaxChunks + Hold + Onset)
    BY <1>1, <1>12, <2>1
  <2>8. Endpoint!CommandHeardOut'
    BY <1>4, <2>1 DEF Endpoint!CommandHeardOut
  <2>9. preRoll' \in 0..chunk' /\ (preRoll' # 0 => lastMuted < preRoll')
    BY <1>12, <2>1
  <2> HIDE DEF c
  <2> QED BY <1>11, <2>1, <2>3, <2>4, <2>5, <2>6, <2>7, <2>8, <2>9
\* A clip one chunk longer.
<1>15. ASSUME NEW q \in BOOLEAN, clip # Endpoint!NoClip
       PROVE  /\ Endpoint!Longer(q).from = clip.from /\ Endpoint!Longer(q).command = clip.command
              /\ Endpoint!Longer(q).length = clip.length + 1 /\ Endpoint!Longer(q).quiet \in Nat
              /\ clip.length + 1 \in (0..WakeMax) \union (0..CommandMax) => Endpoint!Longer(q) \in ClipState
  <2> DEFINE n == IF q THEN clip.quiet + 1 ELSE 0
  <2>1. Endpoint!Longer(q) = [clip EXCEPT !.length = @ + 1, !.quiet = n]
    BY DEF Endpoint!Longer
  <2>2. n \in Nat
    BY <1>1 DEF ClipState
  <2> HIDE DEF n
  <2> QED BY <1>1, <2>1, <2>2 DEF ClipState
<1>16. ASSUME NEW q \in BOOLEAN, Endpoint!ClipGoesOn(q) PROVE EndpointInv'
  <2> DEFINE c == Endpoint!Longer(q)
  <2>1. /\ Endpoint!Heard /\ clip # Endpoint!NoClip /\ ~Endpoint!TooLong(c) /\ clip' = c
        /\ UNCHANGED <<preRoll, deadline, inCommand, cut>>
    BY <1>16 DEF Endpoint!ClipGoesOn
  <2>2. clip.length + 1 \in Nat /\ c.length = clip.length + 1
    BY <1>1, <1>15, <2>1 DEF ClipState
  <2>3. \E longest \in {WakeMax, CommandMax} : ~(c.length >= longest)
    BY <2>1 DEF Endpoint!TooLong, Endpoint!Longest
  <2>4. c \in ClipState
    BY <1>6, <1>15, <2>1, <2>2, <2>3
  <2>5. c.from = clip.from /\ c.command = clip.command
    BY <1>15, <2>1
  <2>6. Endpoint!CommandHeardOut'
    BY <1>4, <2>1 DEF Endpoint!CommandHeardOut
  <2>7. preRoll' \in 0..chunk'
    BY <1>1, <1>12, <2>1
  <2> HIDE DEF c
  <2>8. c.command => inCommand' = TRUE
    BY <1>3, <2>1, <2>5
  <2>9. inCommand' \in BOOLEAN
    BY <1>2, <2>1
  <2> QED BY <1>1, <1>3, <1>11, <2>1, <2>4, <2>5, <2>6, <2>7, <2>8, <2>9
<1>17. ASSUME NEW q \in BOOLEAN, Endpoint!ClipEnds(q) PROVE EndpointInv'
  <2> DEFINE c == Endpoint!Longer(q)
  <2>1. /\ Endpoint!Heard /\ clip # Endpoint!NoClip /\ clip' = Endpoint!NoClip /\ preRoll' = 0
        /\ Endpoint!Idles
        /\ Endpoint!TooLong(c) \/ Endpoint!SilentLongEnough(c)
        /\ \/ cut' = [clip |-> c, why |-> IF Endpoint!TooLong(c) THEN "max" ELSE "silence"]
           \/ UNCHANGED cut
    BY <1>17 DEF Endpoint!ClipEnds
  <2>2. c.command = clip.command
    BY <1>15, <2>1
  <2>3. c.command => inCommand
    BY <1>3, <2>2
  <2>4. Endpoint!CommandHeardOut'
    <3>1. CASE UNCHANGED cut
      BY <1>4, <3>1 DEF Endpoint!CommandHeardOut
    <3>2. CASE cut' = [clip |-> c, why |-> IF Endpoint!TooLong(c) THEN "max" ELSE "silence"]
      <4> SUFFICES ASSUME cut'.why = "silence", cut'.clip.command PROVE cut'.clip.quiet >= CommandSilence
        BY DEF Endpoint!CommandHeardOut
      <4>1. ~Endpoint!TooLong(c) /\ cut'.clip = c
        BY <3>2
      <4>2. Endpoint!SilentLongEnough(c) /\ inCommand
        BY <2>1, <2>3, <4>1
      <4>3. c.quiet >= CommandSilence
        BY <4>2 DEF Endpoint!SilentLongEnough, Endpoint!Silence, Endpoint!CommandEndpoint
      <4> QED BY <4>1, <4>3
    <3> QED BY <2>1, <3>1, <3>2
  <2>5. preRoll' \in 0..chunk' /\ ~(preRoll' # 0)
    BY <1>12, <2>1
  <2>6. inCommand' \in BOOLEAN /\ deadline' \in 0..(MaxChunks + Hold + Onset)
    BY <1>9, <2>1
  <2> HIDE DEF c
  <2> QED BY <1>5, <1>11, <2>1, <2>4, <2>5, <2>6
<1>18. ASSUME NEW loud \in BOOLEAN, Endpoint!AmbientDrop(loud) PROVE EndpointInv'
  <2>1. Endpoint!Heard /\ clip # Endpoint!NoClip /\ preRoll' = 0 /\ cut' = cut
    BY <1>18 DEF Endpoint!AmbientDrop
  <2>2. preRoll' \in 0..chunk' /\ ~(preRoll' # 0)
    BY <1>12, <2>1
  <2>3. Endpoint!CommandHeardOut'
    BY <1>4, <2>1 DEF Endpoint!CommandHeardOut
  <2>4. CASE ~loud
    <3>1. clip' = Endpoint!NoClip /\ Endpoint!Idles
      BY <1>18, <2>4 DEF Endpoint!AmbientDrop
    <3>2. inCommand' \in BOOLEAN /\ deadline' \in 0..(MaxChunks + Hold + Onset)
      BY <1>9, <3>1
    <3> QED BY <1>5, <1>11, <2>1, <2>2, <2>3, <3>1, <3>2
  <2>5. CASE loud
    <3> DEFINE span == IF inCommand THEN 0 ELSE deadline
               c == [from |-> chunk', length |-> 1, quiet |-> 0, command |-> chunk' <= span]
    <3>1. clip' = c /\ deadline' = span /\ inCommand' = (chunk' <= span)
      BY <1>18, <2>5 DEF Endpoint!AmbientDrop
    <3>2. span \in 0..(MaxChunks + Hold + Onset)
      BY <1>1, <1>6
    <3>3. c \in ClipState
      <4>1. (chunk' <= span) \in BOOLEAN
        OBVIOUS
      <4>2. 1 \in (0..WakeMax) \union (0..CommandMax) /\ chunk' \in Nat
        BY <1>6, <1>12, <2>1
      <4> HIDE DEF span
      <4> QED BY <4>1, <4>2 DEF ClipState
    <3>4. c.from = chunk' /\ (c.command => inCommand' = TRUE) /\ inCommand' \in BOOLEAN
      BY <3>1
    <3> HIDE DEF c, span
    <3>5. lastMuted < c.from
      BY <1>12, <2>1, <3>4
    <3> QED BY <1>11, <2>1, <2>2, <2>3, <3>1, <3>2, <3>3, <3>4, <3>5
  <2> QED BY <2>4, <2>5
<1> QED BY <1>7, <1>8, <1>10, <1>13, <1>14, <1>16, <1>17, <1>18 DEF Endpoint!Next

\* It implies the types and the properties of the clips.
LEMMA EndpointSafe == EndpointInv => Endpoint!TypeOK /\ Endpoint!NothingMuted /\ Endpoint!CommandHeardOut
BY DEF EndpointInv, EndpointTypes, EndpointKept, ClipState, Endpoint!TypeOK, Endpoint!NothingMuted

-----------------------------------------------------------------------------
(* The house's own voice.                                                  *)

VoiceState == {"ready", "edge", "say", "pyttsx3", "discover", "play", "done", "failed"}

\* Every worker that talks holds one session, and the flag is no older than any of them.
SpeakingInv ==
    /\ voice \in [Workers -> VoiceState] /\ plays \in [Workers -> 0..2]
    /\ \A w \in Workers : voice[w] \in {"discover", "play"} => plays[w] <= 1
    /\ depth = Cardinality(Speaking!Talking)
    /\ flag \in 0..Speaking!NoFlag /\ lasted \in [Workers -> 0..(StaleAge + 1)]
    /\ \A w \in Speaking!Talking : flag <= lasted[w]

\* The invariant of the house's voice holds at the start.
LEMMA SpeakingBegins == Speaking!Init => SpeakingInv
<1> SUFFICES ASSUME Speaking!Init PROVE SpeakingInv
  OBVIOUS
<1>1. Speaking!Talking = {}
  BY DEF Speaking!Init, Speaking!Talking
<1> QED BY <1>1, FS_EmptySet, SpeakingAssumption
      DEF Speaking!Init, SpeakingInv, VoiceState, Speaking!NoFlag

\* It holds as long as none of the part's variables changes.
LEMMA SpeakingStays == SpeakingInv /\ UNCHANGED speakingVars => SpeakingInv'
BY DEF SpeakingInv, speakingVars, Speaking!NoFlag, Speaking!Talking

\* Who talks after a worker went on.
LEMMA TalkingAfter ==
  ASSUME SpeakingInv, NEW w \in Workers, NEW pc \in VoiceState, voice' = [voice EXCEPT ![w] = pc]
  PROVE  /\ Speaking!Talking \subseteq Workers
         /\ Speaking!Talking' = IF pc \in {"edge", "say", "pyttsx3"} THEN Speaking!Talking \union {w}
                                ELSE Speaking!Talking \ {w}
<1> USE DEF Speaking!Talking, SpeakingInv
<1>1. \A v \in Workers : v # w => voice'[v] = voice[v]
  OBVIOUS
<1>2. voice'[w] = pc
  OBVIOUS
<1> QED BY <1>1, <1>2

\* Every step of the part keeps it.
LEMMA SpeakingStep == SpeakingInv /\ Speaking!Next => SpeakingInv'
<1> SUFFICES ASSUME SpeakingInv, Speaking!Next PROVE SpeakingInv'
  OBVIOUS
<1> DEFINE aloud == Speaking!Talking
<1>1. /\ voice \in [Workers -> VoiceState] /\ plays \in [Workers -> 0..2]
      /\ \A w \in Workers : voice[w] \in {"discover", "play"} => plays[w] <= 1
      /\ depth = Cardinality(Speaking!Talking)
      /\ flag \in 0..Speaking!NoFlag /\ lasted \in [Workers -> 0..(StaleAge + 1)]
      /\ \A w \in Speaking!Talking : flag <= lasted[w]
  BY DEF SpeakingInv
<1>2. Speaking!Talking \subseteq Workers /\ \A v \in Speaking!Talking : voice[v] \in {"edge", "say", "pyttsx3"}
  BY DEF Speaking!Talking
<1>3. depth \in Nat
  BY <1>1, <1>2, WorkersCount
<1>4. Speaking!NoFlag = StaleAge + 2 /\ StaleAge \in Nat
  BY SpeakingAssumption DEF Speaking!NoFlag
<1>5. ASSUME NEW w \in Workers, Speaking!BeginNotify(w) PROVE SpeakingInv'
  <2>1. voice[w] = "ready" /\ plays' = plays /\ lasted' = lasted
    BY <1>5 DEF Speaking!BeginNotify, Speaking!MacOnly
  <2>2. CASE Speaking!Goes(w, "done") /\ UNCHANGED <<depth, flag>>
    <3>1. voice' = [voice EXCEPT ![w] = "done"]
      BY <2>2 DEF Speaking!Goes
    <3>2. Speaking!Talking' = Speaking!Talking
      <4>1. Speaking!Talking' = Speaking!Talking \ {w}
        BY <3>1, TalkingAfter DEF VoiceState
      <4> QED BY <4>1, <1>2, <2>1
    <3> QED BY <1>1, <1>4, <2>1, <2>2, <3>1, <3>2 DEF SpeakingInv, VoiceState, Speaking!NoFlag
  <2>3. ASSUME NEW engine \in {"edge", "say"}, Speaking!Goes(w, engine), depth' = depth + 1, flag' = 0
        PROVE  SpeakingInv'
    <3>1. voice' = [voice EXCEPT ![w] = engine]
      BY <2>3 DEF Speaking!Goes
    <3>2. Speaking!Talking' = Speaking!Talking \union {w}
      BY <3>1, TalkingAfter DEF VoiceState
    <3>3. depth' = Cardinality(Speaking!Talking')
      <4>1. w \in Workers \ Speaking!Talking
        BY <1>2, <2>1
      <4> QED BY <4>1, <1>1, <1>2, <2>3, <3>2, WorkersCount
    <3>4. \A v \in Speaking!Talking' : flag' <= lasted'[v]
      BY <1>1, <1>2, <1>4, <2>1, <2>3, <3>2
    <3> QED BY <1>1, <1>4, <2>1, <2>3, <3>1, <3>3, <3>4 DEF SpeakingInv, VoiceState, Speaking!NoFlag
  <2> QED BY <1>5, <2>2, <2>3 DEF Speaking!BeginNotify
<1>6. ASSUME NEW w \in Speaking!Talking, NEW pc \in {"done", "failed"},
             Speaking!Goes(w, pc), Speaking!EndSession, Speaking!Silent(w), Speaking!MacOnly
      PROVE  SpeakingInv'
  <2>1. voice' = [voice EXCEPT ![w] = pc] /\ w \in Workers /\ plays' = plays
    BY <1>2, <1>6 DEF Speaking!Goes, Speaking!MacOnly
  <2>2. Speaking!Talking' = Speaking!Talking \ {w}
    BY <2>1, TalkingAfter DEF VoiceState
  <2>3. Cardinality(Speaking!Talking \ {w}) = depth - 1
    BY <1>1, <1>2, WorkersCount
  <2>4. depth - 1 \in Nat
    BY <1>2, <2>2, <2>3, WorkersCount
  <2>5. depth' = Cardinality(Speaking!Talking')
    BY <1>6, <1>3, <2>2, <2>3, <2>4 DEF Speaking!EndSession
  <2>8. /\ lasted' \in [Workers -> 0..(StaleAge + 1)]
        /\ \A v \in Workers \ {w} : lasted'[v] = lasted[v]
    BY <1>1, <1>4, <1>6, <2>1 DEF Speaking!Silent
  <2>6. flag' \in 0..Speaking!NoFlag /\ (Speaking!Talking' # {} => flag' = 0)
    <3>1. CASE depth > 1
      BY <1>4, <1>6, <3>1 DEF Speaking!EndSession
    <3>2. CASE ~(depth > 1)
      <4>1. Cardinality(Speaking!Talking \ {w}) = 0
        BY <1>3, <2>3, <2>4, <3>2
      <4>2. Speaking!Talking' = {}
        BY <1>2, <2>2, <4>1, WorkersCount, FS_EmptySet
      <4> QED BY <1>4, <1>6, <3>2, <4>2 DEF Speaking!EndSession
    <3> QED BY <3>1, <3>2
  <2>9. \A v \in Speaking!Talking' : flag' <= lasted'[v]
    BY <1>1, <1>2, <1>4, <2>2, <2>6, <2>8
  <2>7. /\ voice' \in [Workers -> VoiceState]
        /\ \A v \in Workers : voice'[v] \in {"discover", "play"} => plays'[v] <= 1
    BY <1>1, <2>1 DEF VoiceState
  <2> QED BY <1>1, <2>1, <2>5, <2>6, <2>7, <2>8, <2>9 DEF SpeakingInv, Speaking!NoFlag
<1>7. ASSUME NEW w \in Workers, Speaking!EngineSpeaks(w) PROVE SpeakingInv'
  BY <1>6, <1>7 DEF Speaking!EngineSpeaks
<1>8. ASSUME NEW w \in Workers, Speaking!EngineFails(w) PROVE SpeakingInv'
  <2>1. CASE voice[w] = "pyttsx3"
    BY <1>6, <1>8, <2>1 DEF Speaking!EngineFails
  <2>2. CASE voice[w] # "pyttsx3"
    <3> DEFINE pc == IF voice[w] = "edge" THEN "say" ELSE "pyttsx3"
    <3>1. w \in Speaking!Talking /\ voice' = [voice EXCEPT ![w] = pc] /\ UNCHANGED <<plays, depth, flag, lasted>>
      BY <1>8, <2>2 DEF Speaking!EngineFails, Speaking!Goes, Speaking!MacOnly
    <3>2. pc \in {"say", "pyttsx3"}
      OBVIOUS
    <3> HIDE DEF pc
    <3>3. Speaking!Talking' = Speaking!Talking
      <4>1. Speaking!Talking' = Speaking!Talking \union {w}
        BY <3>1, <3>2, TalkingAfter DEF VoiceState
      <4> QED BY <3>1, <4>1
    <3> QED BY <1>1, <3>1, <3>2, <3>3 DEF SpeakingInv, VoiceState, Speaking!NoFlag
  <2> QED BY <2>1, <2>2
<1>9. ASSUME NEW w \in Workers, NEW pc \in {"discover", "play", "done", "failed"},
             voice[w] \in {"ready", "discover", "play"}, voice' = [voice EXCEPT ![w] = pc],
             plays' \in [Workers -> 0..2], \A v \in Workers \ {w} : plays'[v] = plays[v],
             pc \in {"discover", "play"} => plays'[w] <= 1, UNCHANGED <<depth, flag, lasted>>
      PROVE  SpeakingInv'
  <2>1. Speaking!Talking' = Speaking!Talking
    <3>1. Speaking!Talking' = Speaking!Talking \ {w}
      BY <1>9, TalkingAfter DEF VoiceState
    <3> QED BY <1>2, <1>9, <3>1
  <2>2. \A v \in Workers : voice'[v] \in {"discover", "play"} => plays'[v] <= 1
    BY <1>1, <1>9
  <2>3. voice' \in [Workers -> VoiceState]
    BY <1>1, <1>9 DEF VoiceState
  <2> QED BY <1>1, <1>9, <2>1, <2>2, <2>3 DEF SpeakingInv, Speaking!NoFlag
<1>10. ASSUME NEW w \in Workers, Speaking!BeginXiaodu(w) PROVE SpeakingInv'
  <2>1. voice[w] = "ready" /\ plays[w] = 0 /\ UNCHANGED <<plays, depth, flag, lasted>>
    BY <1>10 DEF Speaking!BeginXiaodu, Speaking!LanOnly
  <2>2. PICK pc \in {"discover", "play"} : voice' = [voice EXCEPT ![w] = pc]
    BY <1>10 DEF Speaking!BeginXiaodu, Speaking!Goes
  <2>3. plays' \in [Workers -> 0..2] /\ plays'[w] <= 1
    BY <1>1, <2>1
  <2> QED BY <1>9, <2>1, <2>2, <2>3
<1>11. ASSUME NEW w \in Workers, Speaking!Discover(w) PROVE SpeakingInv'
  <2>1. voice[w] = "discover" /\ UNCHANGED <<plays, depth, flag, lasted>>
    BY <1>11 DEF Speaking!Discover, Speaking!LanOnly
  <2>2. \E pc \in {"play", "failed"} : voice' = [voice EXCEPT ![w] = pc]
    BY <1>11 DEF Speaking!Discover, Speaking!Goes
  <2> QED BY <1>1, <1>9, <2>1, <2>2
<1>12. ASSUME NEW w \in Workers, Speaking!PlayXiaodu(w) PROVE SpeakingInv'
  <2>1. voice[w] = "play" /\ plays' = [plays EXCEPT ![w] = @ + 1] /\ UNCHANGED <<depth, flag, lasted>>
    BY <1>12 DEF Speaking!PlayXiaodu, Speaking!LanOnly
  <2>2. plays[w] \in 0..1
    BY <1>1, <2>1
  <2>3. PICK pc \in {"discover", "done", "failed"} :
            voice' = [voice EXCEPT ![w] = pc] /\ (pc = "discover" => plays[w] = 0)
    BY <1>12 DEF Speaking!PlayXiaodu, Speaking!Goes, Speaking!Retry
  <2>4. /\ plays' \in [Workers -> 0..2] /\ \A v \in Workers \ {w} : plays'[v] = plays[v]
        /\ plays'[w] = plays[w] + 1
    BY <1>1, <2>1, <2>2
  <2>5. pc \in {"discover", "play"} => plays'[w] <= 1
    BY <2>2, <2>3, <2>4
  <2> QED BY <1>9, <2>1, <2>3, <2>4, <2>5
<1>13. CASE Speaking!PlaybackMute \/ Speaking!Moves
  BY <1>13 DEF Speaking!PlaybackMute, Speaking!Moves, SpeakingInv, Speaking!NoFlag, Speaking!Talking
<1>14. CASE Speaking!Ages
  <2>1. /\ flag' = flag + 1 /\ flag <= StaleAge /\ UNCHANGED <<voice, plays, depth>>
        /\ lasted' = [s \in Workers |-> IF s \in Speaking!Talking /\ lasted[s] <= StaleAge THEN lasted[s] + 1
                                         ELSE lasted[s]]
    BY <1>14 DEF Speaking!Ages
  <2>2. Speaking!Talking' = Speaking!Talking
    BY <2>1 DEF Speaking!Talking
  <2>3. ASSUME NEW w \in Workers
        PROVE  /\ lasted'[w] \in 0..(StaleAge + 1)
               /\ w \in Speaking!Talking => flag' <= lasted'[w]
    BY <1>1, <1>4, <2>1
  <2>4. lasted' \in [Workers -> 0..(StaleAge + 1)]
    BY <2>1, <2>3
  <2> QED BY <1>1, <1>2, <1>4, <2>1, <2>2, <2>3, <2>4 DEF SpeakingInv, Speaking!NoFlag
<1>15. CASE Speaking!Crash
  <2>1. /\ voice' = [s \in Workers |-> IF voice[s] = "ready" THEN "ready" ELSE "failed"]
        /\ depth' = 0 /\ UNCHANGED <<plays, flag>> /\ lasted' = [s \in Workers |-> 0]
    BY <1>15 DEF Speaking!Crash
  <2>2. Speaking!Talking' = {}
    BY <2>1 DEF Speaking!Talking
  <2> QED BY <1>1, <1>4, <2>1, <2>2, FS_EmptySet DEF SpeakingInv, VoiceState, Speaking!NoFlag
<1> QED BY <1>5, <1>7, <1>8, <1>10, <1>11, <1>12, <1>13, <1>14, <1>15
      DEF Speaking!Next, Speaking!Worker

\* It implies the types and the properties of the house's voice.
LEMMA SpeakingSafe ==
  SpeakingInv => Speaking!TypeOK /\ Speaking!MuteCovers /\ Speaking!PlaysBounded
<1> SUFFICES ASSUME SpeakingInv PROVE Speaking!TypeOK /\ Speaking!MuteCovers /\ Speaking!PlaysBounded
  OBVIOUS
<1>1. Speaking!Talking \subseteq Workers
  BY DEF Speaking!Talking
<1>2. depth \in 0..Cardinality(Workers)
  BY <1>1, WorkersCount DEF SpeakingInv
<1>3. Speaking!Cardinality(Workers) = Cardinality(Workers)
  BY DEF Speaking!Cardinality, Cardinality
<1>4. Speaking!MuteCovers
  <2> SUFFICES ASSUME NEW w \in Speaking!Talking, lasted[w] <= StaleAge PROVE flag <= StaleAge
    BY DEF Speaking!MuteCovers, Speaking!IsPlaying
  <2>1. flag <= lasted[w] /\ flag \in Nat /\ lasted[w] \in Nat /\ StaleAge \in Nat
    BY <1>1, SpeakingAssumption DEF SpeakingInv, Speaking!NoFlag
  <2> QED BY <2>1
<1> QED BY <1>2, <1>3, <1>4 DEF SpeakingInv, Speaking!TypeOK, Speaking!PlaysBounded

-----------------------------------------------------------------------------
(* The recorder of what is played.                                         *)

TheQueue == [i \in Songs |-> i]
RowStatus == {"none", "recording", "complete", "incomplete"}

RecorderState ==
    [recording : {0} \union Songs, ffmpeg : {0} \union Songs, list : {<<>>, TheQueue}, index : Nat,
     gen : Nat, timer : [gen : Nat, left : 0..SongLength], status : [Songs -> RowStatus],
     elapsed : [Songs -> Nat], died : SUBSET Songs, untold : SUBSET Songs, fails : Music!Failures]

\* A recorder whose rows are right where the database took them, and on the list it goes
\* through.
RowsRight(r) ==
    /\ r \in RecorderState /\ r.index <= Len(r.list)
    /\ \A s \in Songs : s \notin r.untold /\ r.status[s] = "recording" => r.recording = s
    /\ \A s \in Songs : s \notin r.died /\ s \notin r.untold /\ r.status[s] = "complete"
                           => r.elapsed[s] >= SongLength

\* Of the timers that went off (late), none is newer than the recorder's generation, and
\* the one of this generation went off when the song had played out, of which ffmpeg had
\* written all unless it died.
TimersRight(r, late) ==
    /\ late \subseteq 0..r.gen /\ r.timer.gen \in 0..r.gen
    /\ r.recording # 0 /\ r.recording \notin r.died =>
          /\ r.ffmpeg = r.recording /\ r.timer.gen = r.gen
          /\ r.timer.left + r.elapsed[r.recording] >= SongLength
          /\ r.gen \in late => r.elapsed[r.recording] >= SongLength

RecorderRight(r, late) == RowsRight(r) /\ TimersRight(r, late)

CallState ==
    [pc : {"ready", "cli", "fill", "play list", "record", "mode", "end", "stuck"},
     cap : {"none", "song", "queue", "bare", "cast", "daily", "pause", "stop", "next", "previous",
            "resume"}]

CallRight(c) ==
    /\ c.pc = "cli" => c.cap \in Music!Plays \union Music!Controls
    /\ c.pc = "record" => c.cap \in {"next", "previous", "pause", "stop", "queue", "daily", "cast", "song"}

MusicInv ==
    /\ RecorderRight(Music!Recorder, fired)
    /\ call \in [Workers -> CallState] /\ \A w \in Workers : CallRight(call[w])
    /\ musicHeld \in {Music!NoOne, Heart} \union Workers

\* A queue has the songs in their order.
LEMMA QueueSongs ==
  /\ Len(TheQueue) \in Songs /\ Len(<<>>) = 0 /\ Songs \subseteq Nat \ {0}
  /\ \A i \in 1..Len(TheQueue) : TheQueue[i] \in Songs
  /\ \A i \in Nat : 1..Len(<<>>) = {} /\ (i >= 1 => i..Len(<<>>) = {})
<1>1. PICK n \in Nat \ {0} : Songs = 1..n
  BY MusicNumbers
<1>2. TheQueue \in Seq(Songs) /\ Len(TheQueue) = n
  BY <1>1 DEF TheQueue
<1>3. Len(<<>>) = 0
  OBVIOUS
<1> QED BY <1>1, <1>2, <1>3 DEF TheQueue

\* A recorder that has stopped, its timer with it.
Halted(r) ==
    RowsRight(r) /\ r.recording = 0 /\ r.timer = Music!NoTimer

\* What may go wrong in a step changes nothing yet.
LEMMA MusicFails ==
  ASSUME NEW r, NEW late, RecorderRight(r, late), NEW how \in Music!Failures
  PROVE  RecorderRight([r EXCEPT !.fails = how], late)
<1> DEFINE g == [r EXCEPT !.fails = how]
<1>1. r \in RecorderState
  BY DEF RecorderRight, RowsRight
<1>2. /\ g \in RecorderState /\ g.index = r.index /\ g.list = r.list /\ g.gen = r.gen
      /\ g.recording = r.recording /\ g.timer = r.timer /\ g.status = r.status /\ g.elapsed = r.elapsed
      /\ g.ffmpeg = r.ffmpeg /\ g.died = r.died /\ g.untold = r.untold
  BY <1>1 DEF RecorderState
<1> HIDE DEF g
<1>3. RowsRight(g) /\ TimersRight(g, late)
  BY <1>2 DEF RecorderRight, RowsRight, TimersRight
<1> QED BY <1>3 DEF RecorderRight, g

\* What is recorded is finalised, as given up or, when it has played out, as complete.
LEMMA MusicFinalized ==
  ASSUME NEW r, NEW late, RecorderRight(r, late), NEW verdict \in {"incomplete", "complete"},
         verdict = "complete" => r.gen \in late
  PROVE  /\ Halted(Music!Finalized(r, verdict))
         /\ Music!Finalized(r, verdict).list = r.list /\ Music!Finalized(r, verdict).index = r.index
         /\ Music!Finalized(r, verdict).gen = r.gen
<1> DEFINE f == Music!Finalized(r, verdict)
           lost == r.recording # 0 /\ r.fails = "store"
           rows == IF r.recording = 0 \/ lost THEN r.status ELSE [r.status EXCEPT ![r.recording] = verdict]
           un == IF lost THEN r.untold \union {r.recording} ELSE r.untold
<1>1. /\ r \in RecorderState /\ r.index <= Len(r.list)
      /\ \A s \in Songs : s \notin r.untold /\ r.status[s] = "recording" => r.recording = s
      /\ \A s \in Songs : s \notin r.died /\ s \notin r.untold /\ r.status[s] = "complete"
                             => r.elapsed[s] >= SongLength
  BY DEF RecorderRight, RowsRight
<1>2. f = [r EXCEPT !.recording = 0, !.ffmpeg = 0, !.timer = Music!NoTimer, !.status = rows, !.untold = un]
  BY <1>1 DEF Music!Finalized, RecorderState
<1>3. verdict = "complete" /\ r.recording # 0 /\ r.recording \notin r.died
         => r.elapsed[r.recording] >= SongLength
  BY DEF RecorderRight, TimersRight
<1>4. /\ rows \in [Songs -> RowStatus] /\ un \subseteq Songs
      /\ \A s \in Songs : s \notin un => rows[s] # "recording"
      /\ \A s \in Songs : s \notin r.died /\ s \notin un /\ rows[s] = "complete"
                             => r.elapsed[s] >= SongLength
  <2>1. /\ r.status \in [Songs -> RowStatus] /\ r.recording \in {0} \union Songs /\ 0 \notin Songs
        /\ r.untold \subseteq Songs
    BY <1>1, QueueSongs DEF RecorderState
  <2>2. CASE r.recording = 0
    <3>1. rows = r.status /\ un = r.untold
      BY <2>2
    <3> HIDE DEF rows, un
    <3> QED BY <1>1, <2>1, <2>2, <3>1
  <2>3. CASE r.recording # 0 /\ lost
    <3>1. rows = r.status /\ un = r.untold \union {r.recording}
      BY <2>3
    <3> HIDE DEF rows, un
    <3> QED BY <1>1, <2>1, <2>3, <3>1
  <2>4. CASE r.recording # 0 /\ ~lost
    <3>1. rows = [r.status EXCEPT ![r.recording] = verdict] /\ un = r.untold
      BY <2>4
    <3> HIDE DEF rows, un
    <3>2. rows \in [Songs -> RowStatus]
      BY <2>1, <3>1 DEF RowStatus
    <3>3. \A s \in Songs : rows[s] = IF s = r.recording THEN verdict ELSE r.status[s]
      BY <2>1, <3>1
    <3>4. \A s \in Songs : s \notin un => rows[s] # "recording"
      BY <1>1, <3>1, <3>3
    <3>5. \A s \in Songs : s \notin r.died /\ s \notin un /\ rows[s] = "complete"
                              => r.elapsed[s] >= SongLength
      BY <1>1, <1>3, <2>4, <3>1, <3>3
    <3> QED BY <2>1, <3>1, <3>2, <3>4, <3>5
  <2> HIDE DEF lost
  <2> QED BY <2>2, <2>3, <2>4
<1> HIDE DEF rows, f, un
<1>5. Music!NoTimer \in [gen : Nat, left : 0..SongLength]
  BY MusicNumbers DEF Music!NoTimer
<1>6. /\ f \in RecorderState /\ f.recording = 0 /\ f.timer = Music!NoTimer /\ f.status = rows
      /\ f.list = r.list /\ f.index = r.index /\ f.gen = r.gen /\ f.elapsed = r.elapsed
      /\ f.untold = un /\ f.died = r.died
  BY <1>1, <1>2, <1>4, <1>5 DEF RecorderState
<1> QED BY <1>1, <1>4, <1>6 DEF Halted, RowsRight, f

\* A recorder that halted and is left so.
LEMMA MusicHalted ==
  ASSUME NEW r, Halted(r), NEW late, late \subseteq 0..r.gen
  PROVE  RecorderRight(r, late)
<1>1. r.gen \in Nat /\ r.timer.gen = 0
  BY DEF Halted, RowsRight, RecorderState, Music!NoTimer
<1> QED BY <1>1 DEF Halted, RecorderRight, TimersRight

\* A recorder's process and its timer, of a generation no timer knows; nothing is noted yet.
LEMMA MusicProcess ==
  ASSUME NEW r, Halted(r), NEW song \in Songs
  PROVE  LET n == Music!Spawned(r, song)
         IN  /\ n \in RecorderState /\ n.ffmpeg = song /\ n.gen = r.gen + 1
             /\ n.timer = [gen |-> r.gen + 1, left |-> SongLength]
             /\ n.elapsed = [r.elapsed EXCEPT ![song] = 0] /\ n.died = r.died \ {song}
             /\ n.status = r.status /\ n.untold = r.untold /\ n.recording = 0
             /\ n.list = r.list /\ n.index = r.index /\ n.fails = r.fails
<1> DEFINE n == Music!Spawned(r, song)
           gen == r.gen + 1
           tm == [gen |-> gen, left |-> SongLength]
           el == [r.elapsed EXCEPT ![song] = 0]
           di == r.died \ {song}
<1>1. r \in RecorderState /\ r.recording = 0
  BY DEF Halted, RowsRight
<1>2. n = [r EXCEPT !.ffmpeg = song, !.gen = gen, !.timer = tm, !.elapsed = el, !.died = di]
  BY <1>1 DEF Music!Spawned, RecorderState
<1>3. gen \in Nat
  BY <1>1 DEF RecorderState
<1> HIDE DEF gen
<1>4. tm \in [gen : Nat, left : 0..SongLength]
  BY <1>3, MusicNumbers
<1>5. el \in [Songs -> Nat] /\ di \in SUBSET Songs
  BY <1>1 DEF RecorderState
<1> HIDE DEF tm, el, di, n
<1>6. /\ n \in RecorderState /\ n.ffmpeg = song /\ n.gen = gen /\ n.timer = tm /\ n.elapsed = el
      /\ n.died = di /\ n.status = r.status /\ n.untold = r.untold /\ n.recording = r.recording
      /\ n.list = r.list /\ n.index = r.index /\ n.fails = r.fails
  BY <1>1, <1>2, <1>3, <1>4, <1>5 DEF RecorderState
<1> QED BY <1>1, <1>6 DEF n, gen, tm, el, di

\* What is begun is recorded, is not begun, or is begun and cannot be noted.
LEMMA MusicStarted ==
  ASSUME NEW r, Halted(r), NEW song \in Songs, NEW late, late \subseteq 0..r.gen
  PROVE  /\ RecorderRight(Music!Started(r, song), late)
         /\ Music!Started(r, song).list = r.list /\ Music!Started(r, song).index = r.index
<1> DEFINE p == Music!Spawned(r, song)
           n == Music!Started(r, song)
<1>1. /\ r \in RecorderState /\ r.index <= Len(r.list) /\ r.recording = 0
      /\ \A s \in Songs : s \notin r.untold /\ r.status[s] = "recording" => r.recording = s
      /\ \A s \in Songs : s \notin r.died /\ s \notin r.untold /\ r.status[s] = "complete"
                             => r.elapsed[s] >= SongLength
  BY DEF Halted, RowsRight
<1>2. 0 \notin Songs /\ SongLength \in Nat
  BY QueueSongs, MusicNumbers
<1>3. /\ p \in RecorderState /\ p.ffmpeg = song /\ p.gen = r.gen + 1
      /\ p.timer = [gen |-> r.gen + 1, left |-> SongLength]
      /\ p.elapsed = [r.elapsed EXCEPT ![song] = 0] /\ p.died = r.died \ {song}
      /\ p.status = r.status /\ p.untold = r.untold /\ p.recording = 0
      /\ p.list = r.list /\ p.index = r.index
  BY MusicProcess
<1>4. /\ r.gen \in Nat /\ r.status \in [Songs -> RowStatus] /\ r.elapsed \in [Songs -> Nat]
      /\ r.untold \subseteq Songs
  BY <1>1 DEF RecorderState
<1>5. /\ \A s \in Songs : s # song => p.elapsed[s] = r.elapsed[s]
      /\ p.elapsed[song] = 0 /\ p.timer.left = SongLength /\ p.timer.gen = p.gen
      /\ late \subseteq 0..p.gen /\ p.gen \notin late /\ p.gen \in 0..p.gen
  BY <1>3, <1>4
<1>6. CASE r.fails = "spawn"
  <2>1. n = r
    BY <1>6 DEF Music!Started
  <2> HIDE DEF n
  <2>2. RecorderRight(n, late) /\ n.list = r.list /\ n.index = r.index
    BY <2>1, MusicHalted
  <2> QED BY <2>2 DEF n
<1>7. CASE r.fails = "store"
  <2> DEFINE un == r.untold \union {song}
  <2>1. n = [p EXCEPT !.untold = un]
    BY <1>3, <1>7 DEF Music!Started, RecorderState
  <2> HIDE DEF n, p
  <2>2. un \in SUBSET Songs
    BY <1>4
  <2>3. song \in un /\ \A s \in Songs : s \notin un => s \notin r.untold /\ s # song
    OBVIOUS
  <2> HIDE DEF un
  <2>4. /\ n \in RecorderState /\ n.gen = p.gen /\ n.timer = p.timer /\ n.elapsed = p.elapsed
        /\ n.died = p.died /\ n.status = p.status /\ n.untold = un /\ n.recording = 0
        /\ n.list = p.list /\ n.index = p.index
    BY <1>3, <2>1, <2>2 DEF RecorderState
  <2>5. RowsRight(n)
    BY <1>1, <1>3, <1>5, <2>3, <2>4 DEF RowsRight
  <2>6. TimersRight(n, late)
    BY <1>5, <2>4 DEF TimersRight
  <2>7. n.list = r.list /\ n.index = r.index
    BY <1>3, <2>4
  <2> QED BY <2>5, <2>6, <2>7 DEF RecorderRight, n
<1>8. CASE r.fails \notin {"spawn", "store"}
  <2> DEFINE st == [r.status EXCEPT ![song] = "recording"]
             un == r.untold \ {song}
  <2>1. n = [p EXCEPT !.recording = song, !.status = st, !.untold = un]
    BY <1>3, <1>8 DEF Music!Started, RecorderState
  <2> HIDE DEF n, p
  <2>2. st \in [Songs -> RowStatus] /\ un \in SUBSET Songs
    BY <1>4 DEF RowStatus
  <2>3. \A s \in Songs : st[s] = IF s = song THEN "recording" ELSE r.status[s]
    BY <1>4
  <2>4. \A s \in Songs : s # song /\ s \notin un => s \notin r.untold
    OBVIOUS
  <2> HIDE DEF st, un
  <2>5. /\ n \in RecorderState /\ n.gen = p.gen /\ n.timer = p.timer /\ n.elapsed = p.elapsed
        /\ n.died = p.died /\ n.status = st /\ n.untold = un /\ n.recording = song
        /\ n.list = p.list /\ n.index = p.index /\ n.ffmpeg = p.ffmpeg
    BY <1>3, <2>1, <2>2 DEF RecorderState
  <2>6. \A s \in Songs : s \notin n.untold /\ n.status[s] = "recording" => n.recording = s
    BY <1>1, <1>2, <2>3, <2>4, <2>5
  <2>7. \A s \in Songs : s \notin n.died /\ s \notin n.untold /\ n.status[s] = "complete"
                            => n.elapsed[s] >= SongLength
    BY <1>1, <1>3, <1>5, <2>3, <2>4, <2>5
  <2>8. n.index <= Len(n.list)
    BY <1>1, <1>3, <2>5
  <2>9. RowsRight(n)
    BY <2>5, <2>6, <2>7, <2>8 DEF RowsRight
  <2>10. n.timer.left + n.elapsed[n.recording] >= SongLength
    BY <1>2, <1>5, <2>5
  <2>11. TimersRight(n, late)
    BY <1>3, <1>5, <2>5, <2>10 DEF TimersRight
  <2>12. n.list = r.list /\ n.index = r.index
    BY <1>3, <2>5
  <2> QED BY <2>9, <2>11, <2>12 DEF RecorderRight, n
<1> HIDE DEF n
<1> QED BY <1>6, <1>7, <1>8 DEF n

\* From a place of the list on, the first song that is not whole is recorded.
LEMMA MusicSpawned ==
  ASSUME NEW r, NEW late, RecorderRight(r, late), NEW i \in Nat \ {0}
  PROVE  RecorderRight(Music!SpawnAt(r, i), late)
<1> DEFINE f == Music!Finalized(r, "incomplete")
           open == {j \in i..Len(f.list) : ~Music!Whole(f, f.list[j])}
<1>1. Halted(f) /\ f.gen = r.gen
  BY MusicFinalized
<1>2. late \subseteq 0..f.gen
  BY <1>1 DEF RecorderRight, TimersRight
<1>3. f \in RecorderState /\ f.list \in {<<>>, TheQueue} /\ Len(f.list) \in Nat /\ f.index \in Nat
  BY <1>1, QueueSongs DEF Halted, RowsRight, RecorderState
\* The place on the list is all that changes after that.
<1>4. ASSUME NEW n, RecorderRight(n, late), NEW k \in Nat, k <= Len(n.list)
      PROVE  RecorderRight([n EXCEPT !.index = k], late)
  <2> DEFINE m == [n EXCEPT !.index = k]
  <2>1. n \in RecorderState
    BY <1>4 DEF RecorderRight, RowsRight
  <2>2. /\ m \in RecorderState /\ m.index = k /\ m.list = n.list /\ m.gen = n.gen
        /\ m.recording = n.recording /\ m.timer = n.timer /\ m.status = n.status /\ m.elapsed = n.elapsed
        /\ m.ffmpeg = n.ffmpeg /\ m.died = n.died /\ m.untold = n.untold
    BY <2>1 DEF RecorderState
  <2> HIDE DEF m
  <2>3. RowsRight(m) /\ TimersRight(m, late)
    BY <1>4, <2>2 DEF RecorderRight, RowsRight, TimersRight
  <2> QED BY <2>3 DEF RecorderRight, m
<1>5. CASE open = {}
  <2>1. Music!SpawnAt(r, i) = [f EXCEPT !.index = Len(f.list)]
    BY <1>5 DEF Music!SpawnAt
  <2>2. RecorderRight(f, late)
    BY <1>1, <1>2, MusicHalted
  <2> HIDE DEF f, open
  <2> QED BY <1>3, <1>4, <2>1, <2>2
<1>6. CASE open # {}
  <2> DEFINE j == CHOOSE k \in open : \A l \in open : k <= l
             n == Music!Started(f, f.list[j])
             at == IF f.fails # "spawn" THEN j ELSE IF j = i THEN n.index ELSE j - 1
  <2>1. open \subseteq Nat
    BY <1>3
  <2>2. \E k \in open : \A l \in open : k <= l
    BY <1>6, <2>1, LeastNat
  <2>3. j \in open
    BY <2>2
  <2>4. Music!SpawnAt(r, i) = [n EXCEPT !.index = IF f.fails # "spawn" THEN j ELSE IF j = i THEN @ ELSE j - 1]
    BY <1>6 DEF Music!SpawnAt
  <2>5. j \in i..Len(f.list)
    BY <2>3
  <2> HIDE DEF j, open, f
  <2>6. f.list = TheQueue
    BY <1>3, <2>5, QueueSongs
  <2>7. f.list[j] \in Songs /\ j \in Nat
    BY <2>5, <2>6, QueueSongs
  <2>8. RecorderRight(n, late) /\ n.list = f.list /\ n.index = f.index
    BY <1>1, <1>2, <2>7, MusicStarted
  <2> HIDE DEF n
  <2>9. n \in RecorderState /\ n.index <= Len(n.list)
    BY <2>8 DEF RecorderRight, RowsRight
  <2>10. Music!SpawnAt(r, i) = [n EXCEPT !.index = at]
    BY <2>4, <2>9 DEF RecorderState
  <2>11. at \in Nat /\ at <= Len(n.list)
    BY <1>3, <2>5, <2>7, <2>8, <2>9
  <2> HIDE DEF at
  <2> QED BY <1>4, <2>8, <2>10, <2>11
<1> QED BY <1>5, <1>6

\* Stopping keeps the recorder right (_on_stop).
LEMMA MusicStopped ==
  ASSUME NEW r, NEW late, RecorderRight(r, late)
  PROVE  RecorderRight(Music!Stopped(r), late)
<1> DEFINE f == Music!Finalized(r, "incomplete")
           g == Music!Stopped(r)
<1>1. Halted(f) /\ f.gen = r.gen
  BY MusicFinalized
<1>2. late \subseteq 0..f.gen
  BY <1>1 DEF RecorderRight, TimersRight
<1>3. f \in RecorderState
  BY <1>1 DEF Halted, RowsRight
<1>4. g = [f EXCEPT !.list = <<>>, !.index = 0, !.gen = @ + 1]
  BY DEF Music!Stopped
<1> HIDE DEF f, g
<1>5. /\ g \in RecorderState /\ g.index = 0 /\ g.list = <<>> /\ g.gen = f.gen + 1
      /\ g.recording = f.recording /\ g.timer = f.timer /\ g.status = f.status /\ g.elapsed = f.elapsed
      /\ g.died = f.died /\ g.untold = f.untold
  <2> DEFINE gen == f.gen + 1
  <2>0. gen \in Nat
    BY <1>3 DEF RecorderState
  <2>1. ASSUME NEW none \in {<<>>, TheQueue}, NEW n \in Nat
        PROVE LET h == [f EXCEPT !.list = none, !.index = 0, !.gen = n]
          IN  /\ h \in RecorderState /\ h.index = 0 /\ h.list = none /\ h.gen = n
              /\ h.recording = f.recording /\ h.timer = f.timer /\ h.status = f.status
              /\ h.elapsed = f.elapsed /\ h.died = f.died /\ h.untold = f.untold
    BY <1>3 DEF RecorderState
  <2>2. g = [f EXCEPT !.list = <<>>, !.index = 0, !.gen = gen]
    BY <1>3, <1>4 DEF RecorderState
  <2> HIDE DEF gen
  <2>3. /\ g \in RecorderState /\ g.index = 0 /\ g.list = <<>> /\ g.gen = gen
        /\ g.recording = f.recording /\ g.timer = f.timer /\ g.status = f.status
        /\ g.elapsed = f.elapsed /\ g.died = f.died /\ g.untold = f.untold
    BY <2>0, <2>1, <2>2
  <2> QED BY <2>3 DEF gen
<1>6. Halted(g)
  BY <1>1, <1>5, QueueSongs DEF Halted, RowsRight
<1>7. late \subseteq 0..g.gen
  BY <1>2, <1>3, <1>5 DEF RecorderState
<1>8. RecorderRight(g, late)
  BY <1>6, <1>7, MusicHalted
<1> QED BY <1>8 DEF g

\* Another place of a list that is not gone through yet.
LEMMA MusicOnList ==
  ASSUME NEW r, NEW late, RecorderRight(r, late), NEW list2 \in {<<>>, TheQueue},
         NEW i \in Nat, i <= Len(list2)
  PROVE  RecorderRight([r EXCEPT !.list = list2, !.index = i], late)
<1> DEFINE g == [r EXCEPT !.list = list2, !.index = i]
<1>1. r \in RecorderState
  BY DEF RecorderRight, RowsRight
<1>2. /\ g \in RecorderState /\ g.index = i /\ g.list = list2 /\ g.gen = r.gen
      /\ g.recording = r.recording /\ g.timer = r.timer /\ g.status = r.status /\ g.elapsed = r.elapsed
      /\ g.ffmpeg = r.ffmpeg /\ g.died = r.died /\ g.untold = r.untold
  BY <1>1 DEF RecorderState
<1> HIDE DEF g
<1>3. RowsRight(g) /\ TimersRight(g, late)
  BY <1>2 DEF RecorderRight, RowsRight, TimersRight
<1> QED BY <1>3 DEF RecorderRight, g

\* So does a single song.
LEMMA MusicSingle ==
  ASSUME NEW r, NEW late, RecorderRight(r, late), NEW song \in Songs
  PROVE  RecorderRight(Music!Single(r, song), late)
<1> DEFINE b == [r EXCEPT !.list = <<>>, !.index = 0]
           f == Music!Finalized(b, "incomplete")
<1>1. RecorderRight(b, late)
  <2>1. <<>> \in {<<>>, TheQueue} /\ 0 \in Nat /\ 0 <= Len(<<>>)
    BY QueueSongs
  <2> QED BY <2>1, MusicOnList, Zenon
<1>2. Halted(f) /\ f.gen = b.gen
  BY <1>1, MusicFinalized
<1>3. late \subseteq 0..f.gen
  BY <1>1, <1>2 DEF RecorderRight, TimersRight
<1>4. Music!Single(r, song) = IF Music!Whole(f, song) THEN f ELSE Music!Started(f, song)
  BY DEF Music!Single
<1> HIDE DEF f
<1>5. RecorderRight(f, late) /\ RecorderRight(Music!Started(f, song), late)
  BY <1>2, <1>3, MusicHalted, MusicStarted
<1> QED BY <1>4, <1>5

\* So does a move to another song of the queue, or out of it.
LEMMA MusicMoved ==
  ASSUME NEW r, NEW late, RecorderRight(r, late), NEW i
  PROVE  RecorderRight(Music!Moved(r, i), late)
<1>1. r.list \in {<<>>, TheQueue}
  BY DEF RecorderRight, RowsRight, RecorderState
<1>2. i \in 1..Len(r.list) => i \in Nat \ {0}
  BY <1>1, QueueSongs
<1> QED BY <1>2, MusicSpawned, MusicStopped DEF Music!Moved

\* What the recorder becomes is what it is, and nothing of the next step has failed yet.
LEMMA MusicBecomes ==
  ASSUME NEW r \in RecorderState, Music!Becomes(r)
  PROVE  Music!Recorder' = [r EXCEPT !.fails = "nothing"]
<1> DEFINE q == [r EXCEPT !.fails = "nothing"]
<1>1. /\ q \in RecorderState
      /\ q.recording = r.recording /\ q.ffmpeg = r.ffmpeg /\ q.list = r.list /\ q.index = r.index
      /\ q.gen = r.gen /\ q.timer = r.timer /\ q.status = r.status /\ q.elapsed = r.elapsed
      /\ q.died = r.died /\ q.untold = r.untold /\ q.fails = "nothing"
  BY DEF RecorderState, Music!Failures
<1> HIDE DEF q
<1>2. q = [recording |-> r.recording, ffmpeg |-> r.ffmpeg, list |-> r.list, index |-> r.index,
           gen |-> r.gen, timer |-> r.timer, status |-> r.status, elapsed |-> r.elapsed,
           died |-> r.died, untold |-> r.untold, fails |-> "nothing"]
  BY <1>1 DEF RecorderState
<1>3. Music!Recorder' = q
  BY <1>2 DEF Music!Becomes, Music!Recorder
<1> QED BY <1>3 DEF q

\* The invariant of the recorder holds at the start.
LEMMA MusicBegins == Music!Init => MusicInv
<1> SUFFICES ASSUME Music!Init PROVE MusicInv
  OBVIOUS
<1>1. Music!Recorder = [recording |-> 0, ffmpeg |-> 0, list |-> <<>>, index |-> 0, gen |-> 0,
                        timer |-> Music!NoTimer, status |-> [s \in Songs |-> "none"],
                        elapsed |-> [s \in Songs |-> 0], died |-> {}, untold |-> {}, fails |-> "nothing"]
  BY DEF Music!Recorder, Music!Init
<1>2. fired = {} /\ musicHeld = Music!NoOne /\ call = [w \in Workers |-> Music!Ready]
  BY DEF Music!Init
<1>3. RowsRight(Music!Recorder)
  BY <1>1, QueueSongs, MusicNumbers DEF RowsRight, RecorderState, RowStatus, Music!NoTimer, Music!Failures
<1>4. TimersRight(Music!Recorder, fired)
  BY <1>1, <1>2 DEF TimersRight, Music!NoTimer
<1>5. /\ call \in [Workers -> CallState]
      /\ \A w \in Workers : CallRight(call[w])
  BY <1>2 DEF CallState, CallRight, Music!Ready
<1> QED BY <1>2, <1>3, <1>4, <1>5 DEF MusicInv, RecorderRight

\* Nothing of what the invariant says is read from elsewhere.
LEMMA MusicSame ==
  ASSUME NEW r, NEW late, RecorderRight(r, late), Music!Recorder' = r, fired' = late,
         musicHeld' \in {Music!NoOne, Heart} \union Workers,
         call' \in [Workers -> CallState], \A w \in Workers : CallRight(call'[w])
  PROVE  MusicInv'
BY DEF MusicInv, RecorderRight, RowsRight, TimersRight, RecorderState, TheQueue, Music!NoTimer,
       Music!NoOne, CallRight, Music!Plays, Music!Controls, RowStatus, Music!Failures

\* It holds as long as none of the part's variables changes.
LEMMA MusicStays == MusicInv /\ UNCHANGED musicVars => MusicInv'
<1> SUFFICES ASSUME MusicInv, UNCHANGED musicVars PROVE MusicInv'
  OBVIOUS
<1>1. Music!Recorder' = Music!Recorder /\ fired' = fired /\ musicHeld' = musicHeld /\ call' = call
  BY DEF musicVars, Music!Recorder
<1> QED BY <1>1, MusicSame DEF MusicInv

\* A call's step.
LEMMA MusicGoes ==
  ASSUME MusicInv, NEW w \in Workers, NEW c \in CallState, CallRight(c),
         call' = [call EXCEPT ![w] = c]
  PROVE  /\ call' \in [Workers -> CallState]
         /\ \A v \in Workers : CallRight(call'[v])
BY DEF MusicInv

\* Every step of the part keeps it.
LEMMA MusicStep == MusicInv /\ Music!Next => MusicInv'
<1> SUFFICES ASSUME MusicInv, Music!Next PROVE MusicInv'
  OBVIOUS
<1> USE DEF Music!Goes, Music!Ends
<1>1. /\ RecorderRight(Music!Recorder, fired) /\ musicHeld \in {Music!NoOne, Heart} \union Workers
      /\ call \in [Workers -> CallState] /\ \A w \in Workers : CallRight(call[w])
  BY DEF MusicInv
<1>2. ASSUME UNCHANGED Music!recorderVars, UNCHANGED call,
             musicHeld' \in {Music!NoOne, Heart} \union Workers
      PROVE  MusicInv'
  <2>1. Music!Recorder' = Music!Recorder /\ fired' = fired
    BY <1>2 DEF Music!Recorder, Music!recorderVars
  <2> QED BY <1>1, <1>2, <2>1, MusicSame
<1>3. ASSUME NEW w \in Workers, UNCHANGED Music!recorderVars,
             NEW c \in CallState, CallRight(c), call' = [call EXCEPT ![w] = c],
             musicHeld' \in {Music!NoOne, Heart} \union Workers
      PROVE  MusicInv'
  <2>1. Music!Recorder' = Music!Recorder /\ fired' = fired
    BY <1>3 DEF Music!Recorder, Music!recorderVars
  <2>2. /\ call' \in [Workers -> CallState]
        /\ \A v \in Workers : CallRight(call'[v])
    BY <1>3, MusicGoes
  <2> QED BY <1>1, <1>3, <2>1, <2>2, MusicSame
\* What the recorder becomes in a step that leaves the mode alone.
<1>4. ASSUME NEW r, Music!Becomes(r), NEW late, RecorderRight(r, late), fired' = late, musicHeld' = musicHeld,
             call' \in [Workers -> CallState], \A v \in Workers : CallRight(call'[v])
      PROVE  MusicInv'
  <2> DEFINE q == [r EXCEPT !.fails = "nothing"]
  <2>1. Music!Recorder' = q
    BY <1>4, MusicBecomes DEF RecorderRight, RowsRight
  <2>2. RecorderRight(q, late)
    BY <1>4, MusicFails DEF Music!Failures
  <2> HIDE DEF q
  <2> QED BY <1>1, <1>4, <2>1, <2>2, MusicSame
<1>5. ASSUME NEW w \in Workers, NEW cap \in Music!Plays \union Music!Controls, Music!Begin(w, cap)
      PROVE  MusicInv'
  <2> DEFINE c == [pc |-> "cli", cap |-> cap]
  <2>1. (call' = call \/ call' = [call EXCEPT ![w] = c]) /\ UNCHANGED Music!recorderVars /\ musicHeld' = musicHeld
    BY <1>5 DEF Music!Begin, Music!modeVars
  <2>2. c \in CallState /\ CallRight(c)
    BY DEF CallState, CallRight, Music!Plays, Music!Controls
  <2> HIDE DEF c
  <2> QED BY <1>1, <1>2, <1>3, <2>1, <2>2
<1>6. Music!Ready \in CallState /\ CallRight(Music!Ready)
  BY DEF Music!Ready, CallState, CallRight
<1>7. ASSUME NEW w \in Workers, Music!CliFails(w) \/ Music!Finish(w) PROVE MusicInv'
  <2>1. call' = [call EXCEPT ![w] = Music!Ready] /\ UNCHANGED Music!recorderVars /\ musicHeld' = musicHeld
    BY <1>7 DEF Music!CliFails, Music!Finish, Music!modeVars
  <2> QED BY <1>1, <1>3, <1>6, <2>1
<1>8. ASSUME NEW w \in Workers, NEW pc \in {"fill", "play list", "mode", "end", "stuck", "record"}
      PROVE  LET c == [call[w] EXCEPT !.pc = pc]
             IN  /\ c \in CallState /\ c.pc = pc /\ c.cap = call[w].cap
                 /\ pc # "record" => CallRight(c)
                 /\ [call EXCEPT ![w].pc = pc] = [call EXCEPT ![w] = c]
  BY <1>1 DEF CallState, CallRight
<1>10. ASSUME NEW w \in Workers, Music!CliDone(w) PROVE MusicInv'
  <2>1. call[w].pc = "cli" /\ UNCHANGED Music!recorderVars /\ musicHeld' = musicHeld
    BY <1>10 DEF Music!CliDone, Music!modeVars
  <2>2. call[w].cap \in Music!Plays \union Music!Controls
    BY <1>1, <2>1 DEF CallRight
  <2>3. PICK pc \in {"record", "mode", "fill"} :
          /\ call' = [call EXCEPT ![w].pc = pc]
          /\ pc = "record" => call[w].cap \notin {"queue", "bare", "resume"}
    BY <1>10 DEF Music!CliDone
  <2> DEFINE c == [call[w] EXCEPT !.pc = pc]
  <2>4. call' = [call EXCEPT ![w] = c]
    BY <1>8, <2>3
  <2>5. c \in CallState /\ CallRight(c)
    <3>1. c \in CallState /\ c.pc = pc /\ c.cap = call[w].cap
      BY <1>8
    <3> HIDE DEF c
    <3> QED BY <2>2, <2>3, <3>1 DEF CallRight, Music!Plays, Music!Controls
  <2> HIDE DEF c
  <2> QED BY <1>1, <1>3, <2>1, <2>4, <2>5
<1>11. ASSUME NEW w \in Workers, Music!FillPlaylist(w) PROVE MusicInv'
  <2> DEFINE c == [call[w] EXCEPT !.pc = "play list"]
  <2>1. UNCHANGED Music!recorderVars /\ musicHeld' = musicHeld /\ call' = [call EXCEPT ![w] = c]
    BY <1>8, <1>11 DEF Music!FillPlaylist, Music!modeVars
  <2>2. c \in CallState /\ CallRight(c)
    BY <1>8
  <2> HIDE DEF c
  <2> QED BY <1>1, <1>3, <2>1, <2>2
<1>12. ASSUME NEW w \in Workers, Music!PlayList(w) \/ Music!PlayFirst(w) PROVE MusicInv'
  <2> DEFINE cap == IF Music!PlayFirst(w) THEN "song" ELSE IF call[w].cap = "queue" THEN "queue" ELSE "daily"
             c == [call[w] EXCEPT !.pc = "record", !.cap = cap]
  <2>1. UNCHANGED Music!recorderVars /\ musicHeld' = musicHeld
    BY <1>12 DEF Music!PlayList, Music!PlayFirst, Music!modeVars
  <2>2. call' = [call EXCEPT ![w].pc = "record", ![w].cap = cap]
    BY <1>12 DEF Music!PlayList, Music!PlayFirst
  <2>3. cap \in {"song", "queue", "daily"}
    OBVIOUS
  <2> HIDE DEF cap
  <2>4. call' = [call EXCEPT ![w] = c]
    BY <1>1, <2>2
  <2>5. c \in CallState /\ CallRight(c)
    BY <1>1, <2>3 DEF CallState, CallRight
  <2> HIDE DEF c
  <2> QED BY <1>1, <1>3, <2>1, <2>4, <2>5
<1>13. ASSUME NEW w \in Workers, Music!Record(w) PROVE MusicInv'
  <2> DEFINE cap == call[w].cap
             pc == IF cap \in Music!Plays \union {"daily", "stop"} THEN "mode" ELSE "end"
             c == [call[w] EXCEPT !.pc = pc]
  <2>1. fired' = fired /\ musicHeld' = musicHeld /\ call[w].pc = "record"
    BY <1>13 DEF Music!Record, Music!modeVars
  <2>2. cap \in {"next", "previous", "pause", "stop", "queue", "daily", "cast", "song"}
    BY <1>1, <2>1 DEF CallRight
  <2>3. call' = [call EXCEPT ![w] = c]
    BY <1>8, <1>13 DEF Music!Record
  <2>4. c \in CallState /\ CallRight(c)
    <3>1. pc \in {"mode", "end"}
      OBVIOUS
    <3> HIDE DEF pc
    <3> QED BY <1>8, <3>1
  <2>5. /\ call' \in [Workers -> CallState]
        /\ \A v \in Workers : CallRight(call'[v])
    <3> HIDE DEF c
    <3> QED BY <2>3, <2>4, MusicGoes
  <2>6. PICK how \in Music!Failures :
          LET r == [Music!Recorder EXCEPT !.fails = how]
          IN  CASE cap = "next"              -> Music!Becomes(Music!Moved(r, r.index + 1))
                [] cap = "previous"          -> Music!Becomes(Music!Moved(r, r.index - 1))
                [] cap \in {"pause", "stop"} -> Music!Becomes(Music!Stopped(r))
                [] cap \in {"queue", "daily"} ->
                      Music!Becomes(Music!SpawnAt([r EXCEPT !.list = TheQueue, !.index = 1], 1))
                [] cap = "cast" /\ Music!Whole(r, 1) -> Music!Becomes(r)
                [] cap \in {"song", "cast"} -> \E s \in Songs : Music!Becomes(Music!Single(r, s))
    BY <1>13 DEF Music!Record, TheQueue
  <2> DEFINE r == [Music!Recorder EXCEPT !.fails = how]
             all == [r EXCEPT !.list = TheQueue, !.index = 1]
  <2>7. RecorderRight(r, fired)
    BY <1>1, MusicFails
  <2>8. \/ Music!Becomes(Music!Moved(r, r.index + 1)) \/ Music!Becomes(Music!Moved(r, r.index - 1))
        \/ Music!Becomes(Music!Stopped(r)) \/ Music!Becomes(Music!SpawnAt(all, 1)) \/ Music!Becomes(r)
        \/ \E s \in Songs : Music!Becomes(Music!Single(r, s))
    BY <2>2, <2>6
  <2> HIDE DEF c, pc, r
  <2>9. RecorderRight(all, fired)
    <3>1. 1 <= Len(TheQueue) /\ 1 \in Nat
      BY QueueSongs
    <3> QED BY <2>7, <3>1, MusicOnList
  <2>10. /\ RecorderRight(Music!Moved(r, r.index + 1), fired) /\ RecorderRight(Music!Moved(r, r.index - 1), fired)
         /\ RecorderRight(Music!Stopped(r), fired)
         /\ \A s \in Songs : RecorderRight(Music!Single(r, s), fired)
    BY <2>7, MusicMoved, MusicStopped, MusicSingle
  <2>11. RecorderRight(Music!SpawnAt(all, 1), fired)
    <3> HIDE DEF all
    <3> QED BY <2>9, MusicSpawned
  <2> HIDE DEF all
  <2> QED BY <1>4, <2>1, <2>5, <2>7, <2>8, <2>10, <2>11
<1>14. ASSUME NEW w \in Workers, Music!SwitchMode(w) PROVE MusicInv'
  <2>1. UNCHANGED Music!recorderVars /\ musicHeld' \in {musicHeld, w}
    BY <1>14 DEF Music!SwitchMode, Music!Exits, Music!Enters
  <2>2. PICK pc \in {"end", "stuck"} : call' = [call EXCEPT ![w].pc = pc]
    BY <1>14 DEF Music!SwitchMode
  <2> DEFINE c == [call[w] EXCEPT !.pc = pc]
  <2>3. call' = [call EXCEPT ![w] = c]
    BY <1>8, <2>2
  <2>4. c \in CallState /\ CallRight(c)
    BY <1>8
  <2> HIDE DEF c
  <2>5. musicHeld' \in {Music!NoOne, Heart} \union Workers
    BY <1>1, <2>1
  <2> QED BY <1>3, <2>1, <2>3, <2>4, <2>5
<1>15. CASE Music!Heartbeat
  <2>1. UNCHANGED Music!recorderVars /\ UNCHANGED call /\ musicHeld' \in {musicHeld, Heart}
    BY <1>15 DEF Music!Heartbeat, Music!HeartAck, Music!HeartHint, Music!HeartNoHint, Music!Enters, Music!Exits
  <2> QED BY <1>1, <1>2, <2>1
<1>16. CASE Music!LoginChanges
  BY <1>1, <1>2, <1>16 DEF Music!LoginChanges, Music!modeVars
<1>17. CASE Music!TimerGoesOff
  <2> DEFINE r == Music!Recorder
             late == fired \union {timer.gen}
  <2>1. /\ timer.left = 0 /\ fired' = late /\ musicHeld' = musicHeld /\ call' = call /\ Music!Becomes(r)
    BY <1>17 DEF Music!TimerGoesOff, Music!modeVars
  <2>2. r.timer = timer
    BY DEF Music!Recorder
  <2>3. RowsRight(r) /\ TimersRight(r, fired)
    BY <1>1 DEF RecorderRight
  <2> HIDE DEF r
  <2>4. r.recording \in {0} \union Songs /\ r.elapsed \in [Songs -> Nat] /\ r.gen \in Nat
    BY <2>3 DEF RowsRight, RecorderState
  <2>5. late \subseteq 0..r.gen
    BY <2>2, <2>3 DEF TimersRight
  <2>6. ASSUME r.recording # 0, r.recording \notin r.died PROVE r.elapsed[r.recording] >= SongLength
    <3>1. r.timer.left + r.elapsed[r.recording] >= SongLength
      BY <2>3, <2>6 DEF TimersRight
    <3>2. r.elapsed[r.recording] \in Nat
      BY <2>4, <2>6
    <3> QED BY <2>1, <2>2, <3>1, <3>2, MusicNumbers
  <2> HIDE DEF late
  <2>7. RecorderRight(r, late)
    BY <2>3, <2>5, <2>6 DEF RecorderRight, TimersRight
  <2> QED BY <1>1, <1>4, <2>1, <2>7
<1>18. ASSUME NEW g \in fired, Music!Fire(g) PROVE MusicInv'
  <2> DEFINE late == fired \ {g}
  <2>1. fired' = late /\ musicHeld' = musicHeld /\ call' = call
    BY <1>18 DEF Music!Fire, Music!modeVars
  <2>2. RecorderRight(Music!Recorder, late)
    BY <1>1 DEF RecorderRight, TimersRight
  <2>3. CASE ~Music!Current(g)
    <3>1. Music!Becomes(Music!Recorder)
      BY <1>18, <2>3 DEF Music!Fire
    <3> HIDE DEF late
    <3> QED BY <1>1, <1>4, <2>1, <2>2, <3>1
  <2>4. CASE Music!Current(g)
    <3>1. PICK how \in Music!Failures :
            LET f == Music!Finalized([Music!Recorder EXCEPT !.fails = how], "complete")
            IN  Music!Becomes(IF f.index < Len(f.list) THEN Music!SpawnAt(f, f.index + 1) ELSE f)
      BY <1>18, <2>4 DEF Music!Fire
    <3> DEFINE r == [Music!Recorder EXCEPT !.fails = how]
               f == Music!Finalized(r, "complete")
    <3>2. RecorderRight(r, fired)
      BY <1>1, MusicFails
    <3>3. r.gen \in fired
      BY <1>18, <2>4 DEF Music!Current, Music!Recorder
    <3>4. Halted(f) /\ f.gen = r.gen
      BY <3>2, <3>3, MusicFinalized
    <3>5. Music!Becomes(Music!SpawnAt(f, f.index + 1)) \/ Music!Becomes(f)
      BY <3>1
    <3> HIDE DEF f
    <3>6. late \subseteq 0..f.gen
      BY <3>2, <3>4 DEF RecorderRight, TimersRight
    <3>7. RecorderRight(f, late)
      BY <3>4, <3>6, MusicHalted
    <3>8. f.index + 1 \in Nat \ {0}
      BY <3>4 DEF Halted, RowsRight, RecorderState
    <3> HIDE DEF late, r
    <3>9. RecorderRight(Music!SpawnAt(f, f.index + 1), late)
      BY <3>7, <3>8, MusicSpawned
    <3> QED BY <1>1, <1>4, <2>1, <3>5, <3>7, <3>9
  <2> QED BY <2>3, <2>4
<1>19. CASE Music!Passes
  <2> DEFINE r == Music!Recorder
             tm == [timer EXCEPT !.left = @ - 1]
             el == IF ffmpeg = 0 THEN elapsed ELSE [elapsed EXCEPT ![ffmpeg] = @ + 1]
             m == [r EXCEPT !.timer = tm, !.elapsed = el]
  <2>1. /\ timer.left > 0 /\ timer' = tm /\ elapsed' = el
        /\ UNCHANGED <<call, recording, ffmpeg, list, index, generation, fired, songStatus, died, untold>>
        /\ musicHeld' = musicHeld
    BY <1>19 DEF Music!Passes, Music!modeVars
  <2>2. /\ r.timer = timer /\ r.recording = recording /\ r.gen = generation /\ r.elapsed = elapsed
        /\ r.status = songStatus /\ r.list = list /\ r.index = index /\ r.ffmpeg = ffmpeg
        /\ r.died = died /\ r.untold = untold /\ r.fails = "nothing"
    BY DEF Music!Recorder
  <2>3. RowsRight(r) /\ TimersRight(r, fired) /\ r \in RecorderState
    BY <1>1 DEF RecorderRight, RowsRight
  <2>4. /\ recording \in {0} \union Songs /\ ffmpeg \in {0} \union Songs
        /\ timer \in [gen : Nat, left : 0..SongLength] /\ elapsed \in [Songs -> Nat]
    BY <2>2, <2>3 DEF RecorderState
  <2>5. tm \in [gen : Nat, left : 0..SongLength] /\ tm.gen = timer.gen /\ tm.left = timer.left - 1
    BY <2>1, <2>4, MusicNumbers
  <2>6. /\ el \in [Songs -> Nat] /\ \A s \in Songs : el[s] >= elapsed[s]
        /\ ffmpeg # 0 => el[ffmpeg] = elapsed[ffmpeg] + 1
    BY <2>4
  <2> HIDE DEF tm, el, r
  <2>7. /\ m \in RecorderState /\ m.timer = tm /\ m.elapsed = el /\ m.recording = recording
        /\ m.gen = generation /\ m.list = list /\ m.index = index /\ m.status = songStatus
        /\ m.ffmpeg = ffmpeg /\ m.died = died /\ m.untold = untold /\ m.fails = "nothing"
    BY <2>2, <2>3, <2>5, <2>6 DEF RecorderState
  <2> HIDE DEF m
  <2>8. Music!Recorder' = m
    <3>1. m = [recording |-> recording, ffmpeg |-> ffmpeg, list |-> list, index |-> index,
               gen |-> generation, timer |-> tm, status |-> songStatus, elapsed |-> el,
               died |-> died, untold |-> untold, fails |-> "nothing"]
      BY <2>7 DEF RecorderState
    <3> QED BY <2>1, <3>1 DEF Music!Recorder
  <2>9. \A s \in Songs : s \notin died /\ s \notin untold /\ songStatus[s] = "complete" => el[s] >= SongLength
    <3> SUFFICES ASSUME NEW s \in Songs, s \notin died, s \notin untold, songStatus[s] = "complete"
                 PROVE  el[s] >= SongLength
      OBVIOUS
    <3>1. elapsed[s] >= SongLength
      BY <2>2, <2>3 DEF RowsRight
    <3>2. el[s] \in Nat /\ elapsed[s] \in Nat /\ el[s] >= elapsed[s]
      BY <2>4, <2>6
    <3> QED BY <3>1, <3>2, MusicNumbers
  <2>10. RowsRight(m)
    BY <2>2, <2>3, <2>7, <2>9 DEF RowsRight
  <2>11. ASSUME recording # 0, recording \notin died
         PROVE  /\ ffmpeg = recording /\ tm.gen = generation
                /\ tm.left + el[recording] >= SongLength
                /\ generation \in fired => el[recording] >= SongLength
    <3>1. /\ ffmpeg = recording /\ timer.gen = generation
          /\ timer.left + elapsed[recording] >= SongLength
          /\ generation \in fired => elapsed[recording] >= SongLength
      BY <2>2, <2>3, <2>11 DEF TimersRight
    <3>2. elapsed[recording] \in Nat /\ timer.left \in Nat /\ el[recording] = elapsed[recording] + 1
      BY <2>4, <2>6, <2>11, <3>1, MusicNumbers
    <3> QED BY <2>5, <3>1, <3>2, MusicNumbers
  <2>12. TimersRight(m, fired)
    BY <2>2, <2>3, <2>5, <2>7, <2>11 DEF TimersRight
  <2>13. RecorderRight(m, fired)
    BY <2>10, <2>12 DEF RecorderRight
  <2> QED BY <1>1, <2>1, <2>8, <2>13, MusicSame
<1>20. CASE Music!RecorderDies
  <2> DEFINE r == Music!Recorder
             m == [r EXCEPT !.ffmpeg = 0, !.died = @ \union {ffmpeg}]
  <2>1. ffmpeg # 0 /\ Music!Becomes(m) /\ call' = call /\ fired' = fired /\ musicHeld' = musicHeld
    BY <1>20 DEF Music!RecorderDies, Music!modeVars
  <2>2. r.ffmpeg = ffmpeg
    BY DEF Music!Recorder
  <2>3. RowsRight(r) /\ TimersRight(r, fired) /\ r \in RecorderState
    BY <1>1 DEF RecorderRight, RowsRight
  <2> HIDE DEF r
  <2>4. ffmpeg \in Songs
    BY <2>1, <2>2, <2>3 DEF RecorderState
  <2>5. /\ m \in RecorderState /\ m.died = r.died \union {ffmpeg} /\ m.recording = r.recording
        /\ m.gen = r.gen /\ m.list = r.list /\ m.index = r.index /\ m.status = r.status
        /\ m.timer = r.timer /\ m.elapsed = r.elapsed /\ m.untold = r.untold
    BY <2>3, <2>4 DEF RecorderState
  <2> HIDE DEF m
  <2>6. RowsRight(m)
    BY <2>3, <2>5 DEF RowsRight
  <2>7. ASSUME m.recording # 0, m.recording \notin m.died PROVE FALSE
    BY <2>2, <2>3, <2>5, <2>7 DEF TimersRight
  <2>8. TimersRight(m, fired)
    BY <2>3, <2>5, <2>7 DEF TimersRight
  <2>9. RecorderRight(m, fired)
    BY <2>6, <2>8 DEF RecorderRight
  <2> QED BY <1>1, <1>4, <2>1, <2>9
<1>21. CASE Music!Restart
  <2> DEFINE r == Music!Recorder
             stale == {s \in Songs : songStatus[s] = "recording"}
             freed == [s \in Songs |-> IF s \in stale THEN "incomplete" ELSE songStatus[s]]
  <2>1. /\ recording' = 0 /\ ffmpeg' = 0 /\ list' = <<>> /\ index' = 0 /\ generation' = 0
        /\ timer' = Music!NoTimer /\ fired' = {} /\ elapsed' = elapsed /\ died' = died
        /\ musicHeld' = Music!NoOne /\ call' = [w \in Workers |-> Music!Ready]
    BY <1>21 DEF Music!Restart
  <2>2. PICK st \in {freed, songStatus}, un \in {untold \ stale, untold \union stale} :
          /\ songStatus' = st /\ untold' = un
          /\ (st = freed /\ un = untold \ stale) \/ (st = songStatus /\ un = untold \union stale)
    BY <1>21 DEF Music!Restart
  <2>3. /\ RowsRight(r) /\ r \in RecorderState /\ r.status = songStatus /\ r.elapsed = elapsed
        /\ r.died = died /\ r.untold = untold
    BY <1>1 DEF RecorderRight, RowsRight, Music!Recorder
  <2>4. /\ songStatus \in [Songs -> RowStatus] /\ elapsed \in [Songs -> Nat]
        /\ died \in SUBSET Songs /\ untold \in SUBSET Songs
    BY <2>3 DEF RecorderState
  <2>5. /\ st \in [Songs -> RowStatus] /\ un \in SUBSET Songs
        /\ \A s \in Songs : s \notin un => st[s] # "recording"
        /\ \A s \in Songs : s \notin un /\ st[s] = "complete" => s \notin untold /\ songStatus[s] = "complete"
    <3>1. CASE st = freed /\ un = untold \ stale
      <4>1. st \in [Songs -> RowStatus]
        BY <2>4, <3>1 DEF RowStatus
      <4>2. \A s \in Songs : st[s] # "recording" /\ (st[s] = "complete" => songStatus[s] = "complete" /\ s \notin stale)
        BY <2>4, <3>1
      <4> HIDE DEF stale, freed
      <4> QED BY <2>4, <3>1, <4>1, <4>2
    <3>2. CASE st = songStatus /\ un = untold \union stale
      BY <2>4, <3>2
    <3> QED BY <2>2, <3>1, <3>2
  <2>6. \A s \in Songs : s \notin died /\ s \notin un /\ st[s] = "complete" => elapsed[s] >= SongLength
    BY <2>3, <2>5 DEF RowsRight
  <2> DEFINE m == [recording |-> 0, ffmpeg |-> 0, list |-> <<>>, index |-> 0, gen |-> 0,
                   timer |-> Music!NoTimer, status |-> st, elapsed |-> elapsed, died |-> died,
                   untold |-> un, fails |-> "nothing"]
  <2>7. Music!Recorder' = m
    BY <2>1, <2>2 DEF Music!Recorder
  <2>8. m \in RecorderState
    BY <2>4, <2>5, MusicNumbers DEF RecorderState, Music!NoTimer, Music!Failures
  <2>9. /\ m.recording = 0 /\ m.timer.gen = 0 /\ m.index = 0 /\ m.gen = 0 /\ m.list = <<>>
        /\ m.status = st /\ m.elapsed = elapsed /\ m.died = died /\ m.untold = un
    BY DEF Music!NoTimer
  <2> HIDE DEF m
  <2>10. RecorderRight(m, {})
    BY <2>5, <2>6, <2>8, <2>9, QueueSongs DEF RecorderRight, RowsRight, TimersRight
  <2>11. /\ call' \in [Workers -> CallState]
         /\ \A v \in Workers : CallRight(call'[v])
    BY <1>6, <2>1
  <2> QED BY <1>1, <2>1, <2>7, <2>10, <2>11, MusicSame
<1> QED BY <1>5, <1>7, <1>10, <1>11, <1>12, <1>13, <1>14, <1>15, <1>16, <1>17, <1>18, <1>19, <1>20, <1>21
      DEF Music!Next, Music!Call

\* It implies the types and the properties of the recorder.
LEMMA MusicSafe == MusicInv => Music!TypeOK /\ Music!RowIsRecorded /\ Music!CompleteIsFull
<1> SUFFICES ASSUME MusicInv PROVE Music!TypeOK /\ Music!RowIsRecorded /\ Music!CompleteIsFull
  OBVIOUS
<1> DEFINE r == Music!Recorder
<1>1. /\ r.timer = timer /\ r.recording = recording /\ r.elapsed = elapsed
      /\ r.status = songStatus /\ r.list = list /\ r.index = index /\ r.ffmpeg = ffmpeg
      /\ r.died = died /\ r.untold = untold
  BY DEF Music!Recorder
<1>2. RowsRight(r) /\ r \in RecorderState /\ musicHeld \in {Music!NoOne, Heart} \union Workers
  BY DEF MusicInv, RecorderRight, RowsRight
<1>3. list \in {<<>>, TheQueue} /\ index \in Nat /\ index <= Len(list)
  BY <1>1, <1>2 DEF RecorderState, RowsRight
<1>4. index \in 0..Len(list) /\ Len(list) \in {0} \union Songs
  BY <1>3, QueueSongs
<1>5. /\ recording \in {0} \union Songs /\ ffmpeg \in {0} \union Songs
      /\ died \subseteq Songs /\ untold \subseteq Songs /\ songStatus \in [Songs -> RowStatus] /\ timer.left \in 0..SongLength
  BY <1>1, <1>2 DEF RecorderState
<1> QED BY <1>1, <1>2, <1>4, <1>5 DEF RowsRight, RowStatus, Music!TypeOK, Music!RowIsRecorded, Music!CompleteIsFull

-----------------------------------------------------------------------------
(* The songs of a search.                                                  *)

\* The members of a set of numbers that come before one.
Before(S, i) == {j \in S : j < i}

\* A later member has more of them before it.
LEMMA BeforeGrows ==
  ASSUME NEW top \in Nat, NEW S, S \subseteq 1..top
  PROVE  /\ IsFiniteSet(S) /\ Cardinality(S) \in Nat /\ Cardinality(S) <= top
         /\ \A i \in S : Cardinality(Before(S, i)) \in Nat /\ Cardinality(Before(S, i)) < Cardinality(S)
         /\ \A i, j \in S : i < j => Cardinality(Before(S, i)) < Cardinality(Before(S, j))
<1>1. IsFiniteSet(1..top) /\ Cardinality(1..top) = top
  BY FS_Interval
<1>2. IsFiniteSet(S) /\ Cardinality(S) \in Nat /\ Cardinality(S) <= top
  BY <1>1, FS_Subset, FS_CardinalityType
<1>3. \A i \in S : i \in Nat
  OBVIOUS
<1>4. ASSUME NEW i \in S
      PROVE  Cardinality(Before(S, i)) \in Nat /\ Cardinality(Before(S, i)) < Cardinality(S)
  <2>1. Before(S, i) \subseteq S \ {i}
    BY <1>3 DEF Before
  <2>2. Counts(S, S)
    BY <1>2, CountIn
  <2>3. IsFiniteSet(S \ {i}) /\ Cardinality(S \ {i}) = Cardinality(S) - 1
    BY <2>2 DEF Counts
  <2>4. IsFiniteSet(Before(S, i)) /\ Cardinality(Before(S, i)) <= Cardinality(S \ {i})
    BY <2>1, <2>3, FS_Subset
  <2>5. Cardinality(Before(S, i)) \in Nat
    BY <2>4, FS_CardinalityType
  <2> QED BY <2>3, <2>4, <2>5, <1>2
<1>5. ASSUME NEW i \in S, NEW j \in S, i < j
      PROVE  Cardinality(Before(S, i)) < Cardinality(Before(S, j))
  <2> i \in Nat /\ j \in Nat
    BY <1>3
  <2>0. \A x \in S : x < i => x < j /\ x # i
    BY <1>3, <1>5
  <2>1. Before(S, i) \subseteq Before(S, j) \ {i} /\ i \in Before(S, j) /\ Before(S, j) \subseteq S
    BY <2>0, <1>5 DEF Before
  <2>2. Counts(S, Before(S, j))
    BY <1>2, <2>1, CountIn
  <2>3. /\ IsFiniteSet(Before(S, j) \ {i}) /\ Cardinality(Before(S, j)) \in Nat
        /\ Cardinality(Before(S, j) \ {i}) = Cardinality(Before(S, j)) - 1
    BY <2>1, <2>2 DEF Counts
  <2>4. Cardinality(Before(S, i)) <= Cardinality(Before(S, j) \ {i})
    BY <2>1, <2>3, FS_Subset
  <2>5. Cardinality(Before(S, i)) \in Nat
    BY <1>4
  <2> QED BY <2>3, <2>4, <2>5
<1> QED BY <1>2, <1>4, <1>5

\* Every number of members is that before one of them.
LEMMA PlaceOfRank ==
  ASSUME NEW top \in Nat, NEW S, S \subseteq 1..top, NEW k \in 1..Cardinality(S)
  PROVE  \E i \in S : Cardinality(Before(S, i)) = k - 1
<1>1. /\ IsFiniteSet(S) /\ Cardinality(S) \in Nat
      /\ \A i \in S : Cardinality(Before(S, i)) \in Nat
      /\ \A i, j \in S : i < j => Cardinality(Before(S, i)) < Cardinality(Before(S, j))
  BY BeforeGrows
<1> DEFINE Far == {i \in S : Cardinality(Before(S, i)) >= k - 1}
<1>2. S # {}
  BY <1>1, FS_EmptySet
<1>3. k \in Nat /\ k >= 1 /\ k <= Cardinality(S)
  BY <1>1
<1>4. \A i \in S : i \in Nat
  OBVIOUS
<1>5. Far # {}
  <2>1. S \subseteq 0..top
    OBVIOUS
  <2>2. PICK m \in S : \A y \in S : y <= m
    BY <1>2, <2>1, GreatestNat
  <2>a. \A y \in S : y < m <=> y # m
    BY <1>4, <2>2
  <2>3. Before(S, m) = S \ {m}
    BY <2>a DEF Before
  <2>4. Cardinality(S \ {m}) = Cardinality(S) - 1
    BY <1>1, FS_RemoveElement
  <2>5. Cardinality(Before(S, m)) >= k - 1
    BY <1>1, <1>3, <2>3, <2>4
  <2> QED BY <2>2, <2>5
<1>6. Far \subseteq Nat
  BY <1>4
<1>7. PICK i \in Far : \A y \in Far : i <= y
  BY <1>5, <1>6, LeastNat
<1>8. i \in S /\ i \in Nat /\ Cardinality(Before(S, i)) >= k - 1
  BY <1>4, <1>7
<1>9. CASE Before(S, i) = {}
  <2>1. Cardinality(Before(S, i)) = 0
    BY <1>9, FS_EmptySet
  <2> QED BY <1>3, <1>8, <2>1
<1>10. CASE Before(S, i) # {}
  <2>1. Before(S, i) \subseteq 0..top
    <3>1. Before(S, i) \subseteq S /\ S \subseteq 0..top
      BY DEF Before
    <3> QED BY <3>1
  <2>2. PICK p \in Before(S, i) : \A y \in Before(S, i) : y <= p
    BY <1>10, <2>1, GreatestNat
  <2>3. p \in S /\ p < i /\ p \in Nat
    BY <1>4, <2>2 DEF Before
  <2>4. p \notin Far
    BY <1>7, <1>8, <2>3
  <2>5. ~(Cardinality(Before(S, p)) >= k - 1)
    BY <2>3, <2>4
  <2>b. \A y \in S : y < i => y <= p
    BY <2>2 DEF Before
  <2>c. \A y \in S : y < p <=> y < i /\ y # p
    BY <1>4, <1>8, <2>3, <2>b
  <2>6. Before(S, p) = Before(S, i) \ {p}
    BY <2>c DEF Before
  <2>7. IsFiniteSet(Before(S, i))
    BY <1>1, FS_Subset DEF Before
  <2>8. Cardinality(Before(S, i) \ {p}) = Cardinality(Before(S, i)) - 1
    BY <2>2, <2>7, FS_RemoveElement
  <2>9. Cardinality(Before(S, i)) \in Nat
    BY <1>1, <1>8
  <2> QED BY <1>3, <1>8, <2>5, <2>6, <2>8, <2>9
<1> QED BY <1>9, <1>10

\* The numbers of the search module are those of this one.
LEMMA SearchCounts ==
  /\ \A S : Search!Cardinality(S) = Cardinality(S)
  /\ \A S : Search!IsFiniteSet(S) = IsFiniteSet(S)
BY DEF Search!Cardinality, Cardinality, Search!IsFiniteSet, IsFiniteSet

\* The k-th place of some, for every k of their number.
LEMMA PlacesInOrder ==
  ASSUME NEW top \in Nat, NEW S, S \subseteq 1..top
  PROVE  /\ \A k \in 1..Cardinality(S) : Search!Nth(S, k) \in S
         /\ \A k, l \in 1..Cardinality(S) : k < l => Search!Nth(S, k) < Search!Nth(S, l)
         /\ \A i \in S : \E k \in 1..Cardinality(S) : Search!Nth(S, k) = i
<1>1. /\ IsFiniteSet(S) /\ Cardinality(S) \in Nat
      /\ \A i \in S : Cardinality(Before(S, i)) \in Nat /\ Cardinality(Before(S, i)) < Cardinality(S)
      /\ \A i, j \in S : i < j => Cardinality(Before(S, i)) < Cardinality(Before(S, j))
  BY BeforeGrows
<1>2. \A i \in S : i \in Nat
  OBVIOUS
<1>3. ASSUME NEW k \in 1..Cardinality(S)
      PROVE  Search!Nth(S, k) \in S /\ Cardinality(Before(S, Search!Nth(S, k))) = k - 1
  <2>1. \E i \in S : Cardinality(Before(S, i)) = k - 1
    BY PlaceOfRank
  <2>2. Search!Nth(S, k) = CHOOSE i \in S : Cardinality(Before(S, i)) = k - 1
    BY SearchCounts DEF Search!Nth, Before
  <2> QED BY <2>1, <2>2
<1>4. ASSUME NEW k \in 1..Cardinality(S), NEW l \in 1..Cardinality(S), k < l
      PROVE  Search!Nth(S, k) < Search!Nth(S, l)
  <2>1. /\ Search!Nth(S, k) \in S /\ Cardinality(Before(S, Search!Nth(S, k))) = k - 1
        /\ Search!Nth(S, l) \in S /\ Cardinality(Before(S, Search!Nth(S, l))) = l - 1
    BY <1>3
  <2> DEFINE x == Search!Nth(S, k)
             y == Search!Nth(S, l)
  <2>2. x \in S /\ y \in S /\ x \in Nat /\ y \in Nat
    BY <1>2, <2>1
  <2>3. Cardinality(Before(S, x)) = k - 1 /\ Cardinality(Before(S, y)) = l - 1
    BY <2>1
  <2>4. k \in Nat /\ l \in Nat /\ k < l
    BY <1>1, <1>4
  <2> HIDE DEF x, y
  <2>5. ~(y < x)
    BY <1>1, <2>2, <2>3, <2>4
  <2>6. x # y
    BY <2>3, <2>4
  <2>7. x < y
    BY <2>2, <2>5, <2>6
  <2> QED BY <2>7 DEF x, y
<1>5. ASSUME NEW i \in S PROVE \E k \in 1..Cardinality(S) : Search!Nth(S, k) = i
  <2> DEFINE k == Cardinality(Before(S, i)) + 1
  <2>1. k \in 1..Cardinality(S) /\ k - 1 = Cardinality(Before(S, i))
    BY <1>1
  <2> HIDE DEF k
  <2>2. Search!Nth(S, k) \in S /\ Cardinality(Before(S, Search!Nth(S, k))) = Cardinality(Before(S, i))
    BY <1>3, <2>1
  <2> DEFINE x == Search!Nth(S, k)
  <2>3. x \in S /\ Cardinality(Before(S, x)) = Cardinality(Before(S, i)) /\ x \in Nat /\ i \in Nat
    BY <1>2, <2>2
  <2> HIDE DEF x
  <2>4. ~(x < i) /\ ~(i < x)
    BY <1>1, <2>3
  <2>5. x = i
    BY <2>3, <2>4
  <2> QED BY <2>1, <2>5 DEF x
<1> QED BY <1>3, <1>4, <1>5

Song == [id : Nat, title : 0..2, by : 0..2, names : 0..2]

\* What is kept of a list of songs: those at the places, in their order.
LEMMA KeptSongs ==
  ASSUME NEW s \in Seq(Song), NEW P, P \subseteq DOMAIN s
  PROVE  LET q == Search!Kept(s, P)
         IN  /\ q \in Seq(Song) /\ Len(q) = Cardinality(P) /\ IsFiniteSet(P) /\ Len(q) <= Len(s)
             /\ Cardinality(P) \in Nat
             /\ \A k \in 1..Len(q) : Search!Nth(P, k) \in P /\ q[k] = s[Search!Nth(P, k)]
             /\ \A k, l \in 1..Len(q) : k < l => Search!Nth(P, k) < Search!Nth(P, l)
             /\ \A i \in P : \E k \in 1..Len(q) : Search!Nth(P, k) = i /\ q[k] = s[i]
<1> DEFINE q == Search!Kept(s, P)
           n == Cardinality(P)
<1>1. Len(s) \in Nat /\ DOMAIN s = 1..Len(s) /\ P \subseteq 1..Len(s)
  OBVIOUS
<1>2. IsFiniteSet(P) /\ n \in Nat /\ n <= Len(s)
  BY <1>1, BeforeGrows
<1>3. /\ \A k \in 1..n : Search!Nth(P, k) \in P
      /\ \A k, l \in 1..n : k < l => Search!Nth(P, k) < Search!Nth(P, l)
      /\ \A i \in P : \E k \in 1..n : Search!Nth(P, k) = i
  BY <1>1, PlacesInOrder
<1>4. q = [k \in 1..n |-> s[Search!Nth(P, k)]]
  BY SearchCounts DEF Search!Kept
<1>5. \A k \in 1..n : s[Search!Nth(P, k)] \in Song
  <2>1. \A i \in P : s[i] \in Song
    BY <1>1
  <2> QED BY <1>3, <2>1
<1> HIDE DEF q, n
<1>6. q \in Seq(Song) /\ Len(q) = n /\ \A k \in 1..n : q[k] = s[Search!Nth(P, k)]
  BY <1>2, <1>4, <1>5
<1> HIDE DEF q
<1>7. q \in Seq(Song) /\ Len(q) = Cardinality(P)
  BY <1>6 DEF n
<1>8. \A k \in 1..Len(q) : Search!Nth(P, k) \in P /\ q[k] = s[Search!Nth(P, k)]
  BY <1>3, <1>6
<1>9. \A k, l \in 1..Len(q) : k < l => Search!Nth(P, k) < Search!Nth(P, l)
  BY <1>3, <1>6
<1>10. \A i \in P : \E k \in 1..Len(q) : Search!Nth(P, k) = i /\ q[k] = s[i]
  BY <1>3, <1>6
<1>11. Len(q) <= Len(s) /\ Cardinality(P) \in Nat
  BY <1>2, <1>6 DEF n
<1> QED BY <1>2, <1>7, <1>8, <1>9, <1>10, <1>11 DEF q

\* The first so many.
LEMMA UptoSongs ==
  ASSUME NEW s \in Seq(Song), NEW n \in Nat
  PROVE  /\ Search!Upto(s, n) \in Seq(Song)
         /\ Len(Search!Upto(s, n)) = IF Len(s) < n THEN Len(s) ELSE n
         /\ \A i \in 1..Len(Search!Upto(s, n)) : i \in 1..Len(s) /\ Search!Upto(s, n)[i] = s[i]
<1> DEFINE m == IF Len(s) < n THEN Len(s) ELSE n
<1>1. m \in Nat /\ m <= Len(s)
  OBVIOUS
<1>2. Search!Upto(s, n) = SubSeq(s, 1, m)
  BY DEF Search!Upto
<1> HIDE DEF m
<1>3. /\ SubSeq(s, 1, m) \in Seq(Song) /\ Len(SubSeq(s, 1, m)) = m
      /\ \A i \in 1..m : i \in 1..Len(s) /\ SubSeq(s, 1, m)[i] = s[i]
  BY <1>1
<1> QED BY <1>2, <1>3 DEF m

\* Two lists, one after the other.
LEMMA SongsJoined ==
  ASSUME NEW a \in Seq(Song), NEW b \in Seq(Song)
  PROVE  LET q == a \o b
         IN  /\ q \in Seq(Song) /\ Len(q) = Len(a) + Len(b)
             /\ \A i \in 1..Len(a) : q[i] = a[i] /\ i \in 1..Len(q)
             /\ \A i \in 1..Len(b) : q[Len(a) + i] = b[i] /\ Len(a) + i \in 1..Len(q)
             /\ \A i \in 1..Len(q) : \/ i \in 1..Len(a) /\ q[i] = a[i]
                                     \/ i > Len(a) /\ i - Len(a) \in 1..Len(b) /\ q[i] = b[i - Len(a)]
<1> DEFINE q == a \o b
<1>1. q \in Seq(Song) /\ Len(q) = Len(a) + Len(b) /\ Len(a) \in Nat /\ Len(b) \in Nat
  OBVIOUS
<1>2. \A i \in 1..(Len(a) + Len(b)) : q[i] = IF i <= Len(a) THEN a[i] ELSE b[i - Len(a)]
  OBVIOUS
<1> HIDE DEF q
<1>3. \A i \in 1..Len(a) : q[i] = a[i] /\ i \in 1..Len(q)
  BY <1>1, <1>2
<1>4. \A i \in 1..Len(b) : q[Len(a) + i] = b[i] /\ Len(a) + i \in 1..Len(q)
  <2> TAKE i \in 1..Len(b)
  <2> DEFINE m == Len(a) + i
  <2>1. m \in 1..(Len(a) + Len(b)) /\ ~(m <= Len(a)) /\ m - Len(a) = i
    BY <1>1
  <2> HIDE DEF m
  <2>2. q[m] = b[i] /\ m \in 1..Len(q)
    BY <1>1, <1>2, <2>1
  <2> QED BY <2>2 DEF m
<1>5. \A i \in 1..Len(q) : \/ i \in 1..Len(a) /\ q[i] = a[i]
                           \/ i > Len(a) /\ i - Len(a) \in 1..Len(b) /\ q[i] = b[i - Len(a)]
  BY <1>1, <1>2
<1>6. /\ q \in Seq(Song) /\ Len(q) = Len(a) + Len(b)
      /\ \A i \in 1..Len(a) : q[i] = a[i] /\ i \in 1..Len(q)
      /\ \A i \in 1..Len(b) : q[Len(a) + i] = b[i] /\ Len(a) + i \in 1..Len(q)
      /\ \A i \in 1..Len(q) : \/ i \in 1..Len(a) /\ q[i] = a[i]
                              \/ i > Len(a) /\ i - Len(a) \in 1..Len(b) /\ q[i] = b[i - Len(a)]
  BY <1>1, <1>3, <1>4, <1>5
<1> QED BY <1>6 DEF q

\* The songs of a list that name n artists.
LevelOf(s, n) == Search!Kept(s, {i \in DOMAIN s : s[i].names = n})

\* They are the songs of the list that name so many, all of them.
LEMMA LevelSongs ==
  ASSUME NEW s \in Seq(Song), NEW n \in Nat
  PROVE  /\ LevelOf(s, n) \in Seq(Song)
         /\ \A i \in 1..Len(LevelOf(s, n)) :
               LevelOf(s, n)[i].names = n /\ \E j \in 1..Len(s) : LevelOf(s, n)[i] = s[j]
         /\ \A j \in 1..Len(s) : s[j].names = n => \E i \in 1..Len(LevelOf(s, n)) : LevelOf(s, n)[i] = s[j]
         /\ Len(LevelOf(s, n)) = Cardinality({i \in 1..Len(s) : s[i].names = n})
<1> DEFINE P == {i \in DOMAIN s : s[i].names = n}
           q == Search!Kept(s, P)
<1>1. P \subseteq DOMAIN s /\ DOMAIN s = 1..Len(s)
  OBVIOUS
<1>4. \A i \in P : i \in 1..Len(s) /\ s[i].names = n
  BY <1>1
<1>5. \A i \in 1..Len(s) : s[i].names = n => i \in P
  BY <1>1
<1>6. P = {i \in 1..Len(s) : s[i].names = n}
  BY <1>1
<1>3. LevelOf(s, n) = q
  BY DEF LevelOf
<1> HIDE DEF P
<1>2. /\ q \in Seq(Song) /\ Len(q) = Cardinality(P)
      /\ \A k \in 1..Len(q) : Search!Nth(P, k) \in P /\ q[k] = s[Search!Nth(P, k)]
      /\ \A i \in P : \E k \in 1..Len(q) : q[k] = s[i]
  BY <1>1, KeptSongs
<1> HIDE DEF q
<1>7. \A k \in 1..Len(q) : q[k].names = n /\ \E j \in 1..Len(s) : q[k] = s[j]
  BY <1>2, <1>4
<1>8. \A j \in 1..Len(s) : s[j].names = n => \E k \in 1..Len(q) : q[k] = s[j]
  BY <1>2, <1>5
<1> QED BY <1>2, <1>3, <1>6, <1>7, <1>8

\* Three levels hold them all.
LEMMA LevelsHoldAll ==
  ASSUME NEW s \in Seq(Song)
  PROVE  Len(s) <= Len(LevelOf(s, 1)) + Len(LevelOf(s, 2)) + Len(LevelOf(s, 0))
<1> DEFINE All == 1..Len(s)
           D1 == {i \in All : s[i].names = 1}
           D2 == {i \in All : s[i].names = 2}
           D0 == {i \in All : s[i].names = 0}
<1>1. IsFiniteSet(All) /\ Cardinality(All) = Len(s)
  <2>1. Len(s) \in Nat
    OBVIOUS
  <2> QED BY <2>1, FS_Interval
<1>2. All = (D1 \union D2) \union D0
  <2>1. \A i \in All : s[i] \in Song
    OBVIOUS
  <2>2. \A x \in Song : x.names = 1 \/ x.names = 2 \/ x.names = 0
    BY DEF Song
  <2> HIDE DEF All
  <2> QED BY <2>1, <2>2
<1>3. D1 \subseteq All /\ D2 \subseteq All /\ D0 \subseteq All
  OBVIOUS
<1>4. Len(LevelOf(s, 1)) = Cardinality(D1) /\ Len(LevelOf(s, 2)) = Cardinality(D2) /\ Len(LevelOf(s, 0)) = Cardinality(D0)
  BY LevelSongs
<1> HIDE DEF D1, D2, D0, All
<1>5. Counts(All, D1) /\ Counts(All, D2) /\ Counts(All, D1 \union D2) /\ Counts(All, D0)
  BY <1>1, <1>3, CountIn
<1>6. Cardinality(D1 \union D2) <= Cardinality(D1) + Cardinality(D2)
  BY <1>3, <1>5 DEF Counts
<1>7. Cardinality((D1 \union D2) \union D0) <= Cardinality(D1 \union D2) + Cardinality(D0)
  BY <1>3, <1>5 DEF Counts
<1>8. Cardinality(D1) \in Nat /\ Cardinality(D2) \in Nat /\ Cardinality(D0) \in Nat /\ Cardinality(D1 \union D2) \in Nat
  BY <1>5 DEF Counts
<1>9. Len(s) = Cardinality((D1 \union D2) \union D0)
  BY <1>1, <1>2
<1>10. \A a, b, c, d, e \in Nat : d <= a + b /\ e <= d + c => e <= a + b + c
  OBVIOUS
<1>11. Cardinality((D1 \union D2) \union D0) \in Nat
  BY <1>9
<1> QED BY <1>4, <1>6, <1>7, <1>8, <1>9, <1>10, <1>11

\* The same for every number.
LEMMA LevelsAre ==
  ASSUME NEW s \in Seq(Song)
  PROVE  \A n \in Nat :
         /\ \A i \in 1..Len(LevelOf(s, n)) :
               LevelOf(s, n)[i].names = n /\ \E j \in 1..Len(s) : LevelOf(s, n)[i] = s[j]
         /\ \A j \in 1..Len(s) : s[j].names = n => \E i \in 1..Len(LevelOf(s, n)) : LevelOf(s, n)[i] = s[j]
<1> TAKE n \in Nat
<1>1. \A i \in 1..Len(LevelOf(s, n)) :
               LevelOf(s, n)[i].names = n /\ \E j \in 1..Len(s) : LevelOf(s, n)[i] = s[j]
  BY LevelSongs
<1>2. \A j \in 1..Len(s) : s[j].names = n => \E i \in 1..Len(LevelOf(s, n)) : LevelOf(s, n)[i] = s[j]
  BY LevelSongs
<1> QED BY <1>1, <1>2

\* The songs of a list, those with fewer artists first where that is asked for.
LEMMA RankedSongs ==
  ASSUME NEW s \in Seq(Song), request.ranked \in BOOLEAN
  PROVE  LET q == Search!Ranked(s)
         IN  /\ q \in Seq(Song) /\ Len(s) <= Len(q)
             /\ \A i \in 1..Len(q) : \E j \in 1..Len(s) : q[i] = s[j]
             /\ \A j \in 1..Len(s) : \E i \in 1..Len(q) : q[i] = s[j]
             /\ request.ranked => \A i, j \in 1..Len(q) : i < j => ~Search!FewerArtists(q[j], q[i])
<1> DEFINE A == LevelOf(s, 1)
           B == LevelOf(s, 2)
           C == LevelOf(s, 0)
           AB == A \o B
           q == AB \o C
<1>1. A \in Seq(Song) /\ B \in Seq(Song) /\ C \in Seq(Song)
  BY LevelSongs
<1>q. \A x \in Song : x.names \in 0..2
  BY DEF Song
<1>s. \A j \in 1..Len(s) : s[j] \in Song /\ s[j].names \in 0..2
  <2>1. \A j \in 1..Len(s) : s[j] \in Song
    OBVIOUS
  <2> QED BY <2>1, <1>q
<1>n. \A n \in Nat :
         /\ \A i \in 1..Len(LevelOf(s, n)) :
               LevelOf(s, n)[i].names = n /\ \E j \in 1..Len(s) : LevelOf(s, n)[i] = s[j]
         /\ \A j \in 1..Len(s) : s[j].names = n => \E i \in 1..Len(LevelOf(s, n)) : LevelOf(s, n)[i] = s[j]
  BY LevelsAre
<1>2. /\ \A i \in 1..Len(A) : A[i].names = 1 /\ \E j \in 1..Len(s) : A[i] = s[j]
      /\ \A i \in 1..Len(B) : B[i].names = 2 /\ \E j \in 1..Len(s) : B[i] = s[j]
      /\ \A i \in 1..Len(C) : C[i].names = 0 /\ \E j \in 1..Len(s) : C[i] = s[j]
  BY <1>n, <1>s
<1>3. /\ \A j \in 1..Len(s) : s[j].names = 1 => \E i \in 1..Len(A) : A[i] = s[j]
      /\ \A j \in 1..Len(s) : s[j].names = 2 => \E i \in 1..Len(B) : B[i] = s[j]
      /\ \A j \in 1..Len(s) : s[j].names = 0 => \E i \in 1..Len(C) : C[i] = s[j]
  BY <1>n, <1>s
<1>4. Len(s) <= Len(A) + Len(B) + Len(C)
  BY LevelsHoldAll
<1> HIDE DEF A, B, C
<1>5. /\ AB \in Seq(Song) /\ Len(AB) = Len(A) + Len(B)
      /\ \A i \in 1..Len(A) : AB[i] = A[i] /\ i \in 1..Len(AB)
      /\ \A i \in 1..Len(B) : AB[Len(A) + i] = B[i] /\ Len(A) + i \in 1..Len(AB)
      /\ \A i \in 1..Len(AB) : \/ i \in 1..Len(A) /\ AB[i] = A[i]
                               \/ i > Len(A) /\ i - Len(A) \in 1..Len(B) /\ AB[i] = B[i - Len(A)]
  BY <1>1, SongsJoined
<1> HIDE DEF AB
<1>6. /\ q \in Seq(Song) /\ Len(q) = Len(AB) + Len(C)
      /\ \A i \in 1..Len(AB) : q[i] = AB[i] /\ i \in 1..Len(q)
      /\ \A i \in 1..Len(C) : q[Len(AB) + i] = C[i] /\ Len(AB) + i \in 1..Len(q)
      /\ \A i \in 1..Len(q) : \/ i \in 1..Len(AB) /\ q[i] = AB[i]
                              \/ i > Len(AB) /\ i - Len(AB) \in 1..Len(C) /\ q[i] = C[i - Len(AB)]
  BY <1>1, <1>5, SongsJoined
<1> HIDE DEF q
<1>7. Len(A) \in Nat /\ Len(B) \in Nat /\ Len(C) \in Nat /\ Len(AB) \in Nat /\ Len(q) \in Nat
  BY <1>1, <1>5, <1>6
<1>8. \A i \in 1..Len(q) : /\ \E j \in 1..Len(s) : q[i] = s[j]
                           /\ \/ q[i].names = 1 /\ i <= Len(A)
                              \/ q[i].names = 2 /\ Len(A) < i /\ i <= Len(AB)
                              \/ q[i].names = 0 /\ Len(AB) < i
  <2> TAKE i \in 1..Len(q)
  <2>1. CASE i \in 1..Len(AB) /\ q[i] = AB[i]
    <3>1. CASE i \in 1..Len(A) /\ AB[i] = A[i]
      BY <2>1, <3>1, <1>2, <1>7
    <3>2. CASE i > Len(A) /\ i - Len(A) \in 1..Len(B) /\ AB[i] = B[i - Len(A)]
      <4> DEFINE k == i - Len(A)
      <4>1. k \in 1..Len(B) /\ q[i] = B[k]
        BY <2>1, <3>2
      <4> HIDE DEF k
      <4>2. q[i].names = 2 /\ \E j \in 1..Len(s) : q[i] = s[j]
        BY <4>1, <1>2
      <4>3. Len(A) < i /\ i <= Len(AB)
        BY <2>1, <3>2, <1>7
      <4> QED BY <4>2, <4>3
    <3> QED BY <2>1, <3>1, <3>2, <1>5
  <2>2. CASE i > Len(AB) /\ i - Len(AB) \in 1..Len(C) /\ q[i] = C[i - Len(AB)]
    <3> DEFINE k == i - Len(AB)
    <3>1. k \in 1..Len(C) /\ q[i] = C[k] /\ Len(AB) < i
      BY <2>2, <1>7
    <3> HIDE DEF k
    <3> QED BY <3>1, <1>2
  <2> QED BY <2>1, <2>2, <1>6
<1>9. \A j \in 1..Len(s) : \E i \in 1..Len(q) : q[i] = s[j]
  <2> TAKE j \in 1..Len(s)
  <2>0. s[j] \in Song
    OBVIOUS
  <2>1. CASE s[j].names = 1
    <3>1. PICK i \in 1..Len(A) : A[i] = s[j]
      BY <1>3, <2>1
    <3>2. AB[i] = s[j] /\ i \in 1..Len(AB)
      BY <3>1, <1>5
    <3> QED BY <3>2, <1>6
  <2>2. CASE s[j].names = 2
    <3>1. PICK i \in 1..Len(B) : B[i] = s[j]
      BY <1>3, <2>2
    <3> DEFINE k == Len(A) + i
    <3>2. AB[k] = s[j] /\ k \in 1..Len(AB)
      BY <3>1, <1>5
    <3> HIDE DEF k
    <3> QED BY <3>2, <1>6
  <2>3. CASE s[j].names = 0
    <3>1. PICK i \in 1..Len(C) : C[i] = s[j]
      BY <1>3, <2>3
    <3> DEFINE k == Len(AB) + i
    <3>2. q[k] = s[j] /\ k \in 1..Len(q)
      BY <3>1, <1>6
    <3> HIDE DEF k
    <3> QED BY <3>2
  <2> QED BY <2>0, <2>1, <2>2, <2>3 DEF Song
<1>10. \A i, j \in 1..Len(q) : i < j => ~Search!FewerArtists(q[j], q[i])
  <2> SUFFICES ASSUME NEW i \in 1..Len(q), NEW j \in 1..Len(q), i < j
               PROVE  ~Search!FewerArtists(q[j], q[i])
    OBVIOUS
  <2>1. \/ q[i].names = 1 /\ i <= Len(A)
        \/ q[i].names = 2 /\ Len(A) < i /\ i <= Len(AB)
        \/ q[i].names = 0 /\ Len(AB) < i
    BY <1>8
  <2>2. \/ q[j].names = 1 /\ j <= Len(A)
        \/ q[j].names = 2 /\ Len(A) < j /\ j <= Len(AB)
        \/ q[j].names = 0 /\ Len(AB) < j
    BY <1>8
  <2>3. Len(A) <= Len(AB) /\ i \in Nat /\ j \in Nat
    BY <1>5, <1>7
  <2> QED BY <2>1, <2>2, <2>3, <1>7 DEF Search!FewerArtists
<1>11. Len(s) <= Len(q)
  BY <1>4, <1>5, <1>6, <1>7
<1>12. CASE request.ranked
  <2>1. Search!Ranked(s) = q
    BY <1>12 DEF Search!Ranked, q, AB, A, B, C, LevelOf
  <2> QED BY <2>1, <1>6, <1>8, <1>9, <1>10, <1>11
<1>13. CASE ~request.ranked
  <2>1. Search!Ranked(s) = s
    BY <1>13 DEF Search!Ranked
  <2> QED BY <2>1, <1>13
<1> QED BY <1>12, <1>13

-----------------------------------------------------------------------------

SearchTypes ==
    /\ songCatalog \in Seq(Song) /\ Len(songCatalog) <= MaxHits
    /\ request \in [kind : Search!Kinds, want : 1..3, ranked : BOOLEAN, index : Seq(Song)]
    /\ found \in Seq(Song)
    /\ searchPage \in 0..(MaxHits + 1) /\ songChanges \in 0..MaxSongChanges

\* No two songs of NetEase's have the same number.
NumbersRight ==
    /\ \A i \in 1..Len(songCatalog) : songCatalog[i].id \in 1..Len(songCatalog)
    /\ \A i, j \in 1..Len(songCatalog) : i # j => songCatalog[i].id # songCatalog[j].id

\* What is collected: no song twice, not too many, the artist's.
Collected(q) ==
    /\ Len(q) <= request.want
    /\ \A i, j \in 1..Len(q) : i # j => q[i].id # q[j].id
    /\ request.kind = "artist queue" => \A i \in 1..Len(q) : q[i].by = 2

\* The artist's songs among the first n are collected, or there are enough.
Covers(q, n) ==
    songChanges = 0 /\ request.kind = "artist queue" =>
        \/ Len(q) >= request.want
        \/ \A i \in 1..Len(songCatalog) :
              i <= n /\ songCatalog[i].by = 2 => \E k \in 1..Len(q) : q[k].id = songCatalog[i].id

PagesRight ==
    request.kind # "title" =>
        /\ Collected(found) /\ Len(request.index) <= 1
        /\ answer = Search!Open =>
              searchPage * PageSize <= Len(songCatalog) /\ Covers(found, searchPage * PageSize)

SearchInv == SearchTypes /\ NumbersRight /\ PagesRight /\ Search!QueueIsTheArtists

\* A page's offset is a number that grows with the page.
LEMMA Offsets ==
  /\ \A p \in Nat : p * PageSize \in Nat /\ p <= p * PageSize /\ (p + 1) * PageSize = p * PageSize + PageSize
  /\ 0 * PageSize = 0 /\ PageSize \in Nat /\ PageSize > 0 /\ MaxPages \in Nat /\ MaxHits \in Nat /\ MaxSongChanges \in Nat
<1>1. PageSize \in Nat /\ PageSize > 0 /\ MaxPages \in Nat /\ MaxHits \in Nat /\ MaxSongChanges \in Nat
  BY SongsAssumption
<1>2. ASSUME NEW p \in Nat, NEW n \in Nat, n > 0
      PROVE  p * n \in Nat /\ p <= p * n /\ (p + 1) * n = p * n + n /\ 0 * n = 0
  <2>1. p * n \in Nat /\ (p + 1) * n = p * n + n /\ 0 * n = 0
    OBVIOUS
  <2> DEFINE m == n - 1
  <2>2. m \in Nat /\ n = m + 1
    BY <1>2
  <2> HIDE DEF m
  <2>3. p * m \in Nat /\ p * (m + 1) = p * m + p
    BY <2>2
  <2>4. p <= p * m + p
    BY <2>3
  <2> QED BY <2>1, <2>2, <2>3, <2>4
<1> QED BY <1>1, <1>2

\* What the next page shows, of NetEase's answer of now.
LEMMA BatchSongs ==
  ASSUME SearchTypes, NEW off \in Nat, off = searchPage * PageSize, off <= Len(songCatalog)
  PROVE  LET b == Search!Batch
         IN  /\ b \in Seq(Song)
             /\ Len(b) = IF Len(songCatalog) - off < PageSize THEN Len(songCatalog) - off ELSE PageSize
             /\ \A i \in 1..Len(b) : off + i \in 1..Len(songCatalog) /\ b[i] = songCatalog[off + i]
<1> DEFINE r == SubSeq(songCatalog, off + 1, Len(songCatalog))
           b == Search!Upto(r, PageSize)
<1>0. Search!Batch = b
  BY DEF Search!Batch
<1>1. songCatalog \in Seq(Song) /\ Len(songCatalog) \in Nat
  BY DEF SearchTypes
<1>2. /\ r \in Seq(Song) /\ Len(r) = Len(songCatalog) - off
      /\ \A i \in 1..Len(r) : off + i \in 1..Len(songCatalog) /\ r[i] = songCatalog[off + i]
  <2>1. r \in Seq(Song) /\ Len(r) = Len(songCatalog) - off
    BY <1>1
  <2>2. \A i \in 1..(Len(songCatalog) - off) : off + i \in 1..Len(songCatalog) /\ r[i] = songCatalog[(off + 1) + i - 1]
    BY <1>1
  <2>3. \A i \in 1..(Len(songCatalog) - off) : (off + 1) + i - 1 = off + i
    BY <1>1
  <2> HIDE DEF r
  <2> QED BY <2>1, <2>2, <2>3
<1> HIDE DEF r
<1>3. /\ b \in Seq(Song) /\ Len(b) = IF Len(r) < PageSize THEN Len(r) ELSE PageSize
      /\ \A i \in 1..Len(b) : i \in 1..Len(r) /\ b[i] = r[i]
  BY <1>2, Offsets, UptoSongs
<1> HIDE DEF b
<1>4. \A i \in 1..Len(b) : off + i \in 1..Len(songCatalog) /\ b[i] = songCatalog[off + i]
  BY <1>2, <1>3
<1> QED BY <1>0, <1>2, <1>3, <1>4

\* What of it is new.
LEMMA FreshSongs ==
  ASSUME NEW b \in Seq(Song), found \in Seq(Song), \A i, j \in 1..Len(b) : i # j => b[i].id # b[j].id
  PROVE  LET f == Search!Fresh(b)
         IN  /\ f \in Seq(Song)
             /\ \A k \in 1..Len(f) : \A i \in 1..Len(found) : f[k].id # found[i].id
             /\ \A k, l \in 1..Len(f) : k # l => f[k].id # f[l].id
             /\ request.kind = "artist queue" => \A k \in 1..Len(f) : f[k].by = 2
             /\ \A i \in 1..Len(b) : b[i].by = 2 => \/ \E k \in 1..Len(f) : f[k].id = b[i].id
                                                    \/ \E k \in 1..Len(found) : found[k].id = b[i].id
<1> DEFINE P == {i \in DOMAIN b : b[i].id \notin Search!IdsOf(found) /\ Search!Suits(b[i])}
           f == Search!Kept(b, P)
<1>0. Search!Fresh(b) = f
  BY DEF Search!Fresh
<1>1. P \subseteq DOMAIN b /\ DOMAIN b = 1..Len(b) /\ DOMAIN found = 1..Len(found)
  OBVIOUS
<1>2. \A i \in P : i \in 1..Len(b)
  BY <1>1
<1>a. request.kind = "artist queue" => \A i \in P : b[i].by = 2
  BY DEF Search!Suits
<1>b. \A i \in P : \A k \in 1..Len(found) : b[i].id # found[k].id
  BY <1>1 DEF Search!IdsOf
<1>3. \A i \in 1..Len(b) : b[i].by = 2 => i \in P \/ \E k \in 1..Len(found) : found[k].id = b[i].id
  BY <1>1 DEF Search!Suits, Search!IdsOf
<1> HIDE DEF P
<1>4. /\ f \in Seq(Song) /\ Len(f) \in Nat
      /\ \A k \in 1..Len(f) : Search!Nth(P, k) \in P /\ f[k] = b[Search!Nth(P, k)]
      /\ \A k, l \in 1..Len(f) : k < l => Search!Nth(P, k) < Search!Nth(P, l)
      /\ \A i \in P : \E k \in 1..Len(f) : f[k] = b[i]
  BY <1>1, KeptSongs
<1> HIDE DEF f
<1>5. \A k \in 1..Len(f) : \A i \in 1..Len(found) : f[k].id # found[i].id
  <2> TAKE k \in 1..Len(f)
  <2> QED BY <1>b, <1>4
<1>6. ASSUME NEW k \in 1..Len(f), NEW l \in 1..Len(f), k # l PROVE f[k].id # f[l].id
  <2>1. k < l \/ l < k
    BY <1>4, <1>6
  <2> DEFINE x == Search!Nth(P, k)
             y == Search!Nth(P, l)
  <2>2. x \in P /\ y \in P /\ f[k] = b[x] /\ f[l] = b[y] /\ (x < y \/ y < x)
    BY <1>4, <2>1
  <2> HIDE DEF x, y
  <2>a. x \in 1..Len(b) /\ y \in 1..Len(b)
    BY <1>2, <2>2
  <2>3. x \in 1..Len(b) /\ y \in 1..Len(b) /\ x # y
    BY <2>2, <2>a
  <2>4. b[x].id # b[y].id
    BY <2>3
  <2> QED BY <2>2, <2>4
<1>7. request.kind = "artist queue" => \A k \in 1..Len(f) : f[k].by = 2
  <2> SUFFICES ASSUME request.kind = "artist queue", NEW k \in 1..Len(f) PROVE f[k].by = 2
    OBVIOUS
  <2>1. \A i \in P : b[i].by = 2
    BY <1>a
  <2>2. PICK i \in P : f[k] = b[i]
    BY <1>4
  <2>3. b[i].by = 2
    BY <2>1
  <2> QED BY <2>2, <2>3
<1>8. \A i \in 1..Len(b) : b[i].by = 2 => \/ \E k \in 1..Len(f) : f[k].id = b[i].id
                                         \/ \E k \in 1..Len(found) : found[k].id = b[i].id
  BY <1>3, <1>4
<1> QED BY <1>0, <1>4, <1>5, <1>6, <1>7, <1>8

\* The length of a list of songs.
LEMMA ListLength == ASSUME NEW s \in Seq(Song) PROVE Len(s) \in Nat /\ DOMAIN s = 1..Len(s)
OBVIOUS

\* A page's new songs, behind what was collected.
LEMMA PageCollects ==
  ASSUME SearchInv, request.kind # "title", answer = Search!Open, ~Search!Enough,
         NEW off \in Nat, off = searchPage * PageSize
  PROVE  LET q == found \o Search!Upto(Search!Fresh(Search!Batch), request.want - Len(found))
         IN  q \in Seq(Song) /\ Collected(q) /\ Covers(q, off + PageSize)
<1> DEFINE b == Search!Batch
           f == Search!Fresh(b)
           room == request.want - Len(found)
           new == Search!Upto(f, room)
           q == found \o new
<1>1. /\ found \in Seq(Song) /\ Len(found) \in Nat /\ request.want \in Nat
      /\ songCatalog \in Seq(Song) /\ Len(songCatalog) \in Nat
  BY DEF SearchInv, SearchTypes
<1>2. off <= Len(songCatalog) /\ Collected(found) /\ Covers(found, off)
  BY DEF SearchInv, PagesRight
<1>3. Len(found) < request.want
  <2>1. ~(Len(found) >= request.want)
    BY DEF Search!Enough
  <2> QED BY <1>1, <2>1
<1>4. room \in Nat
  BY <1>1, <1>3
<1>5. /\ b \in Seq(Song)
      /\ Len(b) = IF Len(songCatalog) - off < PageSize THEN Len(songCatalog) - off ELSE PageSize
      /\ \A i \in 1..Len(b) : off + i \in 1..Len(songCatalog) /\ b[i] = songCatalog[off + i]
  BY <1>2, BatchSongs DEF SearchInv
<1> HIDE DEF b
<1>6. \A i, j \in 1..Len(b) : i # j => b[i].id # b[j].id
  <2> SUFFICES ASSUME NEW i \in 1..Len(b), NEW j \in 1..Len(b), i # j PROVE b[i].id # b[j].id
    OBVIOUS
  <2> DEFINE x == off + i
             y == off + j
  <2>1. x \in 1..Len(songCatalog) /\ y \in 1..Len(songCatalog) /\ b[i] = songCatalog[x] /\ b[j] = songCatalog[y]
    BY <1>5
  <2>2. x # y
    BY <1>5
  <2> HIDE DEF x, y
  <2> QED BY <2>1, <2>2 DEF SearchInv, NumbersRight
<1>7. /\ f \in Seq(Song)
      /\ \A k \in 1..Len(f) : \A i \in 1..Len(found) : f[k].id # found[i].id
      /\ \A k, l \in 1..Len(f) : k # l => f[k].id # f[l].id
      /\ request.kind = "artist queue" => \A k \in 1..Len(f) : f[k].by = 2
      /\ \A i \in 1..Len(b) : b[i].by = 2 => \/ \E k \in 1..Len(f) : f[k].id = b[i].id
                                             \/ \E k \in 1..Len(found) : found[k].id = b[i].id
  BY <1>1, <1>5, <1>6, FreshSongs
<1> HIDE DEF f, room
<1>8. /\ new \in Seq(Song) /\ Len(new) = IF Len(f) < room THEN Len(f) ELSE room
      /\ \A i \in 1..Len(new) : i \in 1..Len(f) /\ new[i] = f[i]
  BY <1>4, <1>7, UptoSongs
<1> HIDE DEF new
<1>9. /\ q \in Seq(Song) /\ Len(q) = Len(found) + Len(new)
      /\ \A i \in 1..Len(found) : q[i] = found[i] /\ i \in 1..Len(q)
      /\ \A i \in 1..Len(new) : q[Len(found) + i] = new[i] /\ Len(found) + i \in 1..Len(q)
      /\ \A i \in 1..Len(q) : \/ i \in 1..Len(found) /\ q[i] = found[i]
                              \/ i > Len(found) /\ i - Len(found) \in 1..Len(new) /\ q[i] = new[i - Len(found)]
  BY <1>1, <1>8, SongsJoined
<1> HIDE DEF q
<1>10. Len(new) \in Nat /\ Len(f) \in Nat /\ Len(q) \in Nat /\ Len(b) \in Nat
  <2>1. new \in Seq(Song)
    BY <1>8
  <2>2. f \in Seq(Song)
    BY <1>7
  <2>3. b \in Seq(Song)
    BY <1>5
  <2>4. q \in Seq(Song)
    BY <1>9
  <2> QED BY <2>1, <2>2, <2>3, <2>4, ListLength
<1>11. Len(q) <= request.want
  BY <1>1, <1>4, <1>8, <1>9, <1>10 DEF room
<1>12. \A i \in 1..Len(q) : \/ i \in 1..Len(found) /\ q[i] = found[i]
                            \/ \E k \in 1..Len(f) : k = i - Len(found) /\ q[i] = f[k] /\ i > Len(found)
  <2> TAKE i \in 1..Len(q)
  <2>1. CASE i > Len(found) /\ i - Len(found) \in 1..Len(new) /\ q[i] = new[i - Len(found)]
    <3> DEFINE k == i - Len(found)
    <3>1. k \in 1..Len(new) /\ q[i] = new[k]
      BY <2>1
    <3> HIDE DEF k
    <3>2. k \in 1..Len(f) /\ q[i] = f[k]
      BY <1>8, <3>1
    <3> QED BY <2>1, <3>2 DEF k
  <2> QED BY <2>1, <1>9
<1>13. ASSUME NEW i \in 1..Len(q), NEW j \in 1..Len(q), i < j PROVE q[i].id # q[j].id
  <2>0. i \in Nat /\ j \in Nat
    BY <1>10
  <2>1. CASE i \in 1..Len(found) /\ q[i] = found[i]
    <3>1. CASE j \in 1..Len(found) /\ q[j] = found[j]
      <4>1. i # j
        BY <1>13, <2>0
      <4>2. found[i].id # found[j].id
        BY <1>2, <2>1, <3>1, <4>1 DEF Collected
      <4> QED BY <2>1, <3>1, <4>2
    <3>2. CASE \E k \in 1..Len(f) : k = j - Len(found) /\ q[j] = f[k] /\ j > Len(found)
      <4>1. PICK k \in 1..Len(f) : q[j] = f[k]
        BY <3>2
      <4>2. f[k].id # found[i].id
        BY <1>7, <2>1
      <4> QED BY <2>1, <4>1, <4>2
    <3> QED BY <1>12, <3>1, <3>2
  <2>2. CASE \E k \in 1..Len(f) : k = i - Len(found) /\ q[i] = f[k] /\ i > Len(found)
    <3>1. PICK k \in 1..Len(f) : k = i - Len(found) /\ q[i] = f[k] /\ i > Len(found)
      BY <2>2
    <3>2. ~(j \in 1..Len(found))
      BY <1>1, <1>13, <2>0, <3>1
    <3>3. PICK l \in 1..Len(f) : l = j - Len(found) /\ q[j] = f[l]
      BY <1>12, <3>2
    <3>4. k # l
      BY <1>1, <1>13, <2>0, <3>1, <3>3
    <3>5. f[k].id # f[l].id
      BY <1>7, <3>4
    <3> QED BY <3>1, <3>3, <3>5
  <2> QED BY <1>12, <2>1, <2>2
<1>14. \A i, j \in 1..Len(q) : i # j => q[i].id # q[j].id
  <2> SUFFICES ASSUME NEW i \in 1..Len(q), NEW j \in 1..Len(q), i # j PROVE q[i].id # q[j].id
    OBVIOUS
  <2>1. i < j \/ j < i
    BY <1>10
  <2> QED BY <1>13, <2>1
<1>15. ASSUME request.kind = "artist queue" PROVE \A i \in 1..Len(q) : q[i].by = 2
  <2>1. \A i \in 1..Len(found) : found[i].by = 2
    BY <1>2, <1>15 DEF Collected
  <2>2. \A k \in 1..Len(f) : f[k].by = 2
    BY <1>7, <1>15
  <2> QED BY <1>12, <2>1, <2>2
<1>16. Collected(q)
  BY <1>11, <1>14, <1>15 DEF Collected
<1>17. ASSUME songChanges = 0, request.kind = "artist queue", ~(Len(q) >= request.want),
              NEW i \in 1..Len(songCatalog), i <= off + PageSize, songCatalog[i].by = 2
       PROVE  \E k \in 1..Len(q) : q[k].id = songCatalog[i].id
  <2>0. i \in Nat /\ PageSize \in Nat
    BY <1>1, Offsets
  <2>1. Len(new) = Len(f)
    <3>1. Len(new) = IF Len(f) < room THEN Len(f) ELSE room
      BY <1>8
    <3>2. Len(q) = Len(found) + Len(new) /\ room = request.want - Len(found) /\ ~(Len(q) >= request.want)
      BY <1>9, <1>17 DEF room
    <3>3. Len(new) # room
      BY <3>2, <1>1, <1>4, <1>10
    <3> QED BY <3>1, <3>3
  <2>2. \A k \in 1..Len(found) : \E m \in 1..Len(q) : q[m] = found[k]
    BY <1>9
  <2>3. \A k \in 1..Len(f) : \E m \in 1..Len(q) : q[m] = f[k]
    <3> TAKE k \in 1..Len(f)
    <3>1. k \in 1..Len(new) /\ new[k] = f[k]
      BY <1>8, <2>1
    <3>2. q[Len(found) + k] = f[k] /\ Len(found) + k \in 1..Len(q)
      BY <1>9, <3>1
    <3> QED BY <3>2
  <2>4. CASE i <= off
    <3>1. ~(Len(found) >= request.want)
      BY <1>1, <1>3
    <3>2. \E k \in 1..Len(found) : found[k].id = songCatalog[i].id
      BY <1>2, <1>17, <2>4, <3>1 DEF Covers
    <3> QED BY <2>2, <3>2
  <2>5. CASE i > off
    <3> DEFINE k == i - off
    <3>a. /\ Len(b) = IF Len(songCatalog) - off < PageSize THEN Len(songCatalog) - off ELSE PageSize
          /\ i <= Len(songCatalog) /\ i <= off + PageSize
      <4>1. Len(b) = IF Len(songCatalog) - off < PageSize THEN Len(songCatalog) - off ELSE PageSize
        BY <1>5
      <4>2. i <= Len(songCatalog)
        BY <1>1
      <4> QED BY <4>1, <4>2, <1>17
    <3>1. k \in 1..Len(b) /\ off + k = i
      BY <3>a, <1>1, <1>10, <2>0, <2>5
    <3> HIDE DEF k
    <3>2. b[k] = songCatalog[i]
      BY <1>5, <3>1
    <3>3. \/ \E m \in 1..Len(f) : f[m].id = b[k].id
          \/ \E m \in 1..Len(found) : found[m].id = b[k].id
      BY <1>7, <1>17, <3>1, <3>2
    <3> QED BY <2>2, <2>3, <3>2, <3>3
  <2> QED BY <2>0, <2>4, <2>5
<1>18. Covers(q, off + PageSize)
  BY <1>17 DEF Covers
<1> QED BY <1>9, <1>16, <1>18 DEF q, new, room, f, b

\* What is delivered is the artist's.
Most == MaxPages * PageSize

\* It is a number.
LEMMA MostIsNumber == Most \in Nat
BY Offsets DEF Most

\* The pages are over: nothing comes after the first n, or no more is asked for.
PagesOver(s, n) ==
    request.kind = "artist queue" => n >= Len(songCatalog) \/ n >= Most \/ Len(s) >= request.want

\* So an answer that is delivered when the pages are over is as QueueIsTheArtists has it.
LEMMA DeliverRight ==
  ASSUME SearchTypes, NEW s \in Seq(Song), NEW n \in Nat, Search!Deliver(s), Covers(s, n), Collected(s),
         PagesOver(s, n),
         request' = request, songCatalog' = songCatalog, songChanges' = songChanges
  PROVE  Search!QueueIsTheArtists' /\ answer' # Search!Open
<1> DEFINE q == Search!Ranked(s)
<1>0. /\ request.ranked \in BOOLEAN /\ request.want \in Nat /\ songCatalog \in Seq(Song)
      /\ Len(songCatalog) \in Nat /\ Len(s) \in Nat
  <2>1. request.ranked \in BOOLEAN /\ request.want \in 1..3 /\ songCatalog \in Seq(Song)
    BY DEF SearchTypes
  <2>3. request.want \in Nat
    BY <2>1
  <2>4. Len(songCatalog) \in Nat
    BY <2>1, ListLength
  <2>5. Len(s) \in Nat
    BY ListLength
  <2> QED BY <2>1, <2>3, <2>4, <2>5
<1>1. /\ q \in Seq(Song) /\ Len(s) <= Len(q)
      /\ \A i \in 1..Len(q) : \E j \in 1..Len(s) : q[i] = s[j]
      /\ \A j \in 1..Len(s) : \E i \in 1..Len(q) : q[i] = s[j]
      /\ request.ranked => \A i, j \in 1..Len(q) : i < j => ~Search!FewerArtists(q[j], q[i])
  BY <1>0, RankedSongs
<1> HIDE DEF q
<1>2. answer' # Search!Open
  BY DEF Search!Deliver, Search!SongsAnswer, Search!Nothing, Search!Open
<1>3. SUFFICES ASSUME request.kind = "artist queue", answer'.is = "songs" PROVE Search!QueueIsTheArtists'
  BY <1>2 DEF Search!QueueIsTheArtists
<1>4. answer' = Search!SongsAnswer(q)
  BY <1>3 DEF Search!Deliver, Search!Nothing, q
<1>5. answer'.songs = q /\ DOMAIN q = 1..Len(q) /\ Len(q) \in Nat
  <2>1. answer'.songs = q
    BY <1>4 DEF Search!SongsAnswer
  <2>a. q \in Seq(Song)
    BY <1>1
  <2>2. DOMAIN q = 1..Len(q) /\ Len(q) \in Nat
    BY <2>a, ListLength
  <2> QED BY <2>1, <2>2
<1>6. \A i \in 1..Len(q) : q[i].by = 2
  <2>1. \A j \in 1..Len(s) : s[j].by = 2
    BY <1>3 DEF Collected
  <2> TAKE i \in 1..Len(q)
  <2>2. PICK j \in 1..Len(s) : q[i] = s[j]
    BY <1>1
  <2> QED BY <2>1, <2>2
<1> DEFINE most == Search!Upto(songCatalog, Most)
<1>7. /\ most \in Seq(Song)
      /\ Len(most) = IF Len(songCatalog) < Most THEN Len(songCatalog) ELSE Most
      /\ \A i \in 1..Len(most) : i \in 1..Len(songCatalog) /\ most[i] = songCatalog[i]
  BY <1>0, MostIsNumber, UptoSongs
<1>8. ASSUME songChanges = 0, Len(q) < request.want, NEW h \in Search!ToSet(most), h.by = 2
      PROVE  h.id \in Search!IdsOf(q)
  <2> HIDE DEF most
  <2>a. most \in Seq(Song)
    BY <1>7
  <2>b. DOMAIN most = 1..Len(most) /\ Len(most) \in Nat
    BY <2>a, ListLength
  <2>1. PICK i \in 1..Len(most) : h = most[i]
    BY <2>b DEF Search!ToSet
  <2>2. i \in 1..Len(songCatalog) /\ h = songCatalog[i] /\ i <= Most /\ i \in Nat
    <3>2. Most \in Nat /\ Len(most) = IF Len(songCatalog) < Most THEN Len(songCatalog) ELSE Most
      BY MostIsNumber, <1>7
    <3>3. i \in 1..Len(songCatalog) /\ h = songCatalog[i]
      BY <1>7, <2>1
    <3>4. i \in Nat
      BY <3>3
    <3>5. Len(most) \in Nat /\ i <= Len(most)
      BY <2>b, <2>1
    <3>6. i <= Most
      BY <1>0, <3>2, <3>4, <3>5
    <3> QED BY <3>3, <3>4, <3>6
  <2>3. ~(Len(s) >= request.want)
    <3>1. Len(s) <= Len(q) /\ Len(q) < request.want
      BY <1>1, <1>8
    <3>2. Len(s) \in Nat /\ Len(q) \in Nat /\ request.want \in Nat
      BY <1>0, <1>5
    <3> QED BY <3>1, <3>2
  <2>4. i <= n
    <3>1. n >= Len(songCatalog) \/ n >= Most
      BY <1>3, <2>3 DEF PagesOver
    <3>2. Most \in Nat /\ i <= Most /\ (n >= Len(songCatalog) \/ n >= Most)
      BY <2>2, <3>1, MostIsNumber
    <3>3. i \in Nat /\ i <= Len(songCatalog)
      BY <1>0, <2>2
    <3> QED BY <1>0, <3>2, <3>3
  <2>5. \E k \in 1..Len(s) : s[k].id = h.id
    BY <1>3, <1>8, <2>2, <2>3, <2>4 DEF Covers
  <2>6. \E k \in 1..Len(q) : q[k].id = h.id
    BY <1>1, <2>5
  <2> QED BY <1>5, <2>6 DEF Search!IdsOf
<1>9. Search!ToSet(Search!Upto(songCatalog', MaxPages * PageSize)) = Search!ToSet(most)
  BY Zenon DEF Most
<1> HIDE DEF most
<1>10. /\ \A i \in DOMAIN q : q[i].by = 2
       /\ songChanges' = 0 /\ Len(q) < request'.want =>
             \A h \in Search!ToSet(most) : h.by = 2 => h.id \in Search!IdsOf(q)
       /\ request'.ranked => \A i, j \in DOMAIN q : i < j => ~Search!FewerArtists(q[j], q[i])
  BY <1>1, <1>5, <1>6, <1>8
<1> QED BY <1>3, <1>5, <1>9, <1>10 DEF Search!QueueIsTheArtists

\* The invariant of the search holds at the start.
LEMMA SearchBegins == ASSUME Search!Init PROVE SearchInv
<1>0. searchPage = 0 /\ found = <<>> /\ answer = Search!Open /\ songChanges = 0
  BY DEF Search!Init
<1>1. PICK s \in Search!SeqOf(SongHits, MaxHits - MaxSongChanges) :
         songCatalog = [i \in DOMAIN s |-> [s[i] EXCEPT !.id = i]]
  BY DEF Search!Init
<1>2. PICK kind \in Search!Kinds, want \in 1..3, ranked \in BOOLEAN,
           known \in {<<>>, Search!Upto(Search!Reverse(songCatalog), 1)} :
         request = [kind |-> kind, want |-> want, ranked |-> ranked, index |-> known]
  BY Zenon DEF Search!Init
<1>3. PICK m \in 0..(MaxHits - MaxSongChanges) : s \in [1..m -> SongHits]
  BY DEF Search!SeqOf
<1>4. m \in Nat /\ m <= MaxHits /\ MaxHits \in Nat /\ MaxSongChanges \in Nat
  BY Offsets
<1>5. \A i \in 1..m : s[i] \in Song /\ [s[i] EXCEPT !.id = i] \in Song /\ [s[i] EXCEPT !.id = i].id = i
  <2>1. \A x \in Song, i \in Nat : [x EXCEPT !.id = i] \in Song /\ [x EXCEPT !.id = i].id = i
    BY DEF Song
  <2>2. SongHits \subseteq Song
    BY SongsAssumption DEF Song
  <2>3. \A i \in 1..m : s[i] \in Song /\ i \in Nat
    BY <1>3, <1>4, <2>2
  <2> QED BY <2>1, <2>3
<1>6. songCatalog = [i \in 1..m |-> [s[i] EXCEPT !.id = i]]
  BY <1>1, <1>3
<1>7. songCatalog \in Seq(Song) /\ Len(songCatalog) = m /\ \A i \in 1..m : songCatalog[i].id = i
  <2> DEFINE g == [i \in 1..m |-> [s[i] EXCEPT !.id = i]]
  <2>1. \A i \in 1..m : g[i] \in Song /\ g[i].id = i
    BY <1>5
  <2>2. DOMAIN g = 1..m /\ g = [i \in 1..m |-> g[i]]
    OBVIOUS
  <2> HIDE DEF g
  <2>3. g \in Seq(Song) /\ Len(g) = m
    BY <1>4, <2>1, <2>2
  <2>4. songCatalog = g
    BY <1>6 DEF g
  <2> QED BY <2>1, <2>3, <2>4
<1>8. NumbersRight
  BY <1>7 DEF NumbersRight
<1>9. known \in Seq(Song) /\ Len(known) <= 1
  <2> DEFINE r == Search!Reverse(songCatalog)
  <2>1. r \in Seq(Song)
    <3>1. r = [i \in 1..m |-> songCatalog[(m - i) + 1]]
      BY <1>7 DEF Search!Reverse
    <3>2. \A i \in 1..m : (m - i) + 1 \in 1..m
      BY <1>4
    <3>3. \A j \in 1..m : songCatalog[j] \in Song
      BY <1>7
    <3>4. \A i \in 1..m : songCatalog[(m - i) + 1] \in Song
      BY <3>2, <3>3
    <3> HIDE DEF r
    <3> QED BY <1>4, <3>1, <3>4
  <2> HIDE DEF r
  <2>2. \A n \in Nat : Search!Upto(r, n) \in Seq(Song) /\ Len(Search!Upto(r, n)) = IF Len(r) < n THEN Len(r) ELSE n
    BY <2>1, UptoSongs
  <2>3. Search!Upto(r, 1) \in Seq(Song) /\ Len(Search!Upto(r, 1)) <= 1
    BY <2>1, <2>2, ListLength
  <2>4. CASE known = <<>>
    BY <2>4
  <2>5. CASE known = Search!Upto(r, 1)
    BY <2>3, <2>5
  <2> QED BY <1>2, <2>4, <2>5 DEF r
<1>10. /\ request \in [kind : Search!Kinds, want : 1..3, ranked : BOOLEAN, index : Seq(Song)]
       /\ request.index = known /\ request.want \in 1..3
  BY <1>2, <1>9
<1>11. SearchTypes
  BY <1>0, <1>4, <1>7, <1>10 DEF SearchTypes
<1>12. Collected(found)
  BY <1>0, <1>10 DEF Collected
<1>13. PagesRight
  <2>1. 0 * PageSize = 0
    BY Offsets
  <2>2. searchPage * PageSize = 0
    BY <2>1, <1>0
  <2>3. \A i \in 1..Len(songCatalog) : ~(i <= 0)
    BY <1>4, <1>7
  <2>4. Covers(found, 0)
    BY <2>3 DEF Covers
  <2>5. searchPage * PageSize <= Len(songCatalog)
    BY <2>2, <1>4, <1>7
  <2> QED BY <1>9, <1>10, <1>12, <2>2, <2>4, <2>5 DEF PagesRight
<1>14. Search!QueueIsTheArtists
  BY <1>0 DEF Search!QueueIsTheArtists, Search!Open
<1> QED BY <1>8, <1>11, <1>13, <1>14 DEF SearchInv

\* It holds as long as none of the part's variables changes.
LEMMA SearchStays == ASSUME SearchInv, UNCHANGED songsVars PROVE SearchInv'
<1>1. /\ songCatalog' = songCatalog /\ request' = request /\ found' = found
      /\ searchPage' = searchPage /\ songChanges' = songChanges /\ answer' = answer
  BY DEF songsVars
<1> QED BY <1>1 DEF SearchInv, SearchTypes, NumbersRight, PagesRight, Collected, Covers,
     Search!QueueIsTheArtists

\* What an ended search leaves, whatever it answers.
LEMMA SearchOver ==
  ASSUME SearchInv, answer' # Search!Open, Search!QueueIsTheArtists',
         request' = request, songCatalog' = songCatalog, songChanges' = songChanges,
         found' \in Seq(Song), searchPage' \in 0..(MaxHits + 1),
         request.kind # "title" => Collected(found')
  PROVE  SearchInv'
<1>1. SearchTypes'
  BY DEF SearchInv, SearchTypes
<1>2. NumbersRight'
  BY DEF SearchInv, NumbersRight
<1>3. PagesRight'
  BY DEF SearchInv, PagesRight, Collected
<1> QED BY <1>1, <1>2, <1>3 DEF SearchInv

\* A page that is asked for keeps the invariant: it collects, and the last one delivers.
LEMMA SearchNextPage == ASSUME SearchInv, Search!NextPage PROVE SearchInv'
<1> DEFINE off == searchPage * PageSize
           b == Search!Batch
           new == Search!Upto(Search!Fresh(b), request.want - Len(found))
           q == found \o new
           last == Len(b) < PageSize \/ (request.kind = "cache" /\ new = <<>>)
<1>1. /\ answer = Search!Open /\ request.kind # "title" /\ ~Search!Enough
      /\ found' = q /\ searchPage' = searchPage + 1
      /\ IF last THEN Search!Deliver(q) ELSE answer' = answer
      /\ request' = request /\ songCatalog' = songCatalog /\ songChanges' = songChanges
  BY DEF Search!NextPage
<1>2. SearchTypes /\ searchPage \in Nat /\ searchPage \in 0..(MaxHits + 1) /\ songCatalog \in Seq(Song) /\ Len(songCatalog) <= MaxHits
  BY DEF SearchInv, SearchTypes
<1>3. off \in Nat /\ searchPage <= off /\ (searchPage + 1) * PageSize = off + PageSize
  BY <1>2, Offsets
<1>4. off <= Len(songCatalog)
  BY <1>1 DEF SearchInv, PagesRight
<1> HIDE DEF off
<1>5. q \in Seq(Song) /\ Collected(q) /\ Covers(q, off + PageSize)
  BY <1>1, <1>3, PageCollects DEF off
<1>6. Len(b) = IF Len(songCatalog) - off < PageSize THEN Len(songCatalog) - off ELSE PageSize
  BY <1>2, <1>3, <1>4, BatchSongs DEF off
<1>7. searchPage + 1 \in 0..(MaxHits + 1)
  BY <1>2, <1>3, <1>4, Offsets, ListLength
<1>8. PageSize \in Nat /\ PageSize > 0 /\ MaxHits \in Nat /\ Len(songCatalog) \in Nat /\ off + PageSize \in Nat
  BY <1>2, <1>3, Offsets, ListLength
<1> HIDE DEF q, new, b
<1>9. CASE last
  <2>1. Search!Deliver(q)
    BY <1>1, <1>9
  <2>2. PagesOver(q, off + PageSize)
    <3>1. request.kind = "artist queue" => Len(b) < PageSize
      BY <1>9
    <3>2. Len(b) < PageSize => off + PageSize >= Len(songCatalog)
      BY <1>3, <1>4, <1>6, <1>8
    <3> QED BY <3>1, <3>2 DEF PagesOver
  <2>3. Search!QueueIsTheArtists' /\ answer' # Search!Open
    BY <1>1, <1>2, <1>5, <1>8, <2>1, <2>2, DeliverRight
  <2>4. found' \in Seq(Song) /\ searchPage' \in 0..(MaxHits + 1) /\ Collected(found')
    BY <1>1, <1>5, <1>7
  <2> QED BY <1>1, <2>3, <2>4, SearchOver
<1>10. CASE ~last
  <2>0. answer' = answer /\ ~(Len(b) < PageSize)
    BY <1>1, <1>10
  <2>1. off + PageSize <= Len(songCatalog)
    BY <1>3, <1>4, <1>6, <1>8, <2>0
  <2>2. SearchTypes'
    BY <1>1, <1>2, <1>5, <1>7 DEF SearchTypes
  <2>3. NumbersRight'
    BY <1>1 DEF SearchInv, NumbersRight
  <2>4. Collected(found)' /\ Covers(q, off + PageSize)
    BY <1>1, <1>5 DEF Collected
  <2> DEFINE n == off + PageSize
  <2>5. searchPage' * PageSize = n
    BY <1>1, <1>3
  <2>a. Covers(q, n) /\ n <= Len(songCatalog) /\ found' = q
    BY <1>1, <2>1, <2>4
  <2> HIDE DEF n
  <2>6. searchPage' * PageSize <= Len(songCatalog') /\ Covers(found, searchPage * PageSize)'
    BY <1>1, <2>5, <2>a DEF Covers
  <2>7. PagesRight'
    <3>1. request.index' = request.index
      BY <1>1
    <3>2. Len(request.index) <= 1
      BY <1>1 DEF SearchInv, PagesRight
    <3>3. (searchPage * PageSize <= Len(songCatalog))'
      BY <2>6
    <3> QED BY <1>1, <2>4, <2>6, <3>1, <3>2, <3>3 DEF PagesRight
  <2>8. Search!QueueIsTheArtists'
    BY <1>1, <2>0 DEF Search!QueueIsTheArtists, Search!Open
  <2> QED BY <2>2, <2>3, <2>7, <2>8 DEF SearchInv
<1> QED BY <1>9, <1>10

\* So does the beginning with the songs of the index.
LEMMA SearchBeginPages == ASSUME SearchInv, Search!BeginPages PROVE SearchInv'
<1> DEFINE s == request.index
           P == {i \in DOMAIN s : s[i].by = 2}
           f == Search!Kept(s, P)
           q == Search!Upto(f, request.want)
<1>1. /\ searchPage = 0 /\ answer = Search!Open /\ request.kind # "title"
      /\ found' = q /\ request' = [request EXCEPT !.index = <<>>]
      /\ songCatalog' = songCatalog /\ searchPage' = searchPage /\ answer' = answer /\ songChanges' = songChanges
  BY DEF Search!BeginPages
<1>2. /\ request \in [kind : Search!Kinds, want : 1..3, ranked : BOOLEAN, index : Seq(Song)]
      /\ s \in Seq(Song) /\ request.want \in 1..3
  BY DEF SearchInv, SearchTypes
<1>a. request.want \in Nat
  BY <1>2
<1>3. Len(s) <= 1 /\ Len(s) \in Nat
  BY <1>1, <1>2, ListLength DEF SearchInv, PagesRight
<1>4. P \subseteq DOMAIN s /\ \A i \in P : s[i].by = 2
  OBVIOUS
<1>5. request' \in [kind : Search!Kinds, want : 1..3, ranked : BOOLEAN, index : Seq(Song)]
      /\ request'.want = request.want /\ request'.kind = request.kind /\ request'.index = <<>>
  <2> DEFINE R == [kind : Search!Kinds, want : 1..3, ranked : BOOLEAN, index : Seq(Song)]
  <2>1. \A e \in R, x \in Seq(Song) :
           LET d == [e EXCEPT !.index = x] IN d \in R /\ d.want = e.want /\ d.kind = e.kind /\ d.index = x
    OBVIOUS
  <2>2. request \in R /\ <<>> \in Seq(Song)
    BY <1>2
  <2> HIDE DEF R
  <2>3. LET d == [request EXCEPT !.index = <<>>]
        IN d \in R /\ d.want = request.want /\ d.kind = request.kind /\ d.index = <<>>
    BY <2>1, <2>2
  <2> QED BY <1>1, <2>3 DEF R
<1> HIDE DEF P, s
<1>6. /\ f \in Seq(Song) /\ Len(f) <= Len(s)
      /\ \A k \in 1..Len(f) : Search!Nth(P, k) \in P /\ f[k] = s[Search!Nth(P, k)]
  BY <1>2, <1>4, KeptSongs DEF s
<1> HIDE DEF f
<1>7. /\ q \in Seq(Song) /\ Len(q) = IF Len(f) < request.want THEN Len(f) ELSE request.want
      /\ \A i \in 1..Len(q) : i \in 1..Len(f) /\ q[i] = f[i]
  BY <1>6, <1>a, UptoSongs
<1> HIDE DEF q
<1>8. Len(f) \in Nat /\ Len(q) \in Nat
  BY <1>6, <1>7, ListLength
<1>9. Len(q) <= request.want /\ Len(q) <= 1
  <2>1. Len(q) <= request.want /\ Len(q) <= Len(f)
    BY <1>7, <1>8, <1>a
  <2> QED BY <2>1, <1>3, <1>6, <1>8
<1>10. \A i \in 1..Len(q) : q[i].by = 2
  <2> TAKE i \in 1..Len(q)
  <2>1. PICK j \in P : q[i] = s[j]
    BY <1>6, <1>7
  <2>2. s[j].by = 2
    BY <1>4 DEF s
  <2> QED BY <2>1, <2>2
<1>11. \A i, j \in 1..Len(q) : i # j => q[i].id # q[j].id
  BY <1>8, <1>9
<1>12. Collected(found)'
  BY <1>1, <1>5, <1>9, <1>10, <1>11 DEF Collected
<1>13. SearchTypes'
  BY <1>1, <1>5, <1>7 DEF SearchInv, SearchTypes
<1>14. NumbersRight'
  BY <1>1 DEF SearchInv, NumbersRight
<1>15. PagesRight'
  <2>1. 0 * PageSize = 0
    BY Offsets
  <2>2. searchPage' * PageSize = 0
    BY <2>1, <1>1
  <2>3. Len(songCatalog') \in Nat
    BY <1>1, ListLength DEF SearchInv, SearchTypes
  <2>a. searchPage' * PageSize <= Len(songCatalog')
    BY <2>2, <2>3
  <2>b. \A i \in 1..Len(songCatalog') : ~(i <= 0)
    BY <2>3
  <2>c. Covers(found, 0)'
    BY <2>b DEF Covers
  <2>4. searchPage' * PageSize <= Len(songCatalog') /\ Covers(found, searchPage * PageSize)'
    BY <2>2, <2>a, <2>c
  <2>5. Len(request'.index) <= 1
    BY <1>5
  <2>6. (searchPage * PageSize <= Len(songCatalog))'
    BY <2>4
  <2> QED BY <1>12, <2>4, <2>5, <2>6 DEF PagesRight
<1>16. Search!QueueIsTheArtists'
  BY <1>1 DEF Search!QueueIsTheArtists, Search!Open
<1> QED BY <1>13, <1>14, <1>15, <1>16 DEF SearchInv

\* So do the pages when they end.
LEMMA SearchPagesEnd == ASSUME SearchInv, Search!PagesEnd PROVE SearchInv'
<1> DEFINE off == searchPage * PageSize
<1>1. /\ answer = Search!Open /\ request.kind # "title" /\ Search!Enough /\ Search!Deliver(found)
      /\ request' = request /\ songCatalog' = songCatalog /\ songChanges' = songChanges
      /\ found' = found /\ searchPage' = searchPage
  BY DEF Search!PagesEnd
<1>2. SearchTypes /\ searchPage \in 0..(MaxHits + 1) /\ found \in Seq(Song)
  BY DEF SearchInv, SearchTypes
<1>3. searchPage \in Nat /\ off \in Nat
  BY <1>2, Offsets
<1>4. Collected(found) /\ Covers(found, off)
  BY <1>1 DEF SearchInv, PagesRight
<1>5. PagesOver(found, off)
  <2>1. CASE Len(found) >= request.want
    BY <2>1 DEF PagesOver
  <2>2. CASE searchPage = MaxPages
    <3>1. off = Most
      BY <2>2 DEF Most
    <3> HIDE DEF off
    <3>2. off >= Most
      BY <1>3, <3>1
    <3> QED BY <3>2 DEF PagesOver
  <2> QED BY <1>1, <2>1, <2>2 DEF Search!Enough
<1> HIDE DEF off
<1>6. Search!QueueIsTheArtists' /\ answer' # Search!Open
  BY <1>1, <1>2, <1>3, <1>4, <1>5, DeliverRight
<1> QED BY <1>1, <1>2, <1>4, <1>6, SearchOver

\* So does a song that comes in at NetEase meanwhile: every place shifts by one.
LEMMA SearchCatalogChanges == ASSUME SearchInv, Search!CatalogChanges PROVE SearchInv'
<1>1. PICK h \in SongHits : songCatalog' = <<[h EXCEPT !.id = Len(songCatalog) + 1]>> \o songCatalog
  BY DEF Search!CatalogChanges
<1>2. /\ songChanges < MaxSongChanges /\ answer = Search!Open /\ Len(songCatalog) < MaxHits
      /\ songChanges' = songChanges + 1
      /\ request' = request /\ searchPage' = searchPage /\ found' = found /\ answer' = answer
  BY DEF Search!CatalogChanges
<1>3. /\ songCatalog \in Seq(Song) /\ Len(songCatalog) \in Nat /\ songChanges \in 0..MaxSongChanges
      /\ searchPage \in 0..(MaxHits + 1)
  BY ListLength DEF SearchInv, SearchTypes
<1> DEFINE m == Len(songCatalog)
           k == m + 1
           x == [h EXCEPT !.id = k]
           new == <<x>>
           q == new \o songCatalog
<1>4. m \in Nat /\ k \in Nat /\ k = m + 1
  BY <1>3
<1>5. songCatalog' = q
  BY <1>1
<1> HIDE DEF k
<1>6. x \in Song /\ x.id = k
  <2>1. \A y \in Song, i \in Nat : [y EXCEPT !.id = i] \in Song /\ [y EXCEPT !.id = i].id = i
    BY DEF Song
  <2>2. h \in Song
    BY SongsAssumption DEF Song
  <2> QED BY <1>4, <2>1, <2>2
<1> HIDE DEF x
<1>7. new \in Seq(Song) /\ Len(new) = 1 /\ new[1] = x
  BY <1>6
<1> HIDE DEF new
<1>8. /\ q \in Seq(Song) /\ Len(q) = Len(new) + Len(songCatalog)
      /\ \A i \in 1..Len(q) : \/ i \in 1..Len(new) /\ q[i] = new[i]
                              \/ i > Len(new) /\ i - Len(new) \in 1..Len(songCatalog) /\ q[i] = songCatalog[i - Len(new)]
  BY <1>3, <1>7, SongsJoined
<1> HIDE DEF q
<1>9. Len(q) = k
  BY <1>4, <1>7, <1>8
<1>10. \A i \in 1..k : \/ i = 1 /\ q[i] = x
                       \/ i > 1 /\ \E j \in 1..m : j = i - 1 /\ q[i] = songCatalog[j]
  <2> TAKE i \in 1..k
  <2>1. CASE i \in 1..Len(new) /\ q[i] = new[i]
    <3>1. i = 1
      BY <2>1, <1>7
    <3> QED BY <3>1, <2>1, <1>7
  <2>2. CASE i > Len(new) /\ i - Len(new) \in 1..Len(songCatalog) /\ q[i] = songCatalog[i - Len(new)]
    <3> DEFINE j == i - 1
    <3>1. i > 1 /\ j \in 1..m /\ q[i] = songCatalog[j]
      BY <2>2, <1>7
    <3> QED BY <3>1
  <2> QED BY <1>8, <1>9, <2>1, <2>2
<1>11. NumbersRight
  BY DEF SearchInv
<1>12. \A i \in 1..k : q[i].id \in 1..k
  <2> TAKE i \in 1..k
  <2>1. CASE i = 1 /\ q[i] = x
    BY <2>1, <1>4, <1>6
  <2>2. CASE i > 1 /\ \E j \in 1..m : j = i - 1 /\ q[i] = songCatalog[j]
    <3>1. PICK j \in 1..m : q[i] = songCatalog[j]
      BY <2>2
    <3>2. songCatalog[j].id \in 1..m
      BY <1>11 DEF NumbersRight
    <3>3. 1..m \subseteq 1..k
      BY <1>4
    <3> QED BY <3>1, <3>2, <3>3
  <2> QED BY <1>10, <2>1, <2>2
<1>13. ASSUME NEW i \in 1..k, NEW j \in 1..k, i < j PROVE q[i].id # q[j].id
  <2>0. i \in Nat /\ j \in Nat /\ j > 1 /\ i >= 1
    BY <1>4, <1>13
  <2>1. PICK b \in 1..m : b = j - 1 /\ q[j] = songCatalog[b]
    BY <1>10, <2>0
  <2>2. songCatalog[b].id \in 1..m
    BY <1>11 DEF NumbersRight
  <2>3. CASE i = 1 /\ q[i] = x
    <3>1. k \notin 1..m
      BY <1>4
    <3> QED BY <2>1, <2>2, <2>3, <3>1, <1>6
  <2>4. CASE i > 1 /\ \E a \in 1..m : a = i - 1 /\ q[i] = songCatalog[a]
    <3>1. PICK a \in 1..m : a = i - 1 /\ q[i] = songCatalog[a]
      BY <2>4
    <3>2. a # b
      BY <2>0, <2>1, <3>1, <1>13
    <3>3. songCatalog[a].id # songCatalog[b].id
      BY <1>11, <3>2 DEF NumbersRight
    <3> QED BY <2>1, <3>1, <3>3
  <2> QED BY <1>10, <2>3, <2>4
<1>14. \A i, j \in 1..k : i # j => q[i].id # q[j].id
  <2> SUFFICES ASSUME NEW i \in 1..k, NEW j \in 1..k, i # j PROVE q[i].id # q[j].id
    OBVIOUS
  <2>1. i < j \/ j < i
    BY <1>4
  <2> QED BY <1>13, <2>1
<1>15. NumbersRight'
  BY <1>5, <1>9, <1>12, <1>14 DEF NumbersRight
<1>16. songChanges' \in 0..MaxSongChanges /\ songChanges' # 0
  BY <1>2, <1>3, Offsets
<1>17. SearchTypes'
  <2>1. k <= MaxHits
    BY <1>2, <1>4, Offsets
  <2> QED BY <1>2, <1>5, <1>8, <1>9, <1>16, <2>1 DEF SearchInv, SearchTypes
<1>18. PagesRight'
  <2> SUFFICES ASSUME request.kind # "title" PROVE PagesRight'
    BY <1>2 DEF PagesRight
  <2> DEFINE off == searchPage * PageSize
  <2>1. Collected(found) /\ Len(request.index) <= 1 /\ off <= m
    BY <1>2 DEF SearchInv, PagesRight
  <2>2. off \in Nat
    BY <1>3, Offsets
  <2>3. searchPage' * PageSize = off
    BY <1>2
  <2> HIDE DEF off
  <2>4. off <= Len(songCatalog')
    BY <1>4, <1>5, <1>9, <2>1, <2>2
  <2>5. (searchPage * PageSize <= Len(songCatalog))'
    BY <2>3, <2>4
  <2>6. Covers(found, searchPage * PageSize)'
    BY <1>16 DEF Covers
  <2>7. Collected(found)' /\ Len(request'.index) <= 1
    BY <1>2, <2>1 DEF Collected
  <2> QED BY <2>5, <2>6, <2>7 DEF PagesRight
<1>19. Search!QueueIsTheArtists'
  BY <1>2 DEF Search!QueueIsTheArtists, Search!Open
<1> QED BY <1>15, <1>17, <1>18, <1>19 DEF SearchInv

\* Every step of the part keeps it.
LEMMA SearchStep == ASSUME SearchInv, Search!Next PROVE SearchInv'
<1>1. SearchTypes /\ (request.kind # "title" => Collected(found))
  BY DEF SearchInv, PagesRight
<1>2. found \in Seq(Song) /\ searchPage \in 0..(MaxHits + 1)
  BY <1>1 DEF SearchTypes
<1>3. CASE Search!SearchFails
  <2>1. /\ answer' = Search!Nothing /\ request' = request /\ songCatalog' = songCatalog
        /\ songChanges' = songChanges /\ found' = found /\ searchPage' = searchPage
    BY <1>3 DEF Search!SearchFails
  <2>2. answer' # Search!Open /\ Search!QueueIsTheArtists'
    BY <2>1 DEF Search!Open, Search!Nothing, Search!QueueIsTheArtists
  <2> QED BY <1>1, <1>2, <2>1, <2>2, SearchOver
<1>4. CASE Search!ChooseTitle
  <2>1. /\ request.kind = "title" /\ request' = request /\ songCatalog' = songCatalog
        /\ songChanges' = songChanges /\ found' = found /\ searchPage' = searchPage
    BY <1>4 DEF Search!ChooseTitle
  <2>2. Search!QueueIsTheArtists'
    BY <2>1 DEF Search!QueueIsTheArtists
  <2>3. SearchTypes' /\ NumbersRight' /\ PagesRight'
    BY <2>1 DEF SearchInv, SearchTypes, NumbersRight, PagesRight
  <2> QED BY <2>2, <2>3 DEF SearchInv
<1> QED BY <1>3, <1>4, SearchBeginPages, SearchNextPage, SearchPagesEnd, SearchCatalogChanges
     DEF Search!Next

\* It implies the types and the properties of the search.
LEMMA SearchSafe ==
  ASSUME SearchInv PROVE Search!TypeOK /\ Search!NoSongTwice /\ Search!QueueIsTheArtists
<1>1. Search!TypeOK
  <2>1. searchPage \in 0..(MaxHits + 1) /\ songChanges \in 0..MaxSongChanges /\ request.kind \in Search!Kinds
    BY DEF SearchInv, SearchTypes
  <2> QED BY <2>1 DEF Search!TypeOK
<1>2. Search!NoSongTwice
  <2>1. DOMAIN found = 1..Len(found)
    BY DEF SearchInv, SearchTypes
  <2> QED BY <2>1 DEF SearchInv, PagesRight, Collected, Search!NoSongTwice
<1> QED BY <1>1, <1>2 DEF SearchInv

-----------------------------------------------------------------------------
(* Live video.                                                             *)

SessionState == {"unused", "listening", "streaming", "stopping", "idle", "gone", "error"}

\* The places of the replays: each its own, none above the number of replays.
Placed(a) == {i \in Streams : a[i] > 0}
Ranks(a) ==
    /\ a \in [Streams -> Nat]
    /\ \A i, j \in Placed(a) : a[i] = a[j] => i = j
    /\ \A i \in Streams : a[i] <= Cardinality(Placed(a))

\* A push that is under way will arm one timer more.
TimersFew(i) ==
    /\ armed[i] + lateTimers[i] <= pushes
    /\ i \in Video!Live => armed[i] + lateTimers[i] < pushes

VideoTypes ==
    /\ session \in [Streams -> SessionState] /\ standing \in larix /\ larix \subseteq Streams
    /\ armed \in [Streams -> Nat] /\ lateTimers \in [Streams -> Nat] /\ pushes \in Nat
    /\ playlist \subseteq folder /\ folder \subseteq dumps /\ dumps \subseteq Streams

VideoInv == VideoTypes /\ Ranks(archive) /\ (\A i \in Streams : TimersFew(i)) /\ Video!NoOrphanFiles

\* The streams can be counted.
LEMMA StreamsCount == ASSUME NEW S, S \subseteq Streams PROVE Counts(Streams, S)
BY VideoAssumption, CountIn

\* Before the first replay there is none.
LEMMA NoReplays ==
  /\ Ranks([i \in Streams |-> 0]) /\ Placed([i \in Streams |-> 0]) = {}
<1>1. Placed([i \in Streams |-> 0]) = {}
  BY DEF Placed
<1>2. Cardinality({}) = 0
  BY FS_EmptySet
<1> QED BY <1>1, <1>2 DEF Ranks

\* Replays counted anew keep their order.
LEMMA VideoRenumbered ==
  ASSUME Ranks(archive), NEW gone, gone \subseteq Streams
  PROVE  /\ Ranks(Video!Renumbered(gone)) /\ Placed(Video!Renumbered(gone)) = Video!Archived \ gone
<1> DEFINE kept == Video!Archived \ gone
           below(j) == {k \in kept : archive[k] <= archive[j]}
           r == Video!Renumbered(gone)
<1>1. archive \in [Streams -> Nat] /\ \A i, j \in Video!Archived : archive[i] = archive[j] => i = j
  BY DEF Ranks, Placed, Video!Archived
<1>2. kept \subseteq Streams /\ \A j \in Streams : j \in kept <=> archive[j] > 0 /\ j \notin gone
  BY DEF Video!Archived
<1>3. \A S : Video!Cardinality(S) = Cardinality(S)
  BY DEF Video!Cardinality, Cardinality
<1>4. \A j \in Streams : r[j] = IF j \in kept THEN Cardinality(below(j)) ELSE 0
  BY <1>1, <1>2, <1>3 DEF Video!Renumbered
<1>5. \A j \in Streams : below(j) \subseteq kept /\ below(j) \subseteq Streams
  BY <1>2
<1>6. DOMAIN r = Streams /\ r = [j \in Streams |-> r[j]]
  BY DEF Video!Renumbered
<1>7. \A j \in kept : j \in below(j)
  BY <1>1, <1>2
<1>8. ASSUME NEW j \in Streams, NEW k \in kept, j \in kept, archive[j] < archive[k]
      PROVE  below(j) \subseteq below(k) \ {k}
  BY <1>1, <1>2, <1>8
<1> HIDE DEF below, r
<1>9. \A j \in Streams : Cardinality(below(j)) \in Nat /\ Cardinality(below(j)) <= Cardinality(kept)
  <2>1. Counts(Streams, kept)
    BY <1>2, StreamsCount
  <2> TAKE j \in Streams
  <2>2. Counts(Streams, below(j))
    BY <1>5, StreamsCount
  <2> HIDE DEF kept
  <2> QED BY <1>5, <2>1, <2>2 DEF Counts
<1>10. \A j \in kept : Cardinality(below(j)) > 0
  <2> SUFFICES ASSUME NEW j \in kept PROVE Cardinality(below(j)) > 0
    OBVIOUS
  <2>1. Counts(Streams, below(j)) /\ j \in below(j) /\ j \in Streams
    BY <1>2, <1>5, <1>7, StreamsCount
  <2>2. Counts(Streams, below(j) \ {j})
    BY <1>2, <1>5, StreamsCount
  <2>3. Cardinality(below(j) \ {j}) = Cardinality(below(j)) - 1
    BY <2>1 DEF Counts
  <2> QED BY <2>1, <2>2, <2>3 DEF Counts
<1>11. ASSUME NEW j \in kept, NEW k \in kept, archive[j] < archive[k]
       PROVE  Cardinality(below(j)) < Cardinality(below(k))
  <2>1. Counts(Streams, below(k)) /\ k \in below(k) /\ k \in Streams /\ j \in Streams
    BY <1>2, <1>5, <1>7, StreamsCount
  <2>2. Counts(Streams, below(k) \ {k})
    BY <1>2, <1>5, StreamsCount
  <2>3. below(j) \in SUBSET (below(k) \ {k})
    BY <1>8, <1>11, <2>1
  <2>4. Cardinality(below(k) \ {k}) = Cardinality(below(k)) - 1
    BY <2>1 DEF Counts
  <2>5. Cardinality(below(j)) <= Cardinality(below(k) \ {k})
    BY <2>2, <2>3 DEF Counts
  <2> QED BY <1>9, <2>1, <2>4, <2>5
<1>12. r \in [Streams -> Nat]
  BY <1>4, <1>6, <1>9
<1>13. Placed(r) = kept
  BY <1>2, <1>4, <1>10 DEF Placed
<1>14. \A j, k \in kept : r[j] = r[k] => j = k
  <2> SUFFICES ASSUME NEW j \in kept, NEW k \in kept, r[j] = r[k], j # k PROVE FALSE
    OBVIOUS
  <2>1. j \in Streams /\ k \in Streams /\ j \in Video!Archived /\ k \in Video!Archived
    BY <1>2
  <2>2. archive[j] < archive[k] \/ archive[k] < archive[j]
    BY <1>1, <2>1
  <2>3. Cardinality(below(j)) = Cardinality(below(k))
    BY <1>4, <2>1
  <2> QED BY <1>9, <1>11, <2>1, <2>2, <2>3
<1>15. \A j \in Streams : r[j] <= Cardinality(kept)
  <2>1. Cardinality(kept) \in Nat
    BY <1>2, StreamsCount DEF Counts
  <2> HIDE DEF kept
  <2> QED BY <1>4, <1>9, <2>1
<1> QED BY <1>12, <1>13, <1>14, <1>15 DEF Ranks, r

\* A replay at the end of the others.
LEMMA VideoAppended ==
  ASSUME NEW a, Ranks(a), NEW i \in Streams, i \notin Placed(a)
  PROVE  LET b == [a EXCEPT ![i] = Cardinality(Placed(a)) + 1]
         IN  Ranks(b) /\ Placed(b) = Placed(a) \union {i}
<1> DEFINE n == Cardinality(Placed(a))
           b == [a EXCEPT ![i] = n + 1]
<1>1. Placed(a) \subseteq Streams
  BY DEF Placed
<1>2. Counts(Streams, Placed(a))
  BY <1>1, StreamsCount
<1>3. n \in Nat /\ Cardinality(Placed(a) \union {i}) = n + 1
  BY <1>2 DEF Counts
<1>4. a \in [Streams -> Nat] /\ (\A j \in Streams : a[j] <= n) /\ \A j, k \in Placed(a) : a[j] = a[k] => j = k
  BY DEF Ranks
<1> HIDE DEF n
<1>5. b \in [Streams -> Nat] /\ b[i] = n + 1 /\ \A j \in Streams \ {i} : b[j] = a[j]
  BY <1>3, <1>4
<1> HIDE DEF b
<1>6. Placed(b) = Placed(a) \union {i}
  BY <1>3, <1>5 DEF Placed
<1>7. \A j, k \in Placed(b) : b[j] = b[k] => j = k
  <2> SUFFICES ASSUME NEW j \in Placed(b), NEW k \in Placed(b), b[j] = b[k] PROVE j = k
    OBVIOUS
  <2>1. j \in Streams /\ k \in Streams
    BY <1>1, <1>6
  <2> DEFINE early(l) == b[l] \in Nat /\ b[l] <= n
  <2>5. \A l \in Streams \ {i} : early(l)
    BY <1>4, <1>5
  <2>6. ~early(i)
    BY <1>3, <1>5
  <2> HIDE DEF early
  <2>2. CASE j = i /\ k # i
    BY <2>1, <2>2, <2>5, <2>6 DEF early
  <2>3. CASE j # i /\ k = i
    BY <2>1, <2>3, <2>5, <2>6 DEF early
  <2>4. CASE j # i /\ k # i
    BY <1>4, <1>5, <1>6, <2>1, <2>4
  <2> QED BY <2>2, <2>3, <2>4
<1>8. \A j \in Streams : b[j] <= n + 1
  BY <1>3, <1>4, <1>5
<1> QED BY <1>3, <1>5, <1>6, <1>7, <1>8 DEF Ranks, b, n

\* The first replay goes, the others move up.
LEMMA VideoShifted ==
  ASSUME NEW a, Ranks(a)
  PROVE  LET old == {j \in Streams : a[j] = 1}
             b   == [j \in Streams |-> IF j \in old THEN 0 ELSE IF a[j] > 0 THEN a[j] - 1 ELSE a[j]]
         IN  Ranks(b) /\ Placed(b) = Placed(a) \ old
<1> DEFINE n == Cardinality(Placed(a))
           old == {j \in Streams : a[j] = 1}
           b == [j \in Streams |-> IF j \in old THEN 0 ELSE IF a[j] > 0 THEN a[j] - 1 ELSE a[j]]
<1>1. Placed(a) \subseteq Streams /\ Placed(a) \ old \subseteq Streams
  BY DEF Placed
<1>2. a \in [Streams -> Nat] /\ (\A j \in Streams : a[j] <= n) /\ \A j, k \in Placed(a) : a[j] = a[k] => j = k
  BY DEF Ranks
<1>3. Counts(Streams, Placed(a)) /\ Counts(Streams, Placed(a) \ old)
  BY <1>1, StreamsCount
<1>4. n \in Nat /\ Cardinality(Placed(a) \ old) \in Nat
  BY <1>3 DEF Counts
<1>5. n - 1 <= Cardinality(Placed(a) \ old)
  <2>1. CASE old = {}
    BY <1>4, <2>1
  <2>2. CASE old # {}
    <3>1. PICK x \in Streams : a[x] = 1
      BY <2>2
    <3>2. \A j \in Streams : a[j] = 1 => j = x
      BY <1>2, <3>1 DEF Placed
    <3>3. old = {x} /\ x \in Placed(a)
      BY <3>1, <3>2 DEF Placed
    <3>4. Cardinality(Placed(a) \ {x}) = n - 1
      BY <1>3, <3>3 DEF Counts
    <3> QED BY <1>4, <3>3, <3>4
  <2> QED BY <2>1, <2>2
<1>6. \A j \in Streams : b[j] \in Nat /\ (b[j] > 0 <=> j \in Placed(a) \ old) /\ (a[j] > 0 => b[j] = a[j] - 1)
                          /\ (a[j] = 0 => b[j] = 0)
  BY <1>2 DEF Placed
<1>7. b \in [Streams -> Nat]
  BY <1>6
<1> HIDE DEF b
<1>8. Placed(b) = Placed(a) \ old
  BY <1>1, <1>6 DEF Placed
<1>9. \A j, k \in Placed(b) : b[j] = b[k] => j = k
  <2> SUFFICES ASSUME NEW j \in Placed(b), NEW k \in Placed(b), b[j] = b[k] PROVE j = k
    OBVIOUS
  <2>1. j \in Placed(a) /\ k \in Placed(a) /\ j \in Streams /\ k \in Streams /\ a[j] > 0 /\ a[k] > 0
    BY <1>1, <1>8 DEF Placed
  <2>2. a[j] = a[k]
    BY <1>2, <1>6, <2>1
  <2> QED BY <1>2, <2>1, <2>2
<1>10. \A j \in Streams : b[j] <= Cardinality(Placed(a) \ old)
  <2> HIDE DEF n, old
  <2> TAKE j \in Streams
  <2>1. CASE a[j] = 0
    BY <1>4, <1>6, <2>1
  <2>2. CASE a[j] > 0
    <3>1. b[j] = a[j] - 1 /\ a[j] <= n /\ a[j] \in Nat
      BY <1>2, <1>6, <2>2
    <3> QED BY <1>4, <1>5, <3>1
  <2> QED BY <1>2, <2>1, <2>2
<1> QED BY <1>7, <1>8, <1>9, <1>10 DEF Ranks, b

\* A push that ends: its replay is listed, unless it is the one that is too many.
LEMMA VideoPruned ==
  ASSUME Ranks(archive), NEW i \in Streams, Video!Pruned(i)
  PROVE  Ranks(archive') /\ folder' \ (Video!Archived \union {i}) \subseteq folder \ (Video!Archived \union {i})
         /\ folder' \intersect (Video!Archived \union {i}) \subseteq Placed(archive')
         /\ folder' \subseteq folder /\ (playlist \subseteq folder => playlist' \subseteq folder')
<1> DEFINE kept == [Video!Renumbered({i}) EXCEPT ![i] = Video!Cardinality(Video!Archived \ {i}) + 1]
           many == MaxSessions > 0 /\ Video!Cardinality(Video!Archived \union {i}) > MaxSessions
           first == {j \in Streams : kept[j] = 1}
           old  == IF many THEN first ELSE {}
<1>1. /\ archive' = [j \in Streams |-> IF j \in old THEN 0
                                      ELSE IF many /\ kept[j] > 0 THEN kept[j] - 1 ELSE kept[j]]
      /\ folder' = folder \ old /\ playlist' = playlist \ old
  BY DEF Video!Pruned
<1>2. Ranks(Video!Renumbered({i})) /\ Placed(Video!Renumbered({i})) = Video!Archived \ {i}
  BY VideoRenumbered
<1>3. kept = [Video!Renumbered({i}) EXCEPT ![i] = Cardinality(Placed(Video!Renumbered({i}))) + 1]
  <2>1. Video!Cardinality(Video!Archived \ {i}) = Cardinality(Video!Archived \ {i})
    BY DEF Video!Cardinality, Cardinality
  <2> QED BY <1>2, <2>1
<1>4. Ranks(kept) /\ Placed(kept) = Video!Archived \union {i}
  <2>1. i \notin Placed(Video!Renumbered({i}))
    BY <1>2
  <2>2. LET b == [Video!Renumbered({i}) EXCEPT ![i] = Cardinality(Placed(Video!Renumbered({i}))) + 1]
        IN  Ranks(b) /\ Placed(b) = Placed(Video!Renumbered({i})) \union {i}
    BY <1>2, <2>1, VideoAppended
  <2> HIDE DEF kept
  <2> QED BY <1>2, <1>3, <2>2
<1> HIDE DEF kept, many
<1>5. kept \in [Streams -> Nat]
  BY <1>4 DEF Ranks
<1>6. CASE many
  <2>1. archive' = [j \in Streams |-> IF j \in first THEN 0 ELSE IF kept[j] > 0 THEN kept[j] - 1 ELSE kept[j]]
    BY <1>1, <1>6
  <2>2. Ranks(archive') /\ Placed(archive') = Placed(kept) \ first
    BY <1>4, <2>1, VideoShifted
  <2>3. folder' = folder \ first /\ playlist' = playlist \ first
    BY <1>1, <1>6
  <2> HIDE DEF first
  <2> QED BY <1>4, <2>2, <2>3
<1>7. CASE ~many
  <2>1. archive' = kept /\ folder' = folder /\ playlist' = playlist
    BY <1>1, <1>5, <1>7
  <2> QED BY <1>4, <2>1
<1> QED BY <1>6, <1>7

\* The invariant of the live streams holds at the start.
LEMMA VideoBegins == Video!Init => VideoInv
<1> SUFFICES ASSUME Video!Init PROVE VideoInv
  OBVIOUS
<1>1. /\ session = [i \in Streams |-> IF i = 1 THEN "listening" ELSE "unused"]
      /\ standing = 1 /\ larix = {1} /\ folder = {} /\ playlist = {} /\ dumps = {} /\ pushes = 0
      /\ archive = [i \in Streams |-> 0] /\ armed = [i \in Streams |-> 0]
      /\ lateTimers = [i \in Streams |-> 0]
  BY DEF Video!Init
<1>2. VideoTypes
  BY <1>1, VideoAssumption DEF VideoTypes, SessionState
<1>3. \A i \in Streams : TimersFew(i)
  BY <1>1 DEF TimersFew, Video!Live
<1>4. Video!NoOrphanFiles
  BY <1>1 DEF Video!NoOrphanFiles
<1> QED BY <1>1, <1>2, <1>3, <1>4, NoReplays DEF VideoInv

\* It holds as long as none of the part's variables changes.
LEMMA VideoStays == VideoInv /\ UNCHANGED videoVars => VideoInv'
BY DEF VideoInv, videoVars, VideoTypes, Ranks, Placed, TimersFew, Video!NoOrphanFiles,
       Video!Live, Video!Archived

\* Every step of the part keeps it.
LEMMA VideoStep == VideoInv /\ Video!Next => VideoInv'
<1> SUFFICES ASSUME VideoInv, Video!Next PROVE VideoInv'
  OBVIOUS
<1> DEFINE few(a, l, live, n) == \A i \in Streams : a[i] + l[i] <= n /\ (i \in live => a[i] + l[i] < n)
<1>1. /\ session \in [Streams -> SessionState] /\ standing \in larix /\ larix \subseteq Streams
      /\ armed \in [Streams -> Nat] /\ lateTimers \in [Streams -> Nat] /\ pushes \in Nat
  BY DEF VideoInv, VideoTypes
<1>2. Ranks(archive) /\ archive \in [Streams -> Nat]
  BY DEF VideoInv, Ranks
<1>3. few(armed, lateTimers, Video!Live, pushes)
  BY DEF VideoInv, TimersFew
<1>4. /\ folder \subseteq Video!Live \union Video!Archived \union removing \union left \union bare
      /\ playlist \subseteq folder /\ folder \subseteq dumps /\ dumps \subseteq Streams
  BY DEF VideoInv, VideoTypes, Video!NoOrphanFiles
<1>5. Video!Archived = Placed(archive) /\ Video!Archived' = Placed(archive')
  BY DEF Video!Archived, Placed
\* The invariant, part by part.
<1>6. ASSUME session' \in [Streams -> SessionState], standing' \in larix', larix' \subseteq Streams,
             armed' \in [Streams -> Nat], lateTimers' \in [Streams -> Nat], pushes' \in Nat,
             Ranks(archive'), few(armed', lateTimers', Video!Live', pushes'),
             folder' \subseteq Video!Live' \union Placed(archive') \union removing' \union left' \union bare',
             playlist' \subseteq folder', folder' \subseteq dumps', dumps' \subseteq Streams
      PROVE  VideoInv'
  <2>1. VideoTypes'
    BY <1>6 DEF VideoTypes
  <2>2. Ranks(archive)'
    BY <1>6 DEF Ranks, Placed
  <2>3. (\A i \in Streams : TimersFew(i))'
    BY <1>6 DEF TimersFew
  <2>4. Video!NoOrphanFiles'
    BY <1>5, <1>6 DEF Video!NoOrphanFiles
  <2> QED BY <2>1, <2>2, <2>3, <2>4 DEF VideoInv
<1>7. ASSUME Video!Unused # {} PROVE Video!NewId \in Video!Unused
  <2>1. Video!Unused \subseteq Nat
    BY VideoAssumption DEF Video!Unused
  <2>2. \E i \in Video!Unused : \A j \in Video!Unused : i <= j
    BY <1>7, <2>1, LeastNat
  <2> QED BY <2>2 DEF Video!NewId
\* A step of the sessions that begins and ends no push.
<1>8. ASSUME session' \in [Streams -> SessionState], Video!Live' = Video!Live,
             standing' \in larix', larix' \subseteq Streams,
             UNCHANGED <<folder, playlist, dumps, archive, armed, lateTimers, removing, left, bare, pushes>>
      PROVE  VideoInv'
  BY <1>1, <1>2, <1>3, <1>4, <1>5, <1>6, <1>8
<1>9. CASE Video!Prepare
  <2>1. /\ Video!NewId \in Streams /\ session[Video!NewId] = "unused"
        /\ session' = [session EXCEPT ![Video!NewId] = "listening"]
        /\ UNCHANGED <<standing, larix, folder, playlist, dumps, archive, armed, lateTimers, removing,
                       left, bare, pushes>>
    BY <1>7, <1>9 DEF Video!Prepare, Video!Unused, Video!replayVars
  <2>2. session' \in [Streams -> SessionState] /\ Video!Live' = Video!Live
    BY <1>1, <2>1 DEF Video!Live, SessionState
  <2> QED BY <1>1, <1>8, <2>1, <2>2
<1>10. ASSUME NEW i \in Streams, Video!StopConsole(i) PROVE VideoInv'
  <2>1. /\ session[i] \in {"listening", "streaming", "idle"}
        /\ session' = [session EXCEPT ![i] = Video!Stopped(i)]
        /\ UNCHANGED <<standing, larix, folder, playlist, dumps, archive, armed, lateTimers, removing,
                       left, bare, pushes>>
    BY <1>10 DEF Video!StopConsole, Video!replayVars
  <2>2. session' \in [Streams -> SessionState] /\ Video!Live' = Video!Live
    BY <1>1, <2>1 DEF Video!Live, SessionState, Video!Stopped
  <2> QED BY <1>1, <1>8, <2>1, <2>2
<1>11. ASSUME NEW h \in Handlers, Video!StopRead(h) PROVE VideoInv'
  BY <1>1, <1>8, <1>11 DEF Video!StopRead, Video!replayVars, Video!Live
<1>12. ASSUME NEW h \in Handlers, Video!StopLarix(h) PROVE VideoInv'
  <2> DEFINE i == stopper[h]
             ends == IF session[i] = "error" THEN session[i] ELSE Video!Stopped(i)
             new == IF \E j \in larix \ {i} : session[j] \in {"listening", "streaming"}
                    THEN "error" ELSE "listening"
  <2>1. /\ Video!NewId \in Streams /\ session[Video!NewId] = "unused"
        /\ session' = [session EXCEPT ![i] = ends, ![Video!NewId] = new]
        /\ standing' = Video!NewId /\ larix' = larix \union {Video!NewId}
        /\ UNCHANGED <<folder, playlist, dumps, archive, armed, lateTimers, removing, left, bare, pushes>>
    BY <1>7, <1>12 DEF Video!StopLarix, Video!Unused, Video!replayVars
  <2>2. new \in {"error", "listening"}
    OBVIOUS
  <2>3. ends \in {"error", "stopping", "gone"} /\ (i \in Streams => (ends = "stopping" <=> i \in Video!Live))
    BY DEF Video!Stopped, Video!Live
  <2> HIDE DEF new, ends, i
  <2>4. session' \in [Streams -> SessionState]
    BY <1>1, <2>1, <2>2, <2>3 DEF SessionState
  <2>5. \A j \in Streams : session'[j] = IF j = Video!NewId THEN new ELSE IF j = i THEN ends ELSE session[j]
    BY <1>1, <2>1
  <2>6. Video!Live' = Video!Live
    BY <2>1, <2>2, <2>3, <2>5 DEF Video!Live
  <2> QED BY <1>1, <1>8, <2>1, <2>4, <2>6
<1>13. ASSUME NEW i \in Streams, Video!PushStarts(i) PROVE VideoInv'
  <2>1. /\ session[i] = "listening" /\ pushes' = pushes + 1
        /\ session' = [session EXCEPT ![i] = "streaming"]
        /\ folder' \in {folder \ {i}, folder \union {i}} /\ playlist' = playlist \ {i}
        /\ dumps' = dumps \union {i} /\ bare' = bare \ {i}
        /\ archive' = Video!Renumbered({i}) /\ armed' = Video!Cancelled(Video!Archived \intersect {i})
        /\ UNCHANGED <<standing, larix, lateTimers, removing, left>>
    BY <1>13 DEF Video!PushStarts
  <2>2. session' \in [Streams -> SessionState] /\ Video!Live' = Video!Live \union {i}
    BY <1>1, <2>1 DEF Video!Live, SessionState
  <2>3. Ranks(archive') /\ Placed(archive') = Video!Archived \ {i}
    BY <1>2, <2>1, VideoRenumbered
  <2>4. armed' \in [Streams -> Nat] /\ \A j \in Streams : armed'[j] <= armed[j]
    BY <1>1, <2>1 DEF Video!Cancelled
  <2>5. \A j \in Streams : armed[j] \in Nat /\ lateTimers[j] \in Nat /\ armed'[j] \in Nat
    BY <1>1, <2>4
  <2>6. few(armed', lateTimers', Video!Live', pushes')
    <3>1. \A j \in Streams : armed'[j] + lateTimers[j] < pushes + 1
      BY <1>1, <1>3, <2>4, <2>5
    <3>2. pushes' = pushes + 1 /\ pushes \in Nat /\ lateTimers' = lateTimers
      BY <1>1, <2>1
    <3>3. \A j \in Streams : armed'[j] + lateTimers'[j] < pushes'
      BY <3>1, <3>2
    <3>4. \A j \in Streams : armed'[j] + lateTimers'[j] <= pushes'
      BY <2>5, <3>2, <3>3
    <3> QED BY <3>3, <3>4
  <2>7. pushes' \in Nat
    BY <1>1, <2>1
  <2> HIDE DEF few
  <2>8. /\ folder' \subseteq folder \union {i} /\ playlist' \subseteq folder' /\ folder' \subseteq dumps'
        /\ dumps' \subseteq Streams
    BY <1>4, <2>1
  <2>9. folder' \subseteq Video!Live' \union Placed(archive') \union removing' \union left' \union bare'
    BY <1>4, <2>1, <2>2, <2>3, <2>8
  <2> QED BY <1>1, <1>6, <2>1, <2>2, <2>3, <2>4, <2>6, <2>7, <2>8, <2>9
<1>14. ASSUME NEW i \in Streams, Video!PlaylistAppears(i) PROVE VideoInv'
  <2>1. /\ i \in Video!Live /\ i \in folder /\ playlist' = playlist \union {i}
        /\ UNCHANGED <<session, standing, larix, folder, dumps, archive, armed, lateTimers, removing,
                       left, bare, pushes>>
    BY <1>14 DEF Video!PlaylistAppears, Video!sessionVars
  <2>2. Video!Live' = Video!Live
    BY <2>1 DEF Video!Live
  <2> QED BY <1>1, <1>2, <1>3, <1>4, <1>5, <1>6, <2>1, <2>2
<1>15. ASSUME NEW i \in Streams, Video!PushEnds(i) PROVE VideoInv'
  <2>1. /\ i \in Video!Live /\ UNCHANGED <<standing, larix, dumps, lateTimers, removing, left, pushes>>
        /\ session' = [session EXCEPT ![i] = IF session[i] = "stopping" THEN "gone"
                                             ELSE IF i \in larix THEN "listening" ELSE "idle"]
    BY <1>15 DEF Video!PushEnds
  <2>2. session' \in [Streams -> SessionState] /\ Video!Live' = Video!Live \ {i}
    BY <1>1, <2>1 DEF Video!Live, SessionState
  <2>3. CASE ~(i \in playlist /\ eventMode)
    <3>1. UNCHANGED <<archive, armed>>
      BY <1>15, <2>3 DEF Video!PushEnds
    <3>2. few(armed', lateTimers', Video!Live', pushes')
      BY <1>3, <2>1, <2>2, <3>1
    <3>3. \/ bare' = bare \union ({i} \intersect folder) /\ UNCHANGED <<folder, playlist>>
          \/ folder' = folder \ {i} /\ playlist' = playlist \ {i} /\ UNCHANGED bare
      BY <1>15, <2>3 DEF Video!PushEnds
    <3> HIDE DEF few
    <3>4. /\ folder' \subseteq Video!Live' \union Placed(archive') \union removing' \union left' \union bare'
          /\ playlist' \subseteq folder' /\ folder' \subseteq dumps' /\ dumps' \subseteq Streams
      BY <1>4, <1>5, <2>1, <2>2, <3>1, <3>3
    <3> QED BY <1>1, <1>2, <1>6, <2>1, <2>2, <3>1, <3>2, <3>4
  <2>4. CASE i \in playlist /\ eventMode
    <3>1. Video!Pruned(i) /\ UNCHANGED bare
      BY <1>15, <2>4 DEF Video!PushEnds
    <3>2. /\ Ranks(archive')
          /\ folder' \ (Video!Archived \union {i}) \subseteq folder \ (Video!Archived \union {i})
          /\ folder' \intersect (Video!Archived \union {i}) \subseteq Placed(archive')
          /\ folder' \subseteq folder /\ playlist' \subseteq folder'
      BY <1>2, <1>4, <3>1, VideoPruned
    <3>3. \E ids : armed' = [Video!Cancelled(ids) EXCEPT ![i] = @ + 1]
      BY <3>1 DEF Video!Pruned
    <3>4. PICK ids : armed' = [Video!Cancelled(ids) EXCEPT ![i] = @ + 1]
      BY <3>3
    <3> DEFINE c == Video!Cancelled(ids)
    <3>5. c \in [Streams -> Nat] /\ \A j \in Streams : c[j] <= armed[j]
      BY <1>1 DEF Video!Cancelled
    <3>6. armed' = [c EXCEPT ![i] = @ + 1]
      BY <3>4
    <3> HIDE DEF c
    <3>7. /\ armed' \in [Streams -> Nat] /\ \A j \in Streams \ {i} : armed'[j] <= armed[j]
          /\ armed'[i] <= armed[i] + 1
      BY <1>1, <3>5, <3>6
    <3>8. \A j \in Streams : armed[j] \in Nat /\ lateTimers[j] \in Nat /\ armed'[j] \in Nat
      BY <1>1, <3>7
    <3>9. few(armed', lateTimers', Video!Live', pushes')
      <4>1. \A j \in Streams \ {i} : armed'[j] + lateTimers[j] <= pushes
                                     /\ (j \in Video!Live => armed'[j] + lateTimers[j] < pushes)
        BY <1>1, <1>3, <3>7, <3>8
      <4>2. armed'[i] + lateTimers[i] <= pushes
        BY <1>1, <1>3, <2>1, <3>7, <3>8
      <4> QED BY <2>1, <2>2, <4>1, <4>2
    <3> HIDE DEF few
    <3>10. /\ folder' \subseteq Video!Live' \union Placed(archive') \union removing' \union left' \union bare'
           /\ folder' \subseteq dumps' /\ dumps' \subseteq Streams
      BY <1>4, <2>1, <2>2, <3>1, <3>2
    <3> QED BY <1>1, <1>6, <2>1, <2>2, <3>2, <3>7, <3>9, <3>10
  <2> QED BY <2>3, <2>4
<1>16. ASSUME NEW i \in Streams, Video!TimerGoesOff(i) PROVE VideoInv'
  <2>1. /\ armed[i] > 0 /\ armed' = [armed EXCEPT ![i] = @ - 1]
        /\ lateTimers' = [lateTimers EXCEPT ![i] = @ + 1]
        /\ UNCHANGED <<session, standing, larix, folder, playlist, dumps, archive, removing, left, bare,
                       pushes>>
    BY <1>16 DEF Video!TimerGoesOff, Video!sessionVars
  <2>2. /\ armed' \in [Streams -> Nat] /\ lateTimers' \in [Streams -> Nat]
        /\ \A j \in Streams \ {i} : armed'[j] = armed[j] /\ lateTimers'[j] = lateTimers[j]
        /\ armed'[i] = armed[i] - 1 /\ lateTimers'[i] = lateTimers[i] + 1
    BY <1>1, <2>1
  <2>3. armed'[i] + lateTimers'[i] = armed[i] + lateTimers[i]
    <3>1. armed[i] \in Nat /\ lateTimers[i] \in Nat
      BY <1>1
    <3> QED BY <2>2, <3>1
  <2>4. Video!Live' = Video!Live
    BY <2>1 DEF Video!Live
  <2>5. few(armed', lateTimers', Video!Live', pushes')
    BY <1>3, <2>1, <2>2, <2>3, <2>4
  <2> HIDE DEF few
  <2> QED BY <1>1, <1>2, <1>4, <1>5, <1>6, <2>1, <2>2, <2>4, <2>5
<1>17. ASSUME NEW i \in Streams, Video!ExpirePop(i) PROVE VideoInv'
  <2>1. /\ lateTimers[i] > 0 /\ lateTimers' = [lateTimers EXCEPT ![i] = @ - 1]
        /\ UNCHANGED <<session, standing, larix, folder, playlist, dumps, armed, left, bare, pushes>>
        /\ IF i \in Video!Archived
           THEN archive' = Video!Renumbered({i}) /\ removing' = removing \union {i}
           ELSE UNCHANGED <<archive, removing>>
    BY <1>17 DEF Video!ExpirePop, Video!sessionVars
  <2>2. /\ lateTimers' \in [Streams -> Nat]
        /\ \A j \in Streams : lateTimers'[j] <= lateTimers[j]
    BY <1>1, <2>1
  <2>3. \A j \in Streams : armed[j] \in Nat /\ lateTimers[j] \in Nat /\ lateTimers'[j] \in Nat
    BY <1>1, <2>2
  <2>4. Video!Live' = Video!Live
    BY <2>1 DEF Video!Live
  <2>5. few(armed', lateTimers', Video!Live', pushes')
    <3>1. few(armed, lateTimers', Video!Live, pushes)
      BY <1>1, <1>3, <2>2, <2>3
    <3> QED BY <2>1, <2>4, <3>1
  <2>6. Ranks(archive') /\ Video!Archived \subseteq Placed(archive') \union removing' /\ removing \subseteq removing'
    <3>1. CASE i \in Video!Archived
      <4>1. Ranks(archive') /\ Placed(archive') = Video!Archived \ {i}
        BY <1>2, <2>1, <3>1, VideoRenumbered
      <4> QED BY <2>1, <3>1, <4>1
    <3>2. CASE i \notin Video!Archived
      BY <1>2, <1>5, <2>1, <3>2
    <3> QED BY <3>1, <3>2
  <2> HIDE DEF few
  <2> QED BY <1>1, <1>4, <1>6, <2>1, <2>2, <2>4, <2>5, <2>6
<1>18. ASSUME NEW i \in Streams, Video!ExpireRemove(i) PROVE VideoInv'
  <2>1. /\ removing' = removing \ {i} /\ playlist' = playlist \ {i}
        /\ folder' = folder \ {i} /\ bare' = bare \ {i}
        /\ UNCHANGED <<session, standing, larix, dumps, archive, armed, lateTimers, left, pushes>>
    BY <1>18 DEF Video!ExpireRemove, Video!sessionVars
  <2>2. Video!Live' = Video!Live
    BY <2>1 DEF Video!Live
  <2> QED BY <1>1, <1>2, <1>3, <1>4, <1>5, <1>6, <2>1, <2>2
<1>19. CASE Video!Restart
  <2>1. /\ Video!NewId \in Video!Unused /\ left' = left \union folder
        /\ session' = [i \in Streams |-> IF i \in Video!Unused THEN IF i = Video!NewId THEN "listening" ELSE "unused"
                                         ELSE "gone"]
        /\ standing' = Video!NewId /\ larix' = larix \union {Video!NewId}
        /\ archive' = [i \in Streams |-> 0] /\ armed' = [i \in Streams |-> 0]
        /\ lateTimers' = [i \in Streams |-> 0] /\ UNCHANGED <<folder, playlist, dumps, bare, pushes>>
    BY <1>7, <1>19 DEF Video!Restart
  <2>2. session' \in [Streams -> SessionState] /\ Video!Live' = {}
    BY <2>1 DEF SessionState, Video!Live
  <2>3. Video!NewId \in Streams
    BY <2>1 DEF Video!Unused
  <2>4. Ranks(archive')
    BY <2>1, NoReplays
  <2>5. few(armed', lateTimers', Video!Live', pushes')
    BY <1>1, <2>1, <2>2
  <2>6. armed' \in [Streams -> Nat] /\ lateTimers' \in [Streams -> Nat]
    BY <2>1
  <2> HIDE DEF few
  <2> QED BY <1>1, <1>4, <1>6, <2>1, <2>2, <2>3, <2>4, <2>5, <2>6
<1> QED BY <1>9, <1>10, <1>11, <1>12, <1>13, <1>14, <1>15, <1>16, <1>17, <1>18, <1>19 DEF Video!Next

\* It implies the types and the properties of the live streams.
LEMMA VideoSafe == VideoInv => Video!TypeOK /\ Video!NoOrphanFiles
<1> SUFFICES ASSUME VideoInv PROVE Video!TypeOK /\ Video!NoOrphanFiles
  OBVIOUS
<1>1. Video!Cardinality(Video!Archived) = Cardinality(Placed(archive))
  BY DEF Video!Cardinality, Cardinality, Video!Archived, Placed
<1>2. \A i \in Streams : archive[i] <= Video!Cardinality(Video!Archived)
  BY <1>1 DEF VideoInv, Ranks
<1>3. \A i \in Streams : session[i] \in SessionState
  BY DEF VideoInv, VideoTypes
<1> QED BY <1>2, <1>3 DEF VideoInv, VideoTypes, SessionState, TimersFew, Video!TypeOK

-----------------------------------------------------------------------------
(* The photos.                                                             *)

Plain == [pc : {"ready", "join", "shutter", "download", "finally"}]
Putting == [pc : {"put", "restore", "finally"}, cap : Captures]
Uploading == [pc : {"upload", "mark"}, cap : Captures, dest : Dests]
Writing == [pc : {"write"}, cap : Captures, dests : SUBSET Dests]
TakerState == Plain \union Putting \union Uploading \union Writing

CaptureSteps == {"join", "shutter", "download", "put", "restore", "finally"}

PhotoTypes ==
    /\ taker \in [Workers -> TakerState]
    /\ wifi \in {"home", "camera", "none"} /\ adrift \in BOOLEAN
    /\ picture \in [Captures -> {"none", "torn", "whole"}]
    /\ sidecar \in [Captures -> [kept : BOOLEAN, dests : SUBSET Dests]] /\ photosHeld \subseteq Captures

\* What is kept is whole, and what is marked Brain has.
Inbox == \A c \in Captures : /\ sidecar[c].kept => picture[c] = "whole"
                             /\ sidecar[c].dests # {} => c \in photosHeld

\* What a worker uploads is whole, and what it marks Brain has.
InHand(w) == /\ taker[w].pc = "upload" => picture[taker[w].cap] = "whole"
             /\ taker[w].pc \in {"mark", "write"} => taker[w].cap \in photosHeld

NoCapture == \A w \in Workers : taker[w].pc \notin CaptureSteps
Network == NoCapture => wifi = "home" \/ adrift

PhotoInv == PhotoTypes /\ Inbox /\ Network /\ \A w \in Workers : InHand(w)

\* The invariant of the photos holds at the start.
LEMMA PhotoBegins == Photo!Init => PhotoInv
<1> SUFFICES ASSUME Photo!Init PROVE PhotoInv
  OBVIOUS
<1> USE DEF Photo!Init, Photo!Idle
<1>1. taker \in [Workers -> TakerState] /\ \A w \in Workers : taker[w].pc = "ready"
  BY DEF TakerState, Plain
<1>2. sidecar \in [Captures -> [kept : BOOLEAN, dests : SUBSET Dests]] /\ picture \in [Captures -> {"none", "torn", "whole"}]
  OBVIOUS
<1>3. \A c \in Captures : ~sidecar[c].kept /\ sidecar[c].dests = {}
  OBVIOUS
<1> QED BY <1>1, <1>2, <1>3 DEF PhotoInv, PhotoTypes, Inbox, Network, InHand

\* It holds as long as none of the part's variables changes.
LEMMA PhotoStays == PhotoInv /\ UNCHANGED photoVars => PhotoInv'
BY DEF PhotoInv, photoVars, PhotoTypes, Inbox, Network, NoCapture, InHand

\* A worker's step: it is somewhere, and the others are where they were.
LEMMA TakerGoes ==
  ASSUME PhotoTypes, NEW w \in Workers, NEW s \in TakerState, taker' = [taker EXCEPT ![w] = s]
  PROVE  taker' \in [Workers -> TakerState] /\ taker'[w] = s /\ \A v \in Workers \ {w} : taker'[v] = taker[v]
BY DEF PhotoTypes

\* What such a step has to keep.
LEMMA PhotoOfOne ==
  ASSUME PhotoInv, NEW w \in Workers, taker' \in [Workers -> TakerState],
         \A v \in Workers \ {w} : taker'[v] = taker[v],
         wifi' \in {"home", "camera", "none"}, adrift' \in BOOLEAN, photosHeld' \subseteq Captures,
         photosHeld \subseteq photosHeld',
         picture' \in [Captures -> {"none", "torn", "whole"}],
         \A c \in Captures : picture[c] = "whole" => picture'[c] = "whole",
         sidecar' \in [Captures -> [kept : BOOLEAN, dests : SUBSET Dests]],
         \A c \in Captures : /\ sidecar'[c].kept => sidecar[c].kept \/ picture'[c] = "whole"
                             /\ sidecar'[c].dests # {} => sidecar[c].dests # {} \/ c \in photosHeld',
         \/ taker'[w].pc \in CaptureSteps
         \/ taker[w].pc \notin CaptureSteps /\ UNCHANGED <<wifi, adrift>>
         \/ wifi' = "home" \/ adrift',
         InHand(w)'
  PROVE  PhotoInv'
<1>1. PhotoTypes /\ Inbox /\ Network /\ \A v \in Workers : InHand(v)
  BY DEF PhotoInv
<1>2. PhotoTypes'
  BY DEF PhotoTypes
<1>3. Inbox'
  BY <1>1 DEF Inbox
<1>4. Network'
  BY <1>1 DEF Network, NoCapture
<1>5. ASSUME NEW v \in Workers \ {w} PROVE InHand(v)'
  <2>1. taker[v].pc = "upload" => taker[v].cap \in Captures
    BY <1>1 DEF PhotoTypes, TakerState, Plain, Putting, Uploading, Writing
  <2> QED BY <2>1, <1>1 DEF InHand
<1> QED BY <1>2, <1>3, <1>4, <1>5 DEF PhotoInv

\* Every step of the part keeps it.
LEMMA PhotoStep == PhotoInv /\ Photo!Next => PhotoInv'
<1> SUFFICES ASSUME PhotoInv, Photo!Next PROVE PhotoInv'
  OBVIOUS
<1> USE DEF Photo!SameNet, Photo!SameInbox
<1>0. PhotoTypes /\ Inbox /\ Network /\ \A v \in Workers : InHand(v)
  BY DEF PhotoInv
\* Where a worker can be, from what it is doing.
<1>a. ASSUME NEW w \in Workers
      PROVE  /\ taker[w] \in TakerState
             /\ taker[w].pc \in {"join", "shutter", "download"} => taker[w] \in Plain
             /\ taker[w].pc \in {"put", "restore"} => taker[w] \in Putting
             /\ taker[w].pc \in {"upload", "mark"} => taker[w] \in Uploading
             /\ taker[w].pc = "write" => taker[w] \in Writing
  <2>1. taker[w] \in TakerState
    BY <1>0 DEF PhotoTypes
  <2> QED BY <2>1 DEF TakerState, Plain, Putting, Uploading, Writing
<1>b. Photo!Idle \in TakerState /\ Photo!Idle.pc = "ready"
  BY DEF Photo!Idle, TakerState, Plain
\* A step of a capture, with the network as it may then be.
<1>1. ASSUME NEW w \in Workers, NEW s \in TakerState, taker' = [taker EXCEPT ![w] = s],
             wifi' \in {"home", "camera", "none"}, adrift' \in BOOLEAN,
             s.pc \in CaptureSteps \/ wifi' = "home" \/ adrift' \/ (taker[w].pc \notin CaptureSteps /\ UNCHANGED <<wifi, adrift>>),
             s.pc \notin {"upload", "mark", "write"},
             UNCHANGED <<picture, sidecar, photosHeld>>
      PROVE  PhotoInv'
  <2>1. taker' \in [Workers -> TakerState] /\ taker'[w] = s /\ \A v \in Workers \ {w} : taker'[v] = taker[v]
    BY <1>0, <1>1, TakerGoes
  <2>2. InHand(w)'
    BY <2>1, <1>1 DEF InHand
  <2> QED BY <1>0, <1>1, <2>1, <2>2, PhotoOfOne DEF PhotoTypes
<1>2. ASSUME NEW w \in Workers, NEW pc \in {"shutter", "download", "finally"}, taker[w] \in Plain, Photo!Goes(w, pc)
      PROVE  \E s \in TakerState : taker' = [taker EXCEPT ![w] = s] /\ s.pc = pc
  <2> DEFINE s == [taker[w] EXCEPT !.pc = pc]
  <2>1. s \in Plain /\ s.pc = pc
    BY <1>2 DEF Plain
  <2>2. s \in TakerState /\ taker' = [taker EXCEPT ![w] = s]
    BY <1>2, <2>1 DEF TakerState, Photo!Goes
  <2> QED BY <2>1, <2>2
<1>3. ASSUME NEW w \in Workers, NEW pc \in {"restore", "finally"}, taker[w] \in Putting, Photo!Goes(w, pc)
      PROVE  \E s \in TakerState : taker' = [taker EXCEPT ![w] = s] /\ s.pc = pc
  <2> DEFINE s == [taker[w] EXCEPT !.pc = pc]
  <2>1. s \in Putting /\ s.pc = pc
    BY <1>3 DEF Putting
  <2>2. s \in TakerState /\ taker' = [taker EXCEPT ![w] = s]
    BY <1>3, <2>1 DEF TakerState, Photo!Goes
  <2> QED BY <2>1, <2>2
<1>4. ASSUME NEW w \in Workers, Photo!Snapshot(w) PROVE PhotoInv'
  <2>1. [pc |-> "join"] \in TakerState
    BY DEF TakerState, Plain
  <2>2. taker' = [taker EXCEPT ![w] = [pc |-> "join"]] /\ UNCHANGED <<wifi, adrift, picture, sidecar, photosHeld>>
    BY <1>4 DEF Photo!Snapshot
  <2> QED BY <1>0, <1>1, <2>1, <2>2 DEF PhotoTypes, CaptureSteps
<1>5. ASSUME NEW w \in Workers, Photo!Join(w) PROVE PhotoInv'
  <2>1. /\ taker[w] \in Plain /\ \E pc \in {"shutter", "finally"} : Photo!Goes(w, pc)
        /\ wifi' \in {"home", "camera", "none"} /\ UNCHANGED <<adrift, picture, sidecar, photosHeld>>
    BY <1>5, <1>a, <1>0 DEF Photo!Join, Photo!At, PhotoTypes
  <2>2. PICK s \in TakerState : taker' = [taker EXCEPT ![w] = s] /\ s.pc \in {"shutter", "finally"}
    BY <2>1, <1>2
  <2> QED BY <1>0, <1>1, <2>1, <2>2 DEF PhotoTypes, CaptureSteps
<1>6. ASSUME NEW w \in Workers, Photo!Shutter(w) PROVE PhotoInv'
  <2>1. /\ taker[w] \in Plain /\ \E pc \in {"download", "finally"} : Photo!Goes(w, pc)
        /\ UNCHANGED <<wifi, adrift, picture, sidecar, photosHeld>>
    BY <1>6, <1>a DEF Photo!Shutter, Photo!At
  <2>2. PICK s \in TakerState : taker' = [taker EXCEPT ![w] = s] /\ s.pc \in {"download", "finally"}
    BY <2>1, <1>2
  <2> QED BY <1>0, <1>1, <2>1, <2>2 DEF PhotoTypes, CaptureSteps
<1>7. ASSUME NEW w \in Workers, Photo!Download(w) PROVE PhotoInv'
  <2>0. taker[w] \in Plain /\ UNCHANGED <<wifi, adrift, sidecar, photosHeld>>
    BY <1>7, <1>a DEF Photo!Download, Photo!At
  <2>1. CASE Photo!Goes(w, "finally") /\ UNCHANGED picture
    <3>1. PICK s \in TakerState : taker' = [taker EXCEPT ![w] = s] /\ s.pc = "finally"
      BY <2>0, <2>1, <1>2
    <3> QED BY <1>0, <1>1, <2>0, <2>1, <3>1 DEF PhotoTypes, CaptureSteps
  <2>2. CASE \E c \in Captures : /\ picture[c] = "none" /\ picture' = [picture EXCEPT ![c] = "torn"]
                                 /\ taker' = [taker EXCEPT ![w] = [pc |-> "put", cap |-> c]]
    <3>1. PICK c \in Captures : /\ picture[c] = "none" /\ picture' = [picture EXCEPT ![c] = "torn"]
                                /\ taker' = [taker EXCEPT ![w] = [pc |-> "put", cap |-> c]]
      BY <2>2
    <3> DEFINE s == [pc |-> "put", cap |-> c]
    <3>2. s \in TakerState /\ s.pc = "put"
      BY DEF TakerState, Putting
    <3>3. taker' = [taker EXCEPT ![w] = s]
      BY <3>1
    <3> HIDE DEF s
    <3>4. taker' \in [Workers -> TakerState] /\ taker'[w] = s /\ \A v \in Workers \ {w} : taker'[v] = taker[v]
      BY <3>2, <3>3, <1>0, TakerGoes
    <3>5. /\ picture' \in [Captures -> {"none", "torn", "whole"}]
          /\ \A d \in Captures : picture[d] = "whole" => picture'[d] = "whole"
      BY <3>1, <1>0 DEF PhotoTypes
    <3>6. InHand(w)' /\ taker'[w].pc \in CaptureSteps
      BY <3>2, <3>4 DEF InHand, CaptureSteps
    <3> QED BY <1>0, <2>0, <3>4, <3>5, <3>6, PhotoOfOne DEF PhotoTypes
  <2> QED BY <1>7, <2>1, <2>2 DEF Photo!Download
<1>8. ASSUME NEW w \in Workers, Photo!Put(w) PROVE PhotoInv'
  <2>0. taker[w] \in Putting /\ taker[w].pc = "put" /\ taker[w].cap \in Captures /\ UNCHANGED <<wifi, adrift, photosHeld>>
    BY <1>8, <1>a DEF Photo!Put, Photo!At, Putting
  <2>1. CASE picture[taker[w].cap] = "torn" /\ picture' = [picture EXCEPT ![taker[w].cap] = "whole"] /\ UNCHANGED <<sidecar, taker>>
    <3>1. /\ picture' \in [Captures -> {"none", "torn", "whole"}]
          /\ \A d \in Captures : picture[d] = "whole" => picture'[d] = "whole"
      BY <2>0, <2>1, <1>0 DEF PhotoTypes
    <3>2. InHand(w)' /\ taker'[w].pc \in CaptureSteps
      BY <2>0, <2>1 DEF InHand, CaptureSteps
    <3> QED BY <1>0, <2>0, <2>1, <3>1, <3>2, PhotoOfOne DEF PhotoTypes
  <2>2. CASE /\ picture[taker[w].cap] = "whole" /\ sidecar' = [sidecar EXCEPT ![taker[w].cap].kept = TRUE]
             /\ UNCHANGED picture /\ Photo!Goes(w, "restore")
    <3>1. PICK s \in TakerState : taker' = [taker EXCEPT ![w] = s] /\ s.pc = "restore"
      BY <2>0, <2>2, <1>3
    <3>2. taker' \in [Workers -> TakerState] /\ taker'[w] = s /\ \A v \in Workers \ {w} : taker'[v] = taker[v]
      BY <3>1, <1>0, TakerGoes
    <3>3. /\ sidecar' \in [Captures -> [kept : BOOLEAN, dests : SUBSET Dests]]
          /\ \A c \in Captures \ {taker[w].cap} : sidecar'[c] = sidecar[c]
          /\ sidecar'[taker[w].cap].dests = sidecar[taker[w].cap].dests
      BY <2>0, <2>2, <1>0 DEF PhotoTypes
    <3>4. \A c \in Captures : /\ sidecar'[c].kept => sidecar[c].kept \/ picture'[c] = "whole"
                              /\ sidecar'[c].dests # {} => sidecar[c].dests # {} \/ c \in photosHeld'
      BY <2>2, <3>3
    <3>5. InHand(w)' /\ taker'[w].pc \in CaptureSteps
      BY <3>1, <3>2 DEF InHand, CaptureSteps
    <3> QED BY <1>0, <2>0, <2>2, <3>2, <3>3, <3>4, <3>5, PhotoOfOne DEF PhotoTypes
  <2> QED BY <1>8, <2>1, <2>2 DEF Photo!Put
<1>9. ASSUME NEW w \in Workers, Photo!Restore(w) PROVE PhotoInv'
  <2>1. /\ taker[w] \in Putting /\ Photo!Goes(w, "finally") /\ UNCHANGED <<picture, sidecar, photosHeld>>
        /\ wifi' \in {"home", "camera", "none"} /\ adrift' \in BOOLEAN
    BY <1>9, <1>a, <1>0 DEF Photo!Restore, Photo!At, Photo!ComesHome, Photo!StaysAway, PhotoTypes
  <2>2. PICK s \in TakerState : taker' = [taker EXCEPT ![w] = s] /\ s.pc = "finally"
    BY <2>1, <1>3
  <2> QED BY <1>1, <2>1, <2>2 DEF CaptureSteps
<1>10. ASSUME NEW w \in Workers, Photo!RestoreAgain(w) PROVE PhotoInv'
  <2>1. /\ taker' = [taker EXCEPT ![w] = Photo!Idle] /\ UNCHANGED <<picture, sidecar, photosHeld>>
        /\ wifi' \in {"home", "camera", "none"} /\ adrift' \in BOOLEAN /\ (wifi' = "home" \/ adrift')
    BY <1>10, <1>0 DEF Photo!RestoreAgain, Photo!Ends, Photo!ComesHome, Photo!StaysAway, PhotoTypes
  <2> QED BY <1>1, <1>b, <2>1
\* An upload begins, of a capture that is kept.
<1>11. ASSUME NEW w \in Workers, taker[w].pc = "ready", NEW d \in Dests, NEW c \in Captures, sidecar[c].kept,
              taker' = [taker EXCEPT ![w] = [pc |-> "upload", cap |-> c, dest |-> d]],
              UNCHANGED <<wifi, adrift, picture, sidecar, photosHeld>>
       PROVE  PhotoInv'
  <2> DEFINE s == [pc |-> "upload", cap |-> c, dest |-> d]
  <2>1. s \in TakerState /\ s.pc = "upload" /\ s.cap = c
    BY DEF TakerState, Uploading
  <2>2. taker' = [taker EXCEPT ![w] = s]
    BY <1>11
  <2> HIDE DEF s
  <2>3. taker' \in [Workers -> TakerState] /\ taker'[w] = s /\ \A v \in Workers \ {w} : taker'[v] = taker[v]
    BY <2>1, <2>2, <1>0, TakerGoes
  <2>4. InHand(w)'
    BY <2>1, <2>3, <1>0, <1>11 DEF InHand, Inbox
  <2>5. taker[w].pc \notin CaptureSteps
    BY <1>11 DEF CaptureSteps
  <2> QED BY <1>0, <1>11, <2>3, <2>4, <2>5, PhotoOfOne DEF PhotoTypes
<1>12. ASSUME NEW w \in Workers, Photo!BeginUpload(w) PROVE PhotoInv'
  BY <1>11, <1>12 DEF Photo!BeginUpload, Photo!At, Photo!Kept
<1>13. ASSUME NEW w \in Workers, Photo!BeginUploadPending(w) PROVE PhotoInv'
  BY <1>11, <1>13 DEF Photo!BeginUploadPending, Photo!At, Photo!Kept, Photo!Pending
\* A worker's upload ends, or it gives up.
<1>14. ASSUME NEW w \in Workers, taker[w] \in Uploading, photosHeld' \subseteq Captures, photosHeld \subseteq photosHeld',
              Photo!Ends(w), UNCHANGED <<wifi, adrift, picture, sidecar>>
       PROVE  PhotoInv'
  <2>1. taker' \in [Workers -> TakerState] /\ taker'[w] = Photo!Idle /\ \A v \in Workers \ {w} : taker'[v] = taker[v]
    BY <1>b, <1>14, <1>0, TakerGoes DEF Photo!Ends
  <2>2. InHand(w)' /\ taker[w].pc \notin CaptureSteps
    BY <2>1, <1>b, <1>14 DEF InHand, CaptureSteps, Uploading
  <2> QED BY <1>0, <1>14, <2>1, <2>2, PhotoOfOne DEF PhotoTypes
<1>15. ASSUME NEW w \in Workers, Photo!Upload(w) PROVE PhotoInv'
  <2>0. taker[w] \in Uploading /\ taker[w].cap \in Captures /\ UNCHANGED <<wifi, adrift, picture, sidecar>>
    BY <1>15, <1>a DEF Photo!Upload, Photo!At, Uploading
  <2>1. CASE UNCHANGED photosHeld /\ Photo!Ends(w)
    <3>1. photosHeld' \subseteq Captures /\ photosHeld \subseteq photosHeld'
      BY <2>1, <1>0 DEF PhotoTypes
    <3> QED BY <2>0, <2>1, <3>1, <1>14
  <2>2. CASE photosHeld' = photosHeld \union {taker[w].cap} /\ Photo!Ends(w)
    <3>1. photosHeld' \subseteq Captures /\ photosHeld \subseteq photosHeld'
      BY <2>0, <2>2, <1>0 DEF PhotoTypes
    <3> QED BY <2>0, <2>2, <3>1, <1>14
  <2>3. CASE photosHeld' = photosHeld \union {taker[w].cap} /\ Photo!Goes(w, "mark")
    <3> DEFINE s == [taker[w] EXCEPT !.pc = "mark"]
    <3>1. s \in Uploading /\ s.pc = "mark" /\ s.cap = taker[w].cap
      BY <2>0 DEF Uploading
    <3>2. taker' = [taker EXCEPT ![w] = s] /\ s \in TakerState
      BY <2>3, <3>1 DEF Photo!Goes, TakerState
    <3> HIDE DEF s
    <3>3. taker' \in [Workers -> TakerState] /\ taker'[w] = s /\ \A v \in Workers \ {w} : taker'[v] = taker[v]
      BY <3>2, <1>0, TakerGoes
    <3>4. InHand(w)' /\ taker[w].pc \notin CaptureSteps
      BY <2>0, <2>3, <3>1, <3>3 DEF InHand, CaptureSteps, Uploading
    <3>5. photosHeld' \subseteq Captures /\ photosHeld \subseteq photosHeld'
      BY <2>0, <2>3, <1>0 DEF PhotoTypes
    <3> QED BY <1>0, <2>0, <3>3, <3>4, <3>5, PhotoOfOne DEF PhotoTypes
  <2> QED BY <1>15, <2>1, <2>2, <2>3 DEF Photo!Upload
<1>16. ASSUME NEW w \in Workers, Photo!ReadSidecar(w) PROVE PhotoInv'
  <2> DEFINE s == [pc |-> "write", cap |-> taker[w].cap, dests |-> sidecar[taker[w].cap].dests \union {taker[w].dest}]
  <2>0. taker[w] \in Uploading /\ taker[w].pc = "mark" /\ UNCHANGED <<wifi, adrift, picture, sidecar, photosHeld>>
    BY <1>16, <1>a DEF Photo!ReadSidecar, Photo!At
  <2>1. s \in Writing /\ s.pc = "write" /\ s.cap = taker[w].cap
    <3>1. taker[w].cap \in Captures /\ taker[w].dest \in Dests
      BY <2>0 DEF Uploading
    <3>2. sidecar[taker[w].cap].dests \in SUBSET Dests
      BY <3>1, <1>0 DEF PhotoTypes
    <3> QED BY <3>1, <3>2 DEF Writing
  <2>2. taker' = [taker EXCEPT ![w] = s] /\ s \in TakerState
    BY <1>16, <2>1, <1>0 DEF Photo!ReadSidecar, TakerState, PhotoTypes
  <2> HIDE DEF s
  <2>3. taker' \in [Workers -> TakerState] /\ taker'[w] = s /\ \A v \in Workers \ {w} : taker'[v] = taker[v]
    BY <2>2, <1>0, TakerGoes
  <2>4. InHand(w)' /\ taker[w].pc \notin CaptureSteps
    BY <2>0, <2>1, <2>3, <1>0 DEF InHand, CaptureSteps
  <2> QED BY <1>0, <2>0, <2>3, <2>4, PhotoOfOne DEF PhotoTypes
<1>17. ASSUME NEW w \in Workers, Photo!WriteSidecar(w) PROVE PhotoInv'
  <2>0. /\ taker[w].pc = "write" /\ taker[w].cap \in Captures /\ taker[w].dests \in SUBSET Dests
        /\ taker[w].cap \in photosHeld /\ UNCHANGED <<wifi, adrift, picture, photosHeld>>
    BY <1>17, <1>a, <1>0 DEF Photo!WriteSidecar, Photo!At, Writing, InHand
  <2>1. taker' \in [Workers -> TakerState] /\ taker'[w] = Photo!Idle /\ \A v \in Workers \ {w} : taker'[v] = taker[v]
    BY <1>b, <1>17, <1>0, TakerGoes DEF Photo!WriteSidecar, Photo!Ends
  <2>2. InHand(w)' /\ taker[w].pc \notin CaptureSteps
    BY <2>0, <2>1, <1>b DEF InHand, CaptureSteps
  <2>3. sidecar' = [sidecar EXCEPT ![taker[w].cap].dests = taker[w].dests]
    BY <1>17 DEF Photo!WriteSidecar
  <2>4. /\ sidecar' \in [Captures -> [kept : BOOLEAN, dests : SUBSET Dests]]
        /\ \A c \in Captures \ {taker[w].cap} : sidecar'[c] = sidecar[c]
        /\ sidecar'[taker[w].cap].kept = sidecar[taker[w].cap].kept
    BY <2>0, <2>3, <1>0 DEF PhotoTypes
  <2>5. \A c \in Captures : /\ sidecar'[c].kept => sidecar[c].kept \/ picture'[c] = "whole"
                            /\ sidecar'[c].dests # {} => sidecar[c].dests # {} \/ c \in photosHeld'
    BY <2>0, <2>4
  <2> QED BY <1>0, <2>0, <2>1, <2>2, <2>4, <2>5, PhotoOfOne DEF PhotoTypes
<1>18. CASE Photo!AutoJoin
  <2>1. /\ wifi' \in {"home", "camera", "none"} /\ adrift' = (wifi' # "home")
        /\ UNCHANGED <<taker, picture, sidecar, photosHeld>>
    BY <1>18 DEF Photo!AutoJoin
  <2>2. adrift' \in BOOLEAN /\ (wifi' = "home" \/ adrift')
    BY <2>1
  <2> QED BY <1>0, <2>1, <2>2 DEF PhotoInv, PhotoTypes, Inbox, Network, InHand
<1>19. CASE Photo!Restart
  <2>1. /\ taker' = [w \in Workers |-> Photo!Idle] /\ adrift' = (wifi # "home")
        /\ UNCHANGED <<wifi, picture, sidecar, photosHeld>>
    BY <1>19 DEF Photo!Restart
  <2>2. adrift' \in BOOLEAN /\ (wifi' = "home" \/ adrift')
    BY <2>1
  <2>3. taker' \in [Workers -> TakerState] /\ \A w \in Workers : InHand(w)'
    BY <2>1, <1>b DEF InHand
  <2> QED BY <1>0, <2>1, <2>2, <2>3 DEF PhotoInv, PhotoTypes, Inbox, Network
<1> QED BY <1>4, <1>5, <1>6, <1>7, <1>8, <1>9, <1>10, <1>12, <1>13, <1>15, <1>16, <1>17, <1>18, <1>19 DEF Photo!Next

\* It implies the types and the properties of the photos.
LEMMA PhotoSafe == PhotoInv => /\ Photo!TypeOK /\ Photo!HomeAgain /\ Photo!MarkedIsHeld /\ Photo!UploadsWhole
<1> SUFFICES ASSUME PhotoInv
             PROVE  Photo!TypeOK /\ Photo!HomeAgain /\ Photo!MarkedIsHeld /\ Photo!UploadsWhole
  OBVIOUS
<1>1. \A w \in Workers : taker[w].pc \in {"ready", "join", "shutter", "download", "put", "restore", "finally",
                                          "upload", "mark", "write"}
  BY DEF PhotoInv, PhotoTypes, TakerState, Plain, Putting, Uploading, Writing
<1>2. Photo!TypeOK
  BY <1>1 DEF PhotoInv, PhotoTypes, Photo!TypeOK
<1>3. Photo!HomeAgain
  BY DEF PhotoInv, Network, NoCapture, CaptureSteps, Photo!HomeAgain
<1>4. Photo!MarkedIsHeld /\ Photo!UploadsWhole
  BY DEF PhotoInv, Inbox, InHand, Photo!MarkedIsHeld, Photo!UploadsWhole, Photo!At
<1> QED BY <1>2, <1>3, <1>4

-----------------------------------------------------------------------------
(* The television.                                                         *)

CastState == [at : {"idle", "recalling", "searching", "waking", "choosing", "setting",
                    "playing", "ok", "failed"},
              target : {TheTv!Nowhere} \union Addrs, found : SUBSET Addrs, mac : BOOLEAN,
              frames : 0..MaxFrames]

\* Who is about to send a picture has found a device that matches there, unless addresses
\* changed hands since.
Aimed(w) ==
    /\ cast[w].at \in {"setting", "playing"} =>
          /\ cast[w].target \in Addrs
          /\ w \notin moved => TheTv!Matches(cast[w].target)
    /\ w \in astray => w \in moved /\ cast[w].at \notin {"recalling", "searching", "waking", "choosing"}

TvInv == TheTv!TypeOK /\ mac \in BOOLEAN /\ \A w \in Workers : Aimed(w)

\* The invariant of the television holds at the start.
LEMMA TvBegins == TheTv!Init => TvInv
<1> SUFFICES ASSUME TheTv!Init PROVE TvInv
  OBVIOUS
<1> USE TvAssumption DEF TheTv!Init, TheTv!Nowhere, TheTv!Off, CastState
<1>1. PICK set \in Addrs, alike \in SUBSET Addrs :
        lease = [a \in Addrs |-> IF a = set THEN "tv" ELSE IF a \in alike THEN "namesake" ELSE "other"]
  OBVIOUS
<1>2. lease \in [Addrs -> {"tv", "namesake", "other"}]
  BY <1>1
<1>3. cast \in [Workers -> CastState] /\ \A w \in Workers : cast[w].at = "idle"
  OBVIOUS
<1>4. mac \in BOOLEAN /\ \A w \in Workers : Aimed(w)
  BY <1>3 DEF Aimed, TheTv!Matches
<1> QED BY <1>2, <1>3, <1>4 DEF TvInv, TheTv!TypeOK

\* It holds as long as none of the part's variables changes.
LEMMA TvStays == TvInv /\ UNCHANGED tvVars => TvInv'
BY DEF TvInv, tvVars, TheTv!TypeOK, Aimed, TheTv!Matches, TheTv!Nowhere

\* A step of one worker that leaves the network alone keeps what holds of the others.
LEMMA TvOfOne ==
  ASSUME TvInv, NEW w \in Workers,
         UNCHANGED <<byHost, lease>>, cast' \in [Workers -> CastState],
         \A v \in Workers \ {w} : cast'[v] = cast[v],
         location' \in {TheTv!Nowhere} \union Addrs, mac' \in BOOLEAN,
         moved' \in {moved, moved \ {w}},
         astray' \subseteq Workers, \A v \in Workers \ {w} : v \in astray' <=> v \in astray,
         Aimed(w)'
  PROVE  TvInv'
<1>1. \A v \in Workers : Aimed(v)'
  BY DEF TvInv, Aimed, TheTv!Matches, TheTv!Nowhere
<1> QED BY <1>1 DEF TvInv, TheTv!TypeOK, CastState, TheTv!Nowhere

\* Every step of the part keeps it.
LEMMA TvStep == TvInv /\ TheTv!Next => TvInv'
<1> SUFFICES ASSUME TvInv, TheTv!Next PROVE TvInv'
  OBVIOUS
<1> USE TvAssumption DEF TheTv!Nowhere, TheTv!World
<1>0. /\ cast \in [Workers -> CastState] /\ mac \in BOOLEAN /\ location \in {0} \union Addrs
      /\ astray \subseteq Workers /\ moved \subseteq Workers /\ byHost \in {0} \union Addrs
      /\ lease \in [Addrs -> {"tv", "namesake", "other"}] /\ \A w \in Workers : Aimed(w)
  BY DEF TvInv, TheTv!TypeOK, CastState
<1>1. ASSUME NEW w \in Workers, NEW n \in 0..MaxFrames, TheTv!BeginCast(w, n) PROVE TvInv'
  <2>1. cast' \in [Workers -> CastState] /\ cast'[w].at = "recalling"
    BY <1>1, <1>0 DEF TheTv!BeginCast, TheTv!Off, CastState
  <2>2. /\ moved' = moved \ {w} /\ astray' = astray \ {w} /\ \A v \in Workers \ {w} : cast'[v] = cast[v]
        /\ UNCHANGED <<byHost, lease, location, mac>>
    BY <1>1, <1>0 DEF TheTv!BeginCast
  <2>3. Aimed(w)'
    BY <2>1, <2>2 DEF Aimed, TheTv!Matches
  <2> QED BY <2>1, <2>2, <2>3, <1>0, TvOfOne
<1>2. ASSUME NEW w \in Workers, NEW a \in Addrs, cast' = TheTv!Found(w, a),
             TheTv!Verified(a), moved' = moved \ {w}, w \notin astray, location' \in {0} \union Addrs,
             mac' \in BOOLEAN, UNCHANGED <<byHost, lease, astray>>
      PROVE TvInv'
  <2>1. /\ cast' \in [Workers -> CastState] /\ cast'[w].at = "setting" /\ cast'[w].target = a
        /\ \A v \in Workers \ {w} : cast'[v] = cast[v]
    BY <1>2, <1>0 DEF TheTv!Found, CastState
  <2>2. TheTv!Matches(a)
    BY <1>2 DEF TheTv!Verified
  <2>3. Aimed(w)'
    BY <2>1, <2>2, <1>2 DEF Aimed, TheTv!Matches
  <2> QED BY <2>1, <2>3, <1>2, <1>0, TvOfOne
<1>3. ASSUME NEW w \in Workers, NEW at \in {"searching", "waking", "choosing", "ok", "failed"},
             NEW seen \in SUBSET Addrs, NEW knows \in BOOLEAN,
             cast' = [cast EXCEPT ![w] = [@ EXCEPT !.at = at, !.found = seen, !.mac = knows]],
             moved' \in {moved, moved \ {w}}, at \in {"ok", "failed"} \/ w \notin astray,
             w \in astray => moved' = moved,
             location' \in {0} \union Addrs, mac' \in BOOLEAN, UNCHANGED <<byHost, lease, astray>>
      PROVE TvInv'
  <2>1. cast' \in [Workers -> CastState] /\ cast'[w].at = at /\ \A v \in Workers \ {w} : cast'[v] = cast[v]
    BY <1>3, <1>0 DEF CastState
  <2>2. Aimed(w)'
    BY <2>1, <1>3, <1>0 DEF Aimed, TheTv!Matches
  <2> QED BY <2>1, <2>2, <1>3, <1>0, TvOfOne
<1>4. ASSUME NEW w \in Workers, TheTv!Recall(w) PROVE TvInv'
  <2>1. w \notin astray /\ cast[w] \in CastState
    BY <1>4, <1>0 DEF TheTv!Recall, Aimed, TheTv!Matches
  <2>2. CASE location # TheTv!Nowhere /\ TheTv!FromCache(location)
    BY <1>4, <2>1, <2>2, <1>0, <1>2 DEF TheTv!Recall, TheTv!FromCache
  <2>3. CASE ~(location # TheTv!Nowhere /\ TheTv!FromCache(location))
    <3>1. /\ cast' = [cast EXCEPT ![w].at = "searching", ![w].mac = mac]
          /\ location' = 0 /\ mac' = FALSE /\ moved' = moved \ {w} /\ UNCHANGED <<byHost, lease, astray>>
      BY <1>4, <2>3 DEF TheTv!Recall
    <3>2. cast' = [cast EXCEPT ![w] = [@ EXCEPT !.at = "searching", !.found = cast[w].found, !.mac = mac]]
      BY <3>1, <2>1, <1>0 DEF CastState
    <3>3. cast[w].found \in SUBSET Addrs
      BY <2>1 DEF CastState
    <3> QED BY <3>1, <3>2, <3>3, <2>1, <1>0, <1>3
  <2> QED BY <2>2, <2>3
<1>5. ASSUME NEW w \in Workers, TheTv!Search(w) PROVE TvInv'
  <2>1. /\ w \notin astray /\ cast[w] \in CastState
        /\ UNCHANGED <<byHost, lease, location, mac, moved, astray>>
    BY <1>5, <1>0 DEF TheTv!Search, Aimed, TheTv!Matches
  <2>2. PICK seen \in SUBSET Addrs :
          cast' = IF seen # {} THEN [cast EXCEPT ![w].at = "choosing", ![w].found = seen]
                  ELSE IF cast[w].mac THEN [cast EXCEPT ![w].at = "waking"]
                  ELSE [cast EXCEPT ![w].at = "failed"]
    BY <1>5 DEF TheTv!Search
  <2>3. PICK at \in {"choosing", "waking", "failed"}, kept \in SUBSET Addrs :
          cast' = [cast EXCEPT ![w] = [@ EXCEPT !.at = at, !.found = kept, !.mac = cast[w].mac]]
    <3>0. cast[w].found \in SUBSET Addrs /\ cast[w].mac \in BOOLEAN
      BY <2>1 DEF CastState
    <3>1. CASE seen # {}
      <4>1. cast' = [cast EXCEPT ![w] = [@ EXCEPT !.at = "choosing", !.found = seen, !.mac = cast[w].mac]]
        BY <3>1, <2>1, <2>2, <1>0 DEF CastState
      <4> QED BY <4>1
    <3>2. CASE seen = {} /\ cast[w].mac
      <4>1. cast' = [cast EXCEPT ![w] = [@ EXCEPT !.at = "waking", !.found = cast[w].found, !.mac = cast[w].mac]]
        BY <3>2, <2>1, <2>2, <1>0 DEF CastState
      <4> QED BY <4>1, <3>0
    <3>3. CASE seen = {} /\ ~cast[w].mac
      <4>1. cast' = [cast EXCEPT ![w] = [@ EXCEPT !.at = "failed", !.found = cast[w].found, !.mac = cast[w].mac]]
        BY <3>3, <2>1, <2>2, <1>0 DEF CastState
      <4> QED BY <4>1, <3>0
    <3> QED BY <3>1, <3>2, <3>3
  <2>4. cast[w].mac \in BOOLEAN
    BY <2>1 DEF CastState
  <2> QED BY <2>1, <2>3, <2>4, <1>0, <1>3
<1>6. ASSUME NEW w \in Workers, TheTv!Wake(w) PROVE TvInv'
  <2>1. /\ w \notin astray /\ cast[w] \in CastState /\ cast' = [cast EXCEPT ![w].at = "searching", ![w].mac = FALSE]
        /\ UNCHANGED <<byHost, lease, location, mac, moved, astray>>
    BY <1>6, <1>0 DEF TheTv!Wake, Aimed, TheTv!Matches
  <2>2. cast' = [cast EXCEPT ![w] = [@ EXCEPT !.at = "searching", !.found = cast[w].found, !.mac = FALSE]]
    BY <2>1, <1>0 DEF CastState
  <2>3. cast[w].found \in SUBSET Addrs
    BY <2>1 DEF CastState
  <2> QED BY <2>1, <2>2, <2>3, <1>0, <1>3
<1>7. ASSUME NEW w \in Workers, NEW at \in {"ok", "failed"}, TheTv!At(w, at),
             moved' \in {moved, moved \ {w}}, w \in astray => moved' = moved,
             UNCHANGED <<byHost, lease, location, mac, astray>>
      PROVE TvInv'
  <2>1. cast[w] \in CastState
    BY <1>0
  <2>2. cast' = [cast EXCEPT ![w] = [@ EXCEPT !.at = at, !.found = cast[w].found, !.mac = cast[w].mac]]
    BY <1>7, <2>1, <1>0 DEF CastState, TheTv!At
  <2>3. cast[w].found \in SUBSET Addrs /\ cast[w].mac \in BOOLEAN
    BY <2>1 DEF CastState
  <2> QED BY <2>2, <2>3, <1>7, <1>0, <1>3
<1>8. ASSUME NEW w \in Workers, TheTv!Choose(w) PROVE TvInv'
  <2> DEFINE right == {a \in cast[w].found : TheTv!Verified(a)}
  <2>1. w \notin astray /\ right \subseteq Addrs
    BY <1>8, <1>0 DEF TheTv!Choose, Aimed, TheTv!Matches, CastState
  <2>2. moved' = moved \ {w} /\ UNCHANGED <<byHost, lease, astray>>
    BY <1>8 DEF TheTv!Choose
  <2>3. CASE right = {}
    BY <1>8, <2>1, <2>2, <2>3, <1>7 DEF TheTv!Choose
  <2>4. CASE right # {}
    BY <1>8, <2>1, <2>2, <2>4, <1>2 DEF TheTv!Choose
  <2> QED BY <2>3, <2>4
<1>9. ASSUME NEW w \in Workers, TheTv!Control(w) PROVE TvInv'
  <2>1. UNCHANGED <<byHost, lease, location, mac, moved, astray>>
    BY <1>9 DEF TheTv!Control
  <2>2. \E at \in {"ok", "failed"} : TheTv!At(w, at)
    BY <1>9 DEF TheTv!Control
  <2> QED BY <2>1, <2>2, <1>7
<1>10. ASSUME NEW w \in Workers, TheTv!SetUri(w) PROVE TvInv'
  <2>1. cast[w].at = "setting" /\ cast[w].target \in Addrs /\ UNCHANGED <<byHost, lease, location, mac, moved>>
    BY <1>10, <1>0 DEF TheTv!SetUri, Aimed, TheTv!Matches
  <2>2. CASE TheTv!Answers(cast[w].target)
    <3>1. cast' = [cast EXCEPT ![w].at = "playing"]
      BY <1>10, <2>2 DEF TheTv!SetUri, TheTv!At
    <3>2. astray' = IF TheTv!Matches(cast[w].target) THEN astray ELSE astray \union {w}
      BY <1>10, <2>2 DEF TheTv!SetUri
    <3>3. /\ cast' \in [Workers -> CastState] /\ cast'[w].at = "playing" /\ cast'[w].target = cast[w].target
          /\ \A v \in Workers \ {w} : cast'[v] = cast[v]
      BY <3>1, <1>0 DEF CastState
    <3>4. Aimed(w)'
      BY <2>1, <3>2, <3>3, <1>0 DEF Aimed, TheTv!Matches
    <3>5. astray' \subseteq Workers /\ \A v \in Workers \ {w} : v \in astray' <=> v \in astray
      BY <3>2, <1>0
    <3> QED BY <2>1, <3>3, <3>4, <3>5, <1>0, TvOfOne
  <2>3. CASE ~TheTv!Answers(cast[w].target)
    <3>1. TheTv!At(w, "failed") /\ UNCHANGED astray
      BY <1>10, <2>3 DEF TheTv!SetUri
    <3> QED BY <3>1, <2>1, <1>7
  <2> QED BY <2>2, <2>3
<1>11. ASSUME NEW w \in Workers, cast[w].frames > 0, TheTv!Play(w) PROVE TvInv'
  <2> DEFINE at == IF ~TheTv!Answers(cast[w].target) THEN "failed"
                   ELSE IF cast[w].frames > 1 THEN "setting" ELSE "ok"
  <2>1. cast' = [cast EXCEPT ![w].at = at, ![w].frames = @ - 1]
    BY <1>11 DEF TheTv!Play
  <2>2. at \in {"setting", "ok", "failed"}
    OBVIOUS
  <2> HIDE DEF at
  <2>3. cast[w].at = "playing" /\ UNCHANGED <<byHost, lease, location, mac, moved, astray>>
    BY <1>11 DEF TheTv!Play
  <2>4. /\ cast'[w].at = at /\ cast'[w].target = cast[w].target
        /\ \A v \in Workers \ {w} : cast'[v] = cast[v]
    BY <2>1, <1>0 DEF CastState
  <2>5. cast[w].frames - 1 \in 0..MaxFrames
    BY <1>0, <1>11 DEF CastState
  <2>6. cast' \in [Workers -> CastState]
    BY <2>1, <2>2, <2>5, <1>0 DEF CastState
  <2>7. Aimed(w)'
    BY <2>2, <2>3, <2>4, <1>0 DEF Aimed, TheTv!Matches
  <2> QED BY <2>3, <2>4, <2>6, <2>7, <1>0, TvOfOne
<1>12. CASE TheTv!Moves
  <2>1. /\ moved' = Workers /\ UNCHANGED <<byHost, location, mac, cast, astray>>
        /\ \E a, b \in Addrs : lease' = [lease EXCEPT ![a] = lease[b], ![b] = lease[a]]
    BY <1>12 DEF TheTv!Moves
  <2>2. lease' \in [Addrs -> {"tv", "namesake", "other"}]
    BY <2>1, <1>0
  <2> QED BY <2>1, <2>2, <1>0 DEF TvInv, TheTv!TypeOK, CastState, Aimed, TheTv!Matches
<1>13. CASE TheTv!Sleeps
  BY <1>13, <1>0 DEF TheTv!Sleeps, TvInv, TheTv!TypeOK, CastState, Aimed, TheTv!Matches
<1> QED BY <1>1, <1>4, <1>5, <1>6, <1>8, <1>9, <1>10, <1>11, <1>12, <1>13 DEF TheTv!Next

\* It implies the types and the properties of the television.
LEMMA TvSafe == TvInv => TheTv!TypeOK /\ TheTv!RightScreen
BY DEF TvInv, Aimed, TheTv!Matches, TheTv!RightScreen, TheTv!TypeOK
=============================================================================
