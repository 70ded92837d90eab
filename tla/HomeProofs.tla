----------------------------- MODULE HomeProofs -----------------------------
(***************************************************************************)
(* The other parts of Home, and what is proved of the house: every property *)
(* that Home states, for every value of its constants.                     *)
(***************************************************************************)
EXTENDS HomeMediaProofs, ExecutionTimingProofs

-----------------------------------------------------------------------------
(* The document on the television.                                         *)

ReaderState == [at : {"resting", "tidying", "linking", "sending", "showing"},
                session : Nat, old : SUBSET Documents,
                page : 1..PageCount, zoom : 1..ZoomLevels, turns : BOOLEAN]
DocState == [doc : Documents, page : 1..PageCount, zoom : 1..ZoomLevels]
PageImages == (1..PageCount) \X (1..ZoomLevels)

PdfTypes ==
    /\ reader \in [Workers -> ReaderState] /\ opened \in Seq(DocState) /\ links \in Seq(SUBSET PageImages)
    /\ Len(links) = Len(opened) /\ current \in 0..Len(opened)
    /\ drawn \in [Documents -> SUBSET PageImages] /\ alone \subseteq Workers

\* A step that is under way has its session, and one that is alone has the current one,
\* which is already as the step is about to show it.
StepHasSession ==
    \A w \in Workers : /\ reader[w].session <= Len(opened)
                       /\ reader[w].at # "resting" => reader[w].session > 0
AloneOnScreen ==
    \A w \in alone :
        /\ Pdf!Busy = {w} /\ reader[w].session = current
        /\ opened[current].zoom = reader[w].zoom
        /\ reader[w].turns \/ opened[current].page = reader[w].page
ScreenRight == Pdf!Busy = {} /\ doubt = FALSE =>
    tv = Pdf!Picture(opened[current].doc, opened[current].page, opened[current].zoom)

PdfInv == PdfTypes /\ doubt \in BOOLEAN /\ StepHasSession /\ AloneOnScreen /\ ScreenRight

\* A list with one member changed.
LEMMA SeqChange ==
  ASSUME NEW R, NEW s \in Seq(R), NEW i \in 1..Len(s), NEW v \in R
  PROVE  /\ [s EXCEPT ![i] = v] \in Seq(R) /\ Len([s EXCEPT ![i] = v]) = Len(s)
         /\ [s EXCEPT ![i] = v][i] = v
         /\ \A j \in 1..Len(s) : j # i => [s EXCEPT ![i] = v][j] = s[j]
OBVIOUS

\* A list with one member more.
LEMMA SeqLonger ==
  ASSUME NEW R, NEW s \in Seq(R), NEW v \in R
  PROVE  /\ Append(s, v) \in Seq(R) /\ Len(Append(s, v)) = Len(s) + 1
         /\ Append(s, v)[Len(s) + 1] = v
         /\ \A j \in 1..Len(s) : Append(s, v)[j] = s[j]
OBVIOUS

\* A worker at rest has no session.
LEMMA PdfResting == Pdf!Resting \in ReaderState /\ Pdf!Resting.at = "resting" /\ Pdf!Resting.session = 0
BY PdfAssumption DEF Pdf!Resting, Pdf!NoSession, ReaderState

\* The invariant of the document holds at the start.
LEMMA PdfBegins == Pdf!Init => PdfInv
<1> SUFFICES ASSUME Pdf!Init PROVE PdfInv
  OBVIOUS
<1>1. /\ reader = [w \in Workers |-> Pdf!Resting] /\ opened = <<>> /\ current = 0
      /\ drawn = [d \in Documents |-> {}] /\ links = <<>> /\ alone = {} /\ doubt = TRUE
  BY DEF Pdf!Init, Pdf!NoSession
<1>2. PdfTypes
  BY <1>1, PdfResting DEF PdfTypes
<1>3. StepHasSession
  BY <1>1, PdfResting DEF StepHasSession
<1> QED BY <1>1, <1>2, <1>3 DEF PdfInv, AloneOnScreen, ScreenRight

\* It holds as long as none of the part's variables changes.
LEMMA PdfStays == PdfInv /\ UNCHANGED pdfVars => PdfInv'
<1> SUFFICES ASSUME PdfInv, UNCHANGED pdfVars PROVE PdfInv'
  OBVIOUS
<1>1. UNCHANGED <<reader, opened, current, drawn, links, tv, alone, doubt>>
  BY DEF pdfVars
<1>2. PdfTypes'
  BY <1>1 DEF PdfInv, PdfTypes, ReaderState, DocState, PageImages
<1>3. StepHasSession' /\ AloneOnScreen' /\ ScreenRight'
  BY <1>1 DEF PdfInv, StepHasSession, AloneOnScreen, ScreenRight, Pdf!Busy, Pdf!Picture
<1>4. doubt' \in BOOLEAN
  BY <1>1 DEF PdfInv
<1> QED BY <1>2, <1>3, <1>4 DEF PdfInv

\* The documents after a step that changes the reader of one worker only.
LEMMA PdfOfOne ==
  ASSUME PdfInv, NEW w \in Workers, NEW r \in ReaderState, reader' = [reader EXCEPT ![w] = r],
         opened' \in Seq(DocState), links' \in Seq(SUBSET PageImages), Len(links') = Len(opened'),
         Len(opened) <= Len(opened'), current' \in 0..Len(opened'),
         drawn' \in [Documents -> SUBSET PageImages],
         r.session <= Len(opened'), r.at # "resting" => r.session > 0
  PROVE  /\ alone' \subseteq Workers => PdfTypes'
         /\ StepHasSession'
         /\ Pdf!Busy' = IF r.at = "resting" THEN Pdf!Busy \ {w} ELSE Pdf!Busy \union {w}
         /\ \A v \in Workers \ {w} : reader'[v] = reader[v]
         /\ reader'[w] = r
<1>1. reader \in [Workers -> ReaderState] /\ opened \in Seq(DocState)
  BY DEF PdfInv, PdfTypes
<1>2. (\A v \in Workers \ {w} : reader'[v] = reader[v]) /\ reader'[w] = r /\ reader' \in [Workers -> ReaderState]
  BY <1>1
<1>3. alone' \subseteq Workers => PdfTypes'
  BY <1>2 DEF PdfTypes, ReaderState, DocState, PageImages
<1>4. Pdf!Busy' = IF r.at = "resting" THEN Pdf!Busy \ {w} ELSE Pdf!Busy \union {w}
  BY <1>2 DEF Pdf!Busy
<1>5. ASSUME NEW v \in Workers PROVE reader'[v].session <= Len(opened') /\ (reader'[v].at # "resting" => reader'[v].session > 0)
  <2>1. CASE v = w
    BY <1>2, <2>1
  <2>2. CASE v # w
    <3>1. reader'[v] = reader[v] /\ reader[v].session \in Nat /\ reader[v].session <= Len(opened)
      BY <1>1, <1>2, <2>2 DEF PdfInv, StepHasSession, ReaderState
    <3>2. reader[v].at # "resting" => reader[v].session > 0
      BY DEF PdfInv, StepHasSession
    <3>3. Len(opened) \in Nat /\ Len(opened') \in Nat
      BY <1>1
    <3> QED BY <3>1, <3>2, <3>3
  <2> QED BY <2>1, <2>2
<1> QED BY <1>2, <1>3, <1>4, <1>5 DEF StepHasSession

\* A step that begins: it is alone when nobody is busy, and then shows the session as it is.
LEMMA PdfNew ==
  ASSUME PdfInv, NEW w \in Workers, NEW r \in ReaderState, Pdf!Begins(w, r),
         opened' \in Seq(DocState), links' \in Seq(SUBSET PageImages), Len(links') = Len(opened'),
         Len(opened) <= Len(opened'), current' \in 1..Len(opened'),
         UNCHANGED <<drawn, doubt>>,
         r.session = current', r.at # "resting",
         opened'[current'].zoom = r.zoom, r.turns \/ opened'[current'].page = r.page
  PROVE  PdfInv'
<1>1. reader' = [reader EXCEPT ![w] = r] /\ alone' = IF Pdf!Busy = {} THEN {w} ELSE {}
  BY DEF Pdf!Begins
<1>2. drawn' \in [Documents -> SUBSET PageImages] /\ doubt' \in BOOLEAN
  BY DEF PdfInv, PdfTypes
<1>3. Len(opened') \in Nat
  OBVIOUS
<1>4. r.session <= Len(opened') /\ r.session > 0 /\ current' \in 0..Len(opened')
  BY <1>3
<1>8. alone' \subseteq Workers
  BY <1>1
<1>9. r.session <= Len(opened') /\ (r.at # "resting" => r.session > 0)
  BY <1>4
<1>5. /\ PdfTypes' /\ StepHasSession' /\ reader'[w] = r
      /\ Pdf!Busy' = Pdf!Busy \union {w}
  <2>1. /\ alone' \subseteq Workers => PdfTypes'
        /\ StepHasSession' /\ reader'[w] = r
        /\ Pdf!Busy' = IF r.at = "resting" THEN Pdf!Busy \ {w} ELSE Pdf!Busy \union {w}
    <3>1. drawn' \in [Documents -> SUBSET PageImages] /\ current' \in 0..Len(opened')
      BY <1>2, <1>4
    <3>2. reader' = [reader EXCEPT ![w] = r]
      BY <1>1
    <3>3. r.session <= Len(opened') /\ (r.at # "resting" => r.session > 0)
      BY <1>9
    <3> HIDE DEF PdfInv
    <3> QED BY <3>1, <3>2, <3>3, PdfOfOne
  <2> QED BY <2>1, <1>8
<1>6. AloneOnScreen'
  <2> SUFFICES ASSUME NEW v \in alone'
               PROVE  /\ Pdf!Busy' = {v} /\ reader'[v].session = current'
                      /\ opened'[current'].zoom = reader'[v].zoom
                      /\ reader'[v].turns \/ opened'[current'].page = reader'[v].page
    BY DEF AloneOnScreen
  <2>1. v = w /\ Pdf!Busy = {}
    BY <1>1
  <2> QED BY <1>5, <2>1
<1>7. ScreenRight'
  BY <1>5 DEF ScreenRight
<1> QED BY <1>2, <1>5, <1>6, <1>7 DEF PdfInv

\* A step goes on: what the session and the television hold stays.
LEMMA PdfOn ==
  ASSUME PdfInv, NEW w \in Workers, reader[w].at # "resting",
         NEW r \in ReaderState, reader' = [reader EXCEPT ![w] = r],
         r.at # "resting", r.session = reader[w].session, r.page = reader[w].page,
         r.zoom = reader[w].zoom, r.turns = reader[w].turns,
         UNCHANGED <<opened, current, alone, doubt>>, links' \in Seq(SUBSET PageImages),
         Len(links') = Len(links), drawn' \in [Documents -> SUBSET PageImages]
  PROVE  PdfInv'
<1>1. /\ opened \in Seq(DocState) /\ Len(links) = Len(opened) /\ current \in 0..Len(opened)
      /\ alone \subseteq Workers /\ doubt \in BOOLEAN
  BY DEF PdfInv, PdfTypes
<1>2. r.session <= Len(opened) /\ r.session > 0
  BY DEF PdfInv, StepHasSession
<1>3. Len(opened) <= Len(opened')
  BY <1>1
<1>4. w \in Pdf!Busy
  BY DEF Pdf!Busy
<1>5. /\ PdfTypes' /\ StepHasSession' /\ reader'[w] = r /\ \A v \in Workers \ {w} : reader'[v] = reader[v]
      /\ Pdf!Busy' = Pdf!Busy
  <2>1. Len(links') = Len(opened') /\ current' \in 0..Len(opened') /\ alone' \subseteq Workers
        /\ opened' \in Seq(DocState) /\ r.session <= Len(opened') /\ r.session > 0
    BY <1>1, <1>2
  <2>2. /\ alone' \subseteq Workers => PdfTypes'
        /\ StepHasSession' /\ reader'[w] = r /\ \A v \in Workers \ {w} : reader'[v] = reader[v]
        /\ Pdf!Busy' = IF r.at = "resting" THEN Pdf!Busy \ {w} ELSE Pdf!Busy \union {w}
    BY <1>3, <2>1, PdfOfOne
  <2>3. Pdf!Busy \union {w} = Pdf!Busy
    BY <1>4
  <2> QED BY <2>1, <2>2, <2>3
<1>6. AloneOnScreen'
  BY <1>1, <1>5 DEF PdfInv, AloneOnScreen
<1>7. ScreenRight'
  BY <1>4, <1>5 DEF ScreenRight
<1>8. doubt' \in BOOLEAN
  BY <1>1
<1> QED BY <1>5, <1>6, <1>7, <1>8 DEF PdfInv

\* A step ends, and what is on the screen is doubtful, or as the session says.
LEMMA PdfOver ==
  ASSUME PdfInv, NEW w \in Workers, reader[w].at # "resting", Pdf!Ends(w), doubt' \in BOOLEAN,
         opened' \in Seq(DocState), Len(opened') = Len(opened), current' = current,
         links' \in Seq(SUBSET PageImages), Len(links') = Len(links),
         drawn' \in [Documents -> SUBSET PageImages],
         w \in alone \/ opened' = opened \/ doubt' = TRUE,
         w \notin alone => doubt' = TRUE,
         doubt' = FALSE => tv' = Pdf!Picture(opened'[current].doc, opened'[current].page, opened'[current].zoom)
  PROVE  PdfInv'
<1>1. reader' = [reader EXCEPT ![w] = Pdf!Resting] /\ alone' = alone \ {w}
  BY DEF Pdf!Ends
<1>2. /\ opened \in Seq(DocState) /\ Len(links) = Len(opened) /\ current \in 0..Len(opened)
      /\ alone \subseteq Workers
  BY DEF PdfInv, PdfTypes
<1>3. Len(opened) <= Len(opened') /\ Pdf!Resting.session <= Len(opened') /\ current' \in 0..Len(opened')
  BY <1>2, PdfResting
<1>4. /\ PdfTypes' /\ StepHasSession' /\ \A v \in Workers \ {w} : reader'[v] = reader[v]
  BY <1>1, <1>2, <1>3, PdfResting, PdfOfOne
<1>5. alone' = {}
  <2>1. w \in Pdf!Busy
    BY DEF Pdf!Busy
  <2>2. \A v \in alone : v = w
    BY <2>1 DEF PdfInv, AloneOnScreen
  <2> QED BY <1>1, <2>2
<1>6. AloneOnScreen'
  BY <1>5 DEF AloneOnScreen
<1>7. ScreenRight'
  BY DEF ScreenRight, Pdf!Picture
<1> QED BY <1>4, <1>6, <1>7 DEF PdfInv

\* Every step of the part keeps it.
LEMMA PdfStep == PdfInv /\ Pdf!Next => PdfInv'
<1> SUFFICES ASSUME PdfInv, Pdf!Next PROVE PdfInv'
  OBVIOUS
<1>1. /\ reader \in [Workers -> ReaderState] /\ opened \in Seq(DocState) /\ links \in Seq(SUBSET PageImages)
      /\ Len(links) = Len(opened) /\ current \in 0..Len(opened)
      /\ drawn \in [Documents -> SUBSET PageImages] /\ alone \subseteq Workers
  BY DEF PdfInv, PdfTypes
<1>2. doubt \in BOOLEAN
  BY DEF PdfInv
<1>3. Len(opened) \in Nat
  BY <1>1
<1>4. ASSUME NEW w \in Workers, reader[w].at # "resting"
      PROVE  /\ reader[w].session \in 1..Len(opened) /\ reader[w].session \in 1..Len(links)
             /\ Pdf!Image(w) \in PageImages /\ Pdf!Session(w) \in DocState
             /\ links[reader[w].session] \in SUBSET PageImages
  <2>1. reader[w] \in ReaderState /\ reader[w].session <= Len(opened) /\ reader[w].session > 0
    BY <1>1, <1>4 DEF PdfInv, StepHasSession
  <2>2. reader[w].session \in 1..Len(opened)
    BY <1>3, <2>1 DEF ReaderState
  <2>3. Pdf!Image(w) \in PageImages
    BY <2>1 DEF Pdf!Image, PageImages, ReaderState
  <2>4. Pdf!Session(w) \in DocState
    BY <1>1, <2>2 DEF Pdf!Session
  <2> QED BY <1>1, <2>2, <2>3, <2>4
<1>5. ASSUME NEW w \in Workers, NEW d \in Documents, NEW page \in {1, PageCount + 1}, Pdf!Open(w, d, page)
      PROVE  PdfInv'
  <2> DEFINE old == IF current = Pdf!NoSession THEN {} ELSE {opened[current].doc} \ {d}
             p == IF page > PageCount THEN PageCount ELSE page
             at == IF old = {} THEN "linking" ELSE "tidying"
             n == Len(opened) + 1
             r == [Pdf!Resting EXCEPT !.at = at, !.old = old, !.session = n, !.page = p]
             s == [doc |-> d, page |-> p, zoom |-> 1]
  <2>1. /\ Pdf!Begins(w, r) /\ opened' = Append(opened, s) /\ current' = n /\ links' = Append(links, {})
        /\ UNCHANGED <<drawn, doubt>>
    BY <1>5 DEF Pdf!Open
  <2>2. p \in 1..PageCount
    BY PdfAssumption
  <2>3. old \in SUBSET Documents
    <3>1. CASE current # 0
      <4>1. current \in 1..Len(opened)
        BY <1>1, <3>1
      <4>2. opened[current] \in DocState
        BY <1>1, <4>1
      <4> QED BY <4>2 DEF DocState
    <3>2. CASE current = 0
      BY <3>2 DEF Pdf!NoSession
    <3> QED BY <3>1, <3>2
  <2>4. at \in {"linking", "tidying"} /\ n \in Nat
    BY <1>3
  <2> HIDE DEF p, old, at, n
  <2>5. s \in DocState /\ s.zoom = 1 /\ s.page = p
    BY <2>2, PdfAssumption DEF DocState
  <2>6. /\ r \in ReaderState /\ r.at # "resting" /\ r.session = n /\ r.page = p /\ r.zoom = 1
    BY <2>2, <2>3, <2>4, PdfResting DEF ReaderState, Pdf!Resting
  <2> HIDE DEF r, s
  <2>7. /\ opened' \in Seq(DocState) /\ Len(opened') = n /\ opened'[n] = s
    BY <1>1, <2>1, <2>5, SeqLonger DEF n
  <2>8. links' \in Seq(SUBSET PageImages) /\ Len(links') = n
    BY <1>1, <2>1, SeqLonger DEF n
  <2>9. Len(opened) <= n /\ n \in 1..n
    BY <1>3 DEF n
  <2> QED BY <2>1, <2>5, <2>6, <2>7, <2>8, <2>9, PdfNew
\* The current session, when there is one, and a change of it.
<1>6. ASSUME current # Pdf!NoSession
      PROVE  /\ current \in 1..Len(opened) /\ opened[current] \in DocState
             /\ \A v \in DocState : /\ [opened EXCEPT ![current] = v] \in Seq(DocState)
                                    /\ Len([opened EXCEPT ![current] = v]) = Len(opened)
                                    /\ [opened EXCEPT ![current] = v][current] = v
  <2>1. current \in 1..Len(opened)
    BY <1>1, <1>6 DEF Pdf!NoSession
  <2> QED BY <1>1, <2>1, SeqChange
<1>7. ASSUME NEW w \in Workers, NEW p \in 1..PageCount, Pdf!TurnPage(w, p) PROVE PdfInv'
  <2> DEFINE r == [Pdf!Resting EXCEPT !.at = "linking", !.session = current, !.page = p, !.turns = TRUE]
             v == [opened[current] EXCEPT !.zoom = 1]
  <2>1. /\ current # Pdf!NoSession /\ Pdf!Begins(w, r) /\ opened' = [opened EXCEPT ![current] = v]
        /\ UNCHANGED <<current, drawn, links, doubt>>
    BY <1>7 DEF Pdf!TurnPage, Pdf!TurnedZoom
  <2>2. current \in Nat
    BY <1>1
  <2>3. r \in ReaderState /\ r.at # "resting" /\ r.session = current /\ r.zoom = 1 /\ r.turns = TRUE
    BY <2>2, PdfResting DEF ReaderState, Pdf!Resting
  <2>4. v \in DocState /\ v.zoom = 1
    <3>1. 1 \in 1..ZoomLevels /\ opened[current] \in DocState
      BY <1>6, <2>1, PdfAssumption
    <3> QED BY <3>1 DEF DocState
  <2> HIDE DEF r, v
  <2>5. opened' \in Seq(DocState) /\ Len(opened') = Len(opened) /\ opened'[current] = v /\ current \in 1..Len(opened)
    BY <1>6, <2>1, <2>4
  <2>6. Len(opened) <= Len(opened')
    BY <1>3, <2>5
  <2> QED BY <1>1, <2>1, <2>3, <2>4, <2>5, <2>6, PdfNew
<1>8. ASSUME NEW w \in Workers, NEW move \in {"in", "out", "reset"}, Pdf!Zoom(w, move) PROVE PdfInv'
  <2> DEFINE z == CASE move = "in" /\ opened[current].zoom < ZoomLevels -> opened[current].zoom + 1
                    [] move = "out" /\ opened[current].zoom > 1 -> opened[current].zoom - 1
                    [] move = "reset" -> 1
                    [] OTHER -> opened[current].zoom
             r == [Pdf!Resting EXCEPT !.at = "linking", !.session = current,
                                      !.page = opened[current].page, !.zoom = z]
             v == [opened[current] EXCEPT !.zoom = z]
  <2>1. /\ current # Pdf!NoSession /\ Pdf!Begins(w, r) /\ opened' = [opened EXCEPT ![current] = v]
        /\ UNCHANGED <<current, drawn, links, doubt>>
    BY <1>8 DEF Pdf!Zoom
  <2>2. opened[current].zoom \in 1..ZoomLevels /\ opened[current].page \in 1..PageCount /\ current \in Nat
    BY <1>1, <1>6, <2>1 DEF DocState
  <2>3. z \in 1..ZoomLevels
    <3> DEFINE y == opened[current].zoom
    <3>1. y \in 1..ZoomLevels /\ ZoomLevels \in Nat
      BY <2>2, PdfAssumption
    <3>2. z \in {y + 1, y - 1, 1, y} /\ (z = y + 1 => y < ZoomLevels \/ z \in {y - 1, 1, y})
          /\ (z = y - 1 => y > 1 \/ z \in {y + 1, 1, y})
      OBVIOUS
    <3>3. \/ y < ZoomLevels /\ z = y + 1
          \/ y > 1 /\ z = y - 1
          \/ z = 1
          \/ z = y
      OBVIOUS
    <3> HIDE DEF z, y
    <3> QED BY <3>1, <3>3
  <2> HIDE DEF z
  <2>4. /\ r \in ReaderState /\ r.at # "resting" /\ r.session = current /\ r.zoom = z
        /\ r.page = opened[current].page
    BY <2>2, <2>3, PdfResting DEF ReaderState, Pdf!Resting
  <2>5. v \in DocState /\ v.zoom = z /\ v.page = opened[current].page
    BY <1>6, <2>1, <2>3 DEF DocState
  <2> HIDE DEF r, v
  <2>6. opened' \in Seq(DocState) /\ Len(opened') = Len(opened) /\ opened'[current] = v /\ current \in 1..Len(opened)
    BY <1>6, <2>1, <2>5
  <2>7. Len(opened) <= Len(opened')
    BY <1>3, <2>6
  <2> QED BY <1>1, <2>1, <2>4, <2>5, <2>6, <2>7, PdfNew
<1>9. ASSUME NEW w \in Workers, Pdf!Tidy(w) PROVE PdfInv'
  <2> DEFINE r == [reader[w] EXCEPT !.at = "linking", !.old = {}]
  <2>1. /\ reader[w].at = "tidying" /\ reader' = [reader EXCEPT ![w] = r]
        /\ drawn' = [d \in Documents |-> IF d \in reader[w].old THEN {} ELSE drawn[d]]
        /\ UNCHANGED <<opened, current, links, alone, doubt>>
    BY <1>1, <1>9 DEF Pdf!Tidy
  <2>2. /\ r \in ReaderState /\ r.at = "linking" /\ r.session = reader[w].session
        /\ r.page = reader[w].page /\ r.zoom = reader[w].zoom /\ r.turns = reader[w].turns
    BY <1>1 DEF ReaderState
  <2>3. drawn' \in [Documents -> SUBSET PageImages]
    BY <1>1, <2>1
  <2> HIDE DEF r
  <2> QED BY <1>1, <2>1, <2>2, <2>3, PdfOn
<1>10. ASSUME NEW w \in Workers, NEW at \in {"sending", "showing"}
       PROVE  LET r == [reader[w] EXCEPT !.at = at]
              IN  /\ r \in ReaderState /\ r.at # "resting" /\ r.session = reader[w].session
                  /\ r.page = reader[w].page /\ r.zoom = reader[w].zoom /\ r.turns = reader[w].turns
  BY <1>1 DEF ReaderState
\* Failures: only links and images may have changed.
<1>11. ASSUME NEW w \in Workers, reader[w].at # "resting", Pdf!Fails(w), UNCHANGED <<opened, current>>,
              links' \in Seq(SUBSET PageImages), Len(links') = Len(links),
              drawn' \in [Documents -> SUBSET PageImages]
       PROVE  PdfInv'
  BY <1>1, <1>11, PdfOver DEF Pdf!Fails
<1>12. ASSUME NEW w \in Workers, Pdf!FindPage(w) PROVE PdfInv'
  <2> DEFINE showing == [reader[w] EXCEPT !.at = "showing"]
             sending == [reader[w] EXCEPT !.at = "sending"]
             link == links[reader[w].session] \ {Pdf!Image(w)}
             images == drawn[Pdf!Session(w).doc] \union {Pdf!Image(w)}
  <2>1. reader[w].at = "linking" /\ UNCHANGED <<opened, current>>
    BY <1>12 DEF Pdf!FindPage
  <2>2. CASE reader' = [reader EXCEPT ![w] = showing] /\ UNCHANGED <<drawn, links, alone, doubt>>
    <3>1. LET r == showing
          IN  /\ r \in ReaderState /\ r.at # "resting" /\ r.session = reader[w].session
              /\ r.page = reader[w].page /\ r.zoom = reader[w].zoom /\ r.turns = reader[w].turns
      BY <1>10
    <3> HIDE DEF showing
    <3> QED BY <1>1, <2>1, <2>2, <3>1, PdfOn
  <2>3. CASE /\ links' = [links EXCEPT ![reader[w].session] = link]
             /\ \/ /\ drawn' = [drawn EXCEPT ![Pdf!Session(w).doc] = images]
                   /\ reader' = [reader EXCEPT ![w] = sending] /\ UNCHANGED <<alone, doubt>>
                \/ Pdf!Fails(w) /\ UNCHANGED drawn
    <3>1. link \in SUBSET PageImages /\ reader[w].session \in 1..Len(links)
      BY <1>4, <2>1
    <3> HIDE DEF link
    <3>2. links' \in Seq(SUBSET PageImages) /\ Len(links') = Len(links)
      BY <1>1, <2>3, <3>1, SeqChange
    <3>3. ASSUME drawn' = [drawn EXCEPT ![Pdf!Session(w).doc] = images],
                 reader' = [reader EXCEPT ![w] = sending], UNCHANGED <<alone, doubt>>
          PROVE  PdfInv'
      <4>1. LET r == sending
            IN  /\ r \in ReaderState /\ r.at # "resting" /\ r.session = reader[w].session
                /\ r.page = reader[w].page /\ r.zoom = reader[w].zoom /\ r.turns = reader[w].turns
        BY <1>10
      <4>2. Pdf!Session(w).doc \in Documents /\ Pdf!Image(w) \in PageImages
        BY <1>4, <2>1 DEF DocState
      <4>3. images \in SUBSET PageImages
        BY <1>1, <4>2
      <4> HIDE DEF images, sending
      <4>4. drawn' \in [Documents -> SUBSET PageImages]
        BY <1>1, <3>3, <4>3
      <4> QED BY <1>1, <2>1, <3>2, <3>3, <4>1, <4>4, PdfOn
    <3>4. ASSUME Pdf!Fails(w), UNCHANGED drawn PROVE PdfInv'
      BY <1>1, <1>11, <2>1, <3>2, <3>4
    <3> QED BY <2>3, <3>3, <3>4
  <2> QED BY <1>12, <2>2, <2>3 DEF Pdf!FindPage, Pdf!Link
<1>13. ASSUME NEW w \in Workers, Pdf!Send(w) PROVE PdfInv'
  <2> DEFINE showing == [reader[w] EXCEPT !.at = "showing"]
             link == links[reader[w].session] \union {Pdf!Image(w)}
  <2>1. reader[w].at = "sending" /\ UNCHANGED <<opened, current, drawn>>
    BY <1>13 DEF Pdf!Send
  <2>2. CASE /\ links' = [links EXCEPT ![reader[w].session] = link]
             /\ reader' = [reader EXCEPT ![w] = showing] /\ UNCHANGED <<alone, doubt>>
    <3>1. link \in SUBSET PageImages /\ reader[w].session \in 1..Len(links)
      BY <1>4, <2>1
    <3>2. LET r == showing
          IN  /\ r \in ReaderState /\ r.at # "resting" /\ r.session = reader[w].session
              /\ r.page = reader[w].page /\ r.zoom = reader[w].zoom /\ r.turns = reader[w].turns
      BY <1>10
    <3> HIDE DEF link, showing
    <3>3. links' \in Seq(SUBSET PageImages) /\ Len(links') = Len(links)
      BY <1>1, <2>2, <3>1, SeqChange
    <3> QED BY <1>1, <2>1, <2>2, <3>2, <3>3, PdfOn
  <2>3. CASE Pdf!Fails(w) /\ UNCHANGED links
    BY <1>1, <1>11, <2>1, <2>3
  <2> QED BY <1>13, <2>2, <2>3 DEF Pdf!Send
<1>14. ASSUME NEW w \in Workers, Pdf!Show(w) PROVE PdfInv'
  <2> DEFINE k == reader[w].session
             v == [opened[k] EXCEPT !.page = reader[w].page]
  <2>1. /\ reader[w].at = "showing" /\ doubt' = (w \notin alone) /\ Pdf!Ends(w)
        /\ opened' = IF reader[w].turns THEN [opened EXCEPT ![k] = v] ELSE opened
        /\ tv' = Pdf!Picture(opened[k].doc, reader[w].page, reader[w].zoom)
        /\ UNCHANGED <<current, drawn, links>>
    BY <1>14 DEF Pdf!Show, Pdf!Shown, Pdf!Session
  <2>2. k \in 1..Len(opened) /\ opened[k] \in DocState
    BY <1>1, <1>4, <2>1
  <2>3. v \in DocState /\ v.page = reader[w].page /\ v.doc = opened[k].doc /\ v.zoom = opened[k].zoom
    <3>1. reader[w].page \in 1..PageCount
      BY <1>1 DEF ReaderState
    <3> QED BY <2>2, <3>1 DEF DocState
  <2> HIDE DEF k, v
  <2>4. opened' \in Seq(DocState) /\ Len(opened') = Len(opened)
    <3>1. CASE reader[w].turns
      BY <1>1, <2>1, <2>2, <2>3, <3>1, SeqChange
    <3>2. CASE ~reader[w].turns
      BY <1>1, <2>1, <3>2
    <3> QED BY <3>1, <3>2
  <2>5. ASSUME w \in alone
        PROVE  tv' = Pdf!Picture(opened'[current].doc, opened'[current].page, opened'[current].zoom)
    <3>1. k = current /\ opened[k].zoom = reader[w].zoom /\ (reader[w].turns \/ opened[k].page = reader[w].page)
      BY <2>5 DEF PdfInv, AloneOnScreen, k
    <3>2. CASE reader[w].turns
      <4>1. opened'[k] = v
        BY <1>1, <2>1, <2>2, <2>3, <3>2, SeqChange
      <4> QED BY <2>1, <2>3, <3>1, <4>1
    <3>3. CASE ~reader[w].turns
      BY <2>1, <3>1, <3>3
    <3> QED BY <3>2, <3>3
  <2>6. doubt' \in BOOLEAN /\ (doubt' = FALSE => w \in alone) /\ (w \notin alone => doubt' = TRUE)
    BY <2>1
  <2> QED BY <1>1, <2>1, <2>4, <2>5, <2>6, PdfOver
<1>15. ASSUME NEW w \in Workers, Pdf!ShowFails(w) PROVE PdfInv'
  BY <1>1, <1>11, <1>15 DEF Pdf!ShowFails
<1>16. CASE Pdf!Restart
  <2>1. /\ reader' = [w \in Workers |-> Pdf!Resting] /\ opened' = <<>> /\ current' = 0
        /\ links' = <<>> /\ alone' = {} /\ doubt' = TRUE /\ drawn' = drawn
    BY <1>16 DEF Pdf!Restart, Pdf!NoSession
  <2>2. opened' \in Seq(DocState) /\ links' \in Seq(SUBSET PageImages) /\ Len(opened') = 0 /\ Len(links') = 0
    BY <2>1
  <2>3. PdfTypes'
    <3>1. reader' \in [Workers -> ReaderState]
      BY <2>1, PdfResting
    <3> QED BY <1>1, <2>1, <2>2, <3>1 DEF PdfTypes, ReaderState, DocState, PageImages
  <2>4. StepHasSession'
    BY <2>1, <2>2, PdfResting DEF StepHasSession
  <2> QED BY <2>1, <2>3, <2>4 DEF PdfInv, AloneOnScreen, ScreenRight
<1> QED BY <1>5, <1>7, <1>8, <1>9, <1>12, <1>13, <1>14, <1>15, <1>16 DEF Pdf!Next

\* It implies the types and the properties of the document.
LEMMA PdfSafe == PdfInv => Pdf!TypeOK /\ Pdf!ScreenIsSession
<1> SUFFICES ASSUME PdfInv PROVE Pdf!TypeOK /\ Pdf!ScreenIsSession
  OBVIOUS
<1>1. PdfTypes /\ StepHasSession /\ doubt \in BOOLEAN
  BY DEF PdfInv
<1>2. \A w \in Workers : reader[w] \in [at : {"resting", "tidying", "linking", "sending", "showing"},
                               session : 0..Len(opened), old : SUBSET Documents,
                               page : 1..PageCount, zoom : 1..ZoomLevels, turns : BOOLEAN]
  <2> SUFFICES ASSUME NEW w \in Workers
               PROVE  reader[w] \in [at : {"resting", "tidying", "linking", "sending", "showing"},
                               session : 0..Len(opened), old : SUBSET Documents,
                               page : 1..PageCount, zoom : 1..ZoomLevels, turns : BOOLEAN]
    OBVIOUS
  <2>1. reader[w] \in ReaderState /\ reader[w].session <= Len(opened) /\ Len(opened) \in Nat
    BY <1>1 DEF PdfTypes, StepHasSession
  <2> QED BY <2>1 DEF ReaderState
<1>3. \A i \in 1..Len(opened) : opened[i] \in DocState
  BY <1>1 DEF PdfTypes
<1>4. Pdf!TypeOK
  BY <1>1, <1>2, <1>3 DEF PdfTypes, DocState, PageImages, Pdf!TypeOK
<1>5. Pdf!ScreenIsSession
  BY DEF PdfInv, ScreenRight, Pdf!ScreenIsSession
<1> QED BY <1>4, <1>5

-----------------------------------------------------------------------------
(* A web page.                                                             *)

PageState ==
    [at : {"idle", "fetching", "extracting", "rendering", "printing", "printing numbers", "counting",
           "stamping", "merging", "uploading", "ok", "failed"},
     engine : {"none", "chrome", "weasyprint"}, said : BOOLEAN, ask : Web!Asked]
BodyState == [holds : {"nothing", "part", "whole"}, numbers : 0..2]

\* What is in the temporary directory, and how often the pages are numbered, where the
\* step is.
TempsAt(at) ==
    CASE at \in {"rendering", "counting", "stamping"} -> {{"pdf"}}
      [] at = "printing" -> {{"pdf", "html", "profile"}}
      [] at = "printing numbers" -> {{"pdf", "html", "profile", "overlay"}}
      [] at = "merging" -> {{"pdf", "overlay"}}
      [] at = "uploading" -> {{"pdf"}, {"text"}}
      [] OTHER -> {{}}

WebRight ==
    /\ temps \in TempsAt(webPage.at)
    /\ chrome # "none" => webPage.at \in {"printing", "printing numbers"}
    /\ webPage.at = "printing" => webPage.engine = "chrome"
    /\ webPage.at \in {"fetching", "extracting", "rendering", "printing", "stamping", "printing numbers", "merging"} =>
          body.numbers = 0
    /\ webPage.at \in {"fetching", "extracting", "rendering", "printing", "counting"} => webPage.said = FALSE
    /\ webPage.at = "counting" => body.numbers = IF Web!Native THEN 1 ELSE 0
    /\ webPage.at \in {"uploading", "ok"} /\ (webPage.ask.numbers \/ ~webPage.ask.native) =>
          body.numbers = IF webPage.said THEN 1 ELSE 0

WebInv ==
    /\ hasChrome \in BOOLEAN /\ hasWeasy \in BOOLEAN /\ webPage \in PageState
    /\ chrome \in {"none", "working", "exited"} /\ printed \in {"nothing", "part", "whole"}
    /\ looks \in 0..Deadline /\ fileSeen \in 0..Deadline
    /\ body \in BodyState /\ pages \in 0..MaxWebPages
    /\ WebRight

\* The invariant of the web page holds at the start.
LEMMA WebBegins == Web!Init => WebInv
<1> SUFFICES ASSUME Web!Init PROVE WebInv
  OBVIOUS
<1>1. /\ webPage = Web!NoPage /\ chrome = "none" /\ printed = "nothing" /\ looks = 0 /\ fileSeen = 0
      /\ temps = {} /\ body = Web!NoBody /\ pages = 0
  BY DEF Web!Init
<1>2. hasChrome \in BOOLEAN /\ hasWeasy \in BOOLEAN
  BY DEF Web!Init
<1>3. webPage \in PageState /\ webPage.at = "idle"
  BY <1>1 DEF PageState, Web!NoPage, Web!Asked
<1>4. body \in BodyState
  BY <1>1 DEF BodyState, Web!NoBody
<1>5. WebRight
  BY <1>1, <1>3 DEF WebRight, TempsAt
<1> QED BY <1>1, <1>2, <1>3, <1>4, <1>5, WebAssumption DEF WebInv

\* The numbers of the looks do not matter to what is right.
LEMMA WebCounts ==
  ASSUME WebInv, UNCHANGED <<hasChrome, hasWeasy>>, webPage' \in PageState,
         chrome' \in {"none", "working", "exited"}, printed' \in {"nothing", "part", "whole"},
         looks' \in 0..Deadline, fileSeen' \in 0..Deadline, body' \in BodyState,
         pages' \in 0..MaxWebPages, WebRight'
  PROVE  WebInv'
BY DEF WebInv, PageState, BodyState, Web!Asked

\* It holds as long as none of the part's variables changes.
LEMMA WebStays == WebInv /\ UNCHANGED webVars => WebInv'
<1> SUFFICES ASSUME WebInv, UNCHANGED webVars PROVE WebInv'
  OBVIOUS
<1>1. UNCHANGED <<hasChrome, hasWeasy, webPage, chrome, printed, looks, fileSeen, temps, body, pages>>
  BY DEF webVars
<1>2. WebRight'
  BY <1>1 DEF WebInv, WebRight, TempsAt, Web!Native
<1> QED BY <1>1, <1>2, WebCounts DEF WebInv

\* Every step of the part keeps it.
LEMMA WebStep == WebInv /\ Web!Next => WebInv'
<1> SUFFICES ASSUME WebInv, Web!Next PROVE WebInv'
  OBVIOUS
<1>1. /\ hasChrome \in BOOLEAN /\ hasWeasy \in BOOLEAN
  BY DEF WebInv
<1>2. /\ webPage \in PageState /\ body \in BodyState
      /\ chrome \in {"none", "working", "exited"} /\ printed \in {"nothing", "part", "whole"}
  BY DEF WebInv
<1>3. looks \in 0..Deadline /\ fileSeen \in 0..Deadline /\ pages \in 0..MaxWebPages
  BY DEF WebInv
<1>4. /\ temps \in TempsAt(webPage.at)
      /\ chrome # "none" => webPage.at \in {"printing", "printing numbers"}
      /\ webPage.at = "printing" => webPage.engine = "chrome"
      /\ webPage.at \in {"fetching", "extracting", "rendering", "printing", "stamping", "printing numbers", "merging"} =>
            body.numbers = 0
      /\ webPage.at \in {"fetching", "extracting", "rendering", "printing", "counting"} => webPage.said = FALSE
      /\ webPage.at = "counting" => body.numbers = IF Web!Native THEN 1 ELSE 0
      /\ webPage.at \in {"uploading", "ok"} /\ (webPage.ask.numbers \/ ~webPage.ask.native) =>
            body.numbers = IF webPage.said THEN 1 ELSE 0
  BY DEF WebInv, WebRight
<1>5. temps \subseteq {"text", "pdf", "html", "profile", "overlay", "stamped"}
  BY <1>2, <1>4 DEF TempsAt
<1>6. ASSUME NEW at \in {"rendering", "printing", "printing numbers", "counting", "stamping", "merging",
                         "uploading", "ok", "failed", "fetching", "extracting"},
             webPage' = [webPage EXCEPT !.at = at]
      PROVE  /\ webPage' \in PageState /\ webPage'.at = at /\ webPage'.engine = webPage.engine
             /\ webPage'.said = webPage.said /\ webPage'.ask = webPage.ask
  BY <1>2, <1>6 DEF PageState
\* A failure leaves nothing behind.
<1>7. ASSUME Web!Fails, UNCHANGED <<hasChrome, hasWeasy, printed, looks, fileSeen, body, pages>>
      PROVE  WebInv'
  <2>1. webPage' \in PageState /\ webPage'.at = "failed"
    BY <1>6, <1>7 DEF Web!Fails, Web!At
  <2>2. chrome' = "none" /\ temps' = {}
    BY <1>5, <1>7 DEF Web!Fails, Web!ScrapeOver, Web!StampOver, Web!ChromeOver, Web!ChromeFreed
  <2>3. WebRight'
    BY <2>1, <2>2 DEF WebRight, TempsAt
  <2> QED BY <1>2, <1>3, <1>7, <2>1, <2>2, <2>3, WebCounts
<1>8. ASSUME NEW ask \in Web!Asked, Web!Begin(ask) PROVE WebInv'
  <2>1. /\ webPage.at \in {"idle", "ok", "failed"} /\ pages < MaxWebPages
        /\ webPage' = [Web!NoPage EXCEPT !.at = "fetching", !.ask = ask]
        /\ body' = Web!NoBody /\ pages' = pages + 1
        /\ UNCHANGED <<hasChrome, hasWeasy, chrome, printed, looks, fileSeen, temps>>
    BY <1>8 DEF Web!Begin, Web!Engines, Web!Looking
  <2>2. webPage' \in PageState /\ webPage'.at = "fetching" /\ webPage'.said = FALSE
    BY <2>1 DEF PageState, Web!NoPage, Web!Asked
  <2>3. body' \in BodyState /\ body'.numbers = 0
    BY <2>1 DEF BodyState, Web!NoBody
  <2>4. chrome' = "none" /\ temps' = {}
    BY <1>4, <2>1 DEF TempsAt
  <2>5. WebRight'
    BY <2>2, <2>3, <2>4 DEF WebRight, TempsAt
  <2>6. pages' \in 0..MaxWebPages
    BY <1>3, <2>1, WebAssumption
  <2> QED BY <1>2, <1>3, <2>1, <2>2, <2>3, <2>5, <2>6, WebCounts
<1>9. CASE Web!Fetch
  <2>1. /\ webPage.at = "fetching" /\ UNCHANGED <<hasChrome, hasWeasy, printed, looks, fileSeen, body, pages>>
        /\ \/ webPage' = [webPage EXCEPT !.at = "extracting"] /\ UNCHANGED <<chrome, temps>>
           \/ Web!Fails
    BY <1>9 DEF Web!Fetch, Web!Engines, Web!Looking, Web!At
  <2>2. CASE webPage' = [webPage EXCEPT !.at = "extracting"] /\ UNCHANGED <<chrome, temps>>
    <3>1. webPage' \in PageState /\ webPage'.at = "extracting" /\ webPage'.said = FALSE
      BY <1>4, <1>6, <2>1, <2>2
    <3>2. chrome' = "none" /\ temps' = {} /\ body'.numbers = 0
      BY <1>4, <2>1, <2>2 DEF TempsAt
    <3>3. WebRight'
      BY <3>1, <3>2 DEF WebRight, TempsAt
    <3> QED BY <1>2, <1>3, <2>1, <3>1, <3>2, <3>3, WebCounts
  <2> QED BY <1>7, <2>1, <2>2
<1>10. CASE Web!Extract
  <2>1. /\ webPage.at = "extracting" /\ UNCHANGED <<hasChrome, hasWeasy, printed, looks, fileSeen, pages>>
        /\ \/ Web!Fails /\ UNCHANGED body
           \/ /\ webPage' = [webPage EXCEPT !.at = "uploading"] /\ temps' = temps \union {"text"}
              /\ body' = [Web!NoBody EXCEPT !.holds = "whole"] /\ UNCHANGED chrome
           \/ /\ Web!Engine # "none" /\ temps' = temps \union {"pdf"}
              /\ webPage' = [webPage EXCEPT !.at = "rendering", !.engine = Web!Engine] /\ UNCHANGED <<chrome, body>>
    BY <1>10 DEF Web!Extract, Web!Engines, Web!Looking, Web!At
  <2>2. chrome = "none" /\ temps = {} /\ body.numbers = 0 /\ webPage.said = FALSE
    BY <1>4, <2>1 DEF TempsAt
  <2>3. CASE webPage' = [webPage EXCEPT !.at = "uploading"] /\ temps' = temps \union {"text"}
             /\ body' = [Web!NoBody EXCEPT !.holds = "whole"] /\ UNCHANGED chrome
    <3>1. webPage' \in PageState /\ webPage'.at = "uploading" /\ webPage'.said = FALSE
      BY <1>6, <2>2, <2>3
    <3>2. body' \in BodyState /\ body'.numbers = 0
      BY <2>3 DEF BodyState, Web!NoBody
    <3>3. WebRight'
      BY <2>2, <2>3, <3>1, <3>2 DEF WebRight, TempsAt
    <3> QED BY <1>2, <1>3, <2>1, <2>2, <2>3, <3>1, <3>2, <3>3, WebCounts
  <2>4. CASE /\ Web!Engine # "none" /\ temps' = temps \union {"pdf"}
             /\ webPage' = [webPage EXCEPT !.at = "rendering", !.engine = Web!Engine] /\ UNCHANGED <<chrome, body>>
    <3>1. Web!Engine \in {"none", "chrome", "weasyprint"}
      BY DEF Web!Engine
    <3>2. webPage' \in PageState /\ webPage'.at = "rendering" /\ webPage'.said = FALSE
      BY <1>2, <2>2, <2>4, <3>1 DEF PageState
    <3>3. WebRight'
      BY <2>2, <2>4, <3>2 DEF WebRight, TempsAt
    <3> QED BY <1>2, <1>3, <2>1, <2>2, <2>4, <3>2, <3>3, WebCounts
  <2> QED BY <1>7, <2>1, <2>3, <2>4
<1>11. CASE Web!RenderWeasyprint
  <2>1. /\ webPage.at = "rendering" /\ webPage.engine = "weasyprint"
        /\ UNCHANGED <<hasChrome, hasWeasy, printed, looks, fileSeen, pages>>
        /\ \/ webPage' = [webPage EXCEPT !.at = "counting"] /\ body' = [body EXCEPT !.holds = "whole"]
              /\ UNCHANGED <<chrome, temps>>
           \/ Web!Fails /\ UNCHANGED body
    BY <1>11 DEF Web!RenderWeasyprint, Web!Engines, Web!Looking, Web!At
  <2>2. CASE webPage' = [webPage EXCEPT !.at = "counting"] /\ body' = [body EXCEPT !.holds = "whole"]
             /\ UNCHANGED <<chrome, temps>>
    <3>1. /\ webPage' \in PageState /\ webPage'.at = "counting" /\ webPage'.said = FALSE
          /\ webPage'.engine = "weasyprint"
      BY <1>4, <1>6, <2>1, <2>2
    <3>2. body' \in BodyState /\ body'.numbers = 0
      BY <1>2, <1>4, <2>1, <2>2 DEF BodyState
    <3>3. chrome' = "none" /\ temps' = {"pdf"}
      BY <1>4, <2>1, <2>2 DEF TempsAt
    <3>4. WebRight'
      BY <3>1, <3>2, <3>3 DEF WebRight, TempsAt, Web!Native
    <3> QED BY <1>2, <1>3, <2>1, <3>1, <3>2, <3>3, <3>4, WebCounts
  <2> QED BY <1>7, <2>1, <2>2
<1>12. CASE Web!ChromeStarts
  <2>1. /\ chrome' = "working" /\ printed' = "nothing" /\ looks' = 0 /\ fileSeen' = 0
        /\ temps' = temps \union {"html", "profile"} \union (IF webPage.at = "stamping" THEN {"overlay"} ELSE {})
        /\ UNCHANGED <<hasChrome, hasWeasy, body, pages>>
        /\ \/ webPage.at = "rendering" /\ webPage.engine = "chrome" /\ webPage' = [webPage EXCEPT !.at = "printing"]
           \/ webPage.at = "stamping" /\ webPage' = [webPage EXCEPT !.at = "printing numbers"]
    BY <1>12 DEF Web!ChromeStarts, Web!Engines, Web!At
  <2>4. /\ chrome' \in {"none", "working", "exited"} /\ printed' \in {"nothing", "part", "whole"}
        /\ body' \in BodyState
    BY <1>2, <2>1
  <2>5. looks' \in 0..Deadline /\ fileSeen' \in 0..Deadline /\ pages' \in 0..MaxWebPages
    <3>1. looks' = 0 /\ fileSeen' = 0 /\ pages' = pages
      BY <2>1
    <3> QED BY <1>3, <3>1, WebAssumption
  <2>2. CASE webPage.at = "rendering" /\ webPage.engine = "chrome" /\ webPage' = [webPage EXCEPT !.at = "printing"]
    <3>1. /\ webPage' \in PageState /\ webPage'.at = "printing" /\ webPage'.engine = "chrome"
          /\ webPage'.said = FALSE
      BY <1>4, <1>6, <2>2
    <3>2. temps' = {"pdf", "html", "profile"} /\ body'.numbers = 0
      BY <1>4, <2>1, <2>2 DEF TempsAt
    <3>3. WebRight'
      BY <2>1, <3>1, <3>2 DEF WebRight, TempsAt
    <3> QED BY <2>1, <2>4, <2>5, <3>1, <3>3, WebCounts
  <2>3. CASE webPage.at = "stamping" /\ webPage' = [webPage EXCEPT !.at = "printing numbers"]
    <3>1. webPage' \in PageState /\ webPage'.at = "printing numbers"
      BY <1>6, <2>3
    <3>2. temps' = {"pdf", "html", "profile", "overlay"} /\ body'.numbers = 0
      BY <1>4, <2>1, <2>3 DEF TempsAt
    <3>3. WebRight'
      BY <2>1, <3>1, <3>2 DEF WebRight, TempsAt
    <3> QED BY <2>1, <2>4, <2>5, <3>1, <3>3, WebCounts
  <2> QED BY <2>1, <2>2, <2>3
<1>13. CASE Web!ChromeWrites \/ Web!ChromeExits \/ Web!Look
  <2>1. /\ chrome # "none" \/ chrome' = chrome
        /\ chrome' \in {"none", "working", "exited"} /\ printed' \in {"nothing", "part", "whole"}
        /\ UNCHANGED <<hasChrome, hasWeasy, webPage, temps, body, pages>>
    BY <1>2, <1>13 DEF Web!ChromeWrites, Web!ChromeExits, Web!Look, Web!Engines, Web!Looking
  <2>2. looks' \in 0..Deadline /\ fileSeen' \in 0..Deadline
    BY <1>3, <1>13, WebAssumption
       DEF Web!ChromeWrites, Web!ChromeExits, Web!Look, Web!Engines, Web!Looking, Web!Late
  <2>3. WebRight'
    BY <1>4, <2>1 DEF WebRight, TempsAt, Web!Native
  <2> QED BY <1>2, <1>3, <2>1, <2>2, <2>3, WebCounts
<1>14. CASE Web!Printed
  <2>1. /\ webPage.at \in {"printing", "printing numbers"} /\ printed # "nothing"
        /\ chrome' = "none" /\ temps' = temps \ {"html", "profile"}
        /\ UNCHANGED <<hasChrome, hasWeasy, printed, looks, fileSeen, pages>>
        /\ IF webPage.at = "printing"
           THEN /\ webPage' = [webPage EXCEPT !.at = "counting"]
                /\ body' = [holds |-> printed, numbers |-> IF webPage.ask.native THEN 1 ELSE 0]
           ELSE webPage' = [webPage EXCEPT !.at = "merging"] /\ UNCHANGED body
    BY <1>14 DEF Web!Printed, Web!Printing, Web!Engines, Web!Looking, Web!At, Web!ChromeOver, Web!ChromeFreed
  <2>2. CASE webPage.at = "printing"
    <3>1. /\ webPage' \in PageState /\ webPage'.at = "counting" /\ webPage'.engine = "chrome"
          /\ webPage'.said = FALSE /\ webPage'.ask = webPage.ask
      BY <1>4, <1>6, <2>1, <2>2
    <3>2. body' \in BodyState /\ body'.numbers = IF webPage.ask.native THEN 1 ELSE 0
      BY <1>2, <2>1, <2>2 DEF BodyState
    <3>3. temps' = {"pdf"}
      BY <1>4, <2>1, <2>2 DEF TempsAt
    <3>4. WebRight'
      BY <2>1, <3>1, <3>2, <3>3 DEF WebRight, TempsAt, Web!Native
    <3> QED BY <1>2, <1>3, <2>1, <3>1, <3>2, <3>4, WebCounts
  <2>3. CASE webPage.at = "printing numbers"
    <3>1. webPage' \in PageState /\ webPage'.at = "merging"
      BY <1>6, <2>1, <2>3
    <3>2. temps' = {"pdf", "overlay"} /\ body'.numbers = 0 /\ body' = body
      BY <1>4, <2>1, <2>3 DEF TempsAt
    <3>3. WebRight'
      BY <2>1, <3>1, <3>2 DEF WebRight, TempsAt
    <3> QED BY <1>2, <1>3, <2>1, <3>1, <3>2, <3>3, WebCounts
  <2> QED BY <2>1, <2>2, <2>3
<1>15. CASE Web!NotPrinted
  BY <1>7, <1>15 DEF Web!NotPrinted, Web!Engines, Web!Looking
<1>16. CASE Web!Count
  <2>1. /\ webPage.at = "counting" /\ UNCHANGED <<hasChrome, hasWeasy, printed, looks, fileSeen, body, pages>>
        /\ \/ /\ webPage' = [webPage EXCEPT !.at = IF Web!Numbering = "stamp" THEN "stamping" ELSE "uploading",
                                            !.said = Web!Numbering = "native"]
              /\ UNCHANGED <<chrome, temps>>
           \/ Web!Fails
    BY <1>16 DEF Web!Count, Web!Engines, Web!Looking
  <2>2. CASE /\ webPage' = [webPage EXCEPT !.at = IF Web!Numbering = "stamp" THEN "stamping" ELSE "uploading",
                                           !.said = Web!Numbering = "native"]
             /\ UNCHANGED <<chrome, temps>>
    <3> DEFINE at == IF Web!Numbering = "stamp" THEN "stamping" ELSE "uploading"
               says == Web!Numbering = "native"
    <3>1. at \in {"stamping", "uploading"} /\ says \in BOOLEAN
      OBVIOUS
    <3>2. /\ webPage' \in PageState /\ webPage'.at = at /\ webPage'.said = says /\ webPage'.ask = webPage.ask
      <4> HIDE DEF at, says
      <4> QED BY <1>2, <2>2, <3>1 DEF PageState, at, says
    <3>3. chrome' = "none" /\ temps' = {"pdf"} /\ body.numbers = IF Web!Native THEN 1 ELSE 0
      BY <1>4, <2>1, <2>2 DEF TempsAt
    <3>4. Web!Numbering = "stamp" => ~Web!Native
      BY DEF Web!Numbering
    <3>5. Web!Numbering = "native" <=> webPage.ask.numbers /\ Web!Native
      BY DEF Web!Numbering
    <3>6. WebRight'
      <4>1. CASE Web!Numbering = "stamp"
        <5>1. webPage'.at = "stamping" /\ body'.numbers = 0
          BY <2>1, <3>2, <3>3, <3>4, <4>1
        <5> QED BY <3>3, <5>1 DEF WebRight, TempsAt
      <4>2. CASE Web!Numbering # "stamp"
        <5>1. webPage'.at = "uploading"
          BY <3>2, <4>2
        <5>2. webPage.ask.numbers \/ ~webPage.ask.native => body'.numbers = IF webPage'.said THEN 1 ELSE 0
          BY <2>1, <3>2, <3>3, <3>5 DEF Web!Native
        <5> QED BY <3>2, <3>3, <5>1, <5>2 DEF WebRight, TempsAt
      <4> QED BY <4>1, <4>2
    <3> QED BY <1>2, <1>3, <2>1, <2>2, <3>2, <3>6, WebCounts
  <2> QED BY <1>7, <2>1, <2>2
<1>17. CASE Web!Merge
  <2>1. /\ webPage.at = "merging" /\ UNCHANGED <<hasChrome, hasWeasy, printed, looks, fileSeen, pages>>
        /\ \/ /\ webPage' = [webPage EXCEPT !.at = "uploading", !.said = TRUE]
              /\ body' = [body EXCEPT !.numbers = @ + 1] /\ temps' = temps \ Web!StampOver /\ UNCHANGED chrome
           \/ Web!Fails /\ UNCHANGED body
    BY <1>17 DEF Web!Merge, Web!Engines, Web!Looking
  <2>2. CASE /\ webPage' = [webPage EXCEPT !.at = "uploading", !.said = TRUE]
             /\ body' = [body EXCEPT !.numbers = @ + 1] /\ temps' = temps \ Web!StampOver /\ UNCHANGED chrome
    <3>1. webPage' \in PageState /\ webPage'.at = "uploading" /\ webPage'.said = TRUE
      BY <1>2, <2>2 DEF PageState
    <3>2. body' \in BodyState /\ body'.numbers = 1
      BY <1>2, <1>4, <2>1, <2>2 DEF BodyState
    <3>3. temps' = {"pdf"} /\ chrome' = "none"
      BY <1>4, <2>1, <2>2 DEF TempsAt, Web!StampOver
    <3>4. WebRight'
      BY <3>1, <3>2, <3>3 DEF WebRight, TempsAt
    <3> QED BY <1>2, <1>3, <2>1, <3>1, <3>2, <3>3, <3>4, WebCounts
  <2> QED BY <1>7, <2>1, <2>2
<1>18. CASE Web!Upload
  <2>1. /\ webPage.at = "uploading" /\ UNCHANGED <<hasChrome, hasWeasy, printed, looks, fileSeen, body, pages>>
        /\ \/ /\ webPage' = [webPage EXCEPT !.at = "ok"] /\ temps' = temps \ Web!ScrapeOver /\ UNCHANGED chrome
           \/ Web!Fails
    BY <1>18 DEF Web!Upload, Web!Engines, Web!Looking, Web!At
  <2>2. CASE webPage' = [webPage EXCEPT !.at = "ok"] /\ temps' = temps \ Web!ScrapeOver /\ UNCHANGED chrome
    <3>1. /\ webPage' \in PageState /\ webPage'.at = "ok" /\ webPage'.said = webPage.said
          /\ webPage'.ask = webPage.ask
      BY <1>6, <2>2
    <3>2. temps' = {} /\ chrome' = "none"
      BY <1>4, <2>1, <2>2 DEF TempsAt, Web!ScrapeOver
    <3>3. WebRight'
      BY <1>4, <2>1, <3>1, <3>2 DEF WebRight, TempsAt
    <3> QED BY <1>2, <1>3, <2>1, <2>2, <3>1, <3>3, WebCounts
  <2> QED BY <1>7, <2>1, <2>2
<1> QED BY <1>8, <1>9, <1>10, <1>11, <1>12, <1>13, <1>14, <1>15, <1>16, <1>17, <1>18 DEF Web!Next

\* It implies the types and the properties of the web page.
LEMMA WebSafe == WebInv => Web!TypeOK /\ Web!NothingLeft /\ Web!NumberedAsSaid
<1> SUFFICES ASSUME WebInv PROVE Web!TypeOK /\ Web!NothingLeft /\ Web!NumberedAsSaid
  OBVIOUS
<1>1. temps \subseteq {"text", "pdf", "html", "profile", "overlay", "stamped"}
  BY DEF WebInv, WebRight, PageState, TempsAt
<1>2. webPage.at \in {"ok", "failed"} => temps = {} /\ chrome = "none"
  BY DEF WebInv, WebRight, TempsAt
<1>3. Web!NumberedAsSaid
  BY DEF WebInv, WebRight, Web!NumberedAsSaid
<1>4. Web!TypeOK
  BY <1>1 DEF WebInv, PageState, BodyState, Web!TypeOK
<1> QED BY <1>2, <1>3, <1>4 DEF Web!NothingLeft

-----------------------------------------------------------------------------
(* The picture search.                                                     *)

SearchState == [at : {"idle", "downloading", "staging", "probing", "lan", "cloud",
                      "registering", "ok", "failed"},
                stamp : 0..LastSecond, hit : {0} \union ImageHits, refs : 0..Wanted,
                got : {<<>>} \union Images!Pictures]

AtWork == {"downloading", "staging", "probing", "lan", "cloud", "registering"}

\* A worker at work has a name for its next file.
Working(w) ==
    /\ search[w].at = "idle" => search[w].hit = 0
    /\ search[w].at \in AtWork =>
        search[w].stamp >= 1 /\ search[w].hit \in ImageHits /\ search[w].refs < Wanted

\* What was stored of a worker's hits: none after the one it is at, and of that one
\* no more than its point of the step allows.
StoredOf(w) ==
    \A h \in ImageHits :
        /\ <<w, h>> \in lanStore \union cloudStore => h <= search[w].hit
        /\ h = search[w].hit =>
              /\ <<w, h>> \in lanStore => search[w].at \notin {"downloading", "staging", "probing", "lan"}
              /\ <<w, h>> \in cloudStore => search[w].at \in {"registering", "ok", "failed"}
              /\ <<w, h>> \in lanStore /\ search[w].at = "cloud" => <<w, h>> \in lanLost

\* The file of its name holds its picture, until it has been sent.
StagedOf(w) ==
    /\ search[w].at \in {"probing", "lan", "cloud"} => staged[Images!Name(w)] = Images!Mine(w)
    /\ search[w].at = "registering" => search[w].got = Images!Mine(w)

Apart == \A v, w \in Workers : v # w /\ search[v].stamp # 0 => search[v].stamp # search[w].stamp

ImagesTypes ==
    /\ second \in 1..LastSecond /\ cachedAt \in 0..LastSecond
    /\ search \in [Workers -> SearchState]
    /\ staged \in [Images!Names -> {<<>>} \union Images!Pictures]
    /\ lanStore \subseteq Images!Pictures /\ cloudStore \subseteq Images!Pictures
    /\ lanLost \subseteq Images!Pictures /\ clashed \in BOOLEAN

ImagesInv ==
    /\ ImagesTypes /\ Images!OneCopy
    /\ \A w \in Workers : Working(w) /\ StoredOf(w)
    /\ ~clashed => /\ Apart
                   /\ \A w \in Workers : StagedOf(w)
                   /\ \A r \in imageCatalog : r.picture = r.hit

\* The invariant of the picture search holds at the start.
LEMMA ImagesBegin == Images!Init => ImagesInv
<1> SUFFICES ASSUME Images!Init PROVE ImagesInv
  OBVIOUS
<1> USE ImagesAssumption DEF Images!Init, Images!Blank
<1>1. \A w \in Workers : search[w] = Images!Idle
  OBVIOUS
<1>2. Images!Idle \in SearchState
  BY DEF Images!Idle, SearchState
<1>3. search \in [Workers -> SearchState]
  BY <1>2
<1>4. ImagesTypes
  <2>1. staged \in [Images!Names -> {<<>>} \union Images!Pictures]
    OBVIOUS
  <2>2. second \in 1..LastSecond /\ cachedAt \in 0..LastSecond
    OBVIOUS
  <2> QED BY <1>3, <2>1, <2>2 DEF ImagesTypes
<1>5. Images!Idle.at = "idle" /\ Images!Idle.stamp = 0 /\ Images!Idle.hit = 0
  BY DEF Images!Idle
<1> QED BY <1>1, <1>4, <1>5 DEF ImagesInv, Images!OneCopy, Working, AtWork, StoredOf, StagedOf, Apart

\* It holds as long as none of the part's variables changes.
LEMMA ImagesStay == ImagesInv /\ UNCHANGED imagesVars => ImagesInv'
BY DEF ImagesInv, imagesVars, ImagesTypes, Images!OneCopy, Working, StoredOf, StagedOf, Apart,
       Images!Name, Images!Mine

\* A step of one worker at work leaves what holds of the others.
LEMMA ImagesOfOne ==
  ASSUME ImagesInv, NEW w \in Workers, search[w].at \in AtWork,
         search' \in [Workers -> SearchState], \A v \in Workers \ {w} : search'[v] = search[v],
         search'[w].stamp = search[w].stamp, UNCHANGED <<second, cachedAt, clashed>>,
         staged' \in [Images!Names -> {<<>>} \union Images!Pictures],
         \A n \in Images!Names \ {Images!Name(w)} : staged'[n] = staged[n],
         lanStore' \in {lanStore, lanStore \union {Images!Mine(w)}},
         cloudStore' \in {cloudStore, cloudStore \union {Images!Mine(w)}},
         lanLost' \in {lanLost, lanLost \union {Images!Mine(w)}},
         Images!OneCopy', Working(w)', StoredOf(w)',
         ~clashed => StagedOf(w)' /\ \A r \in imageCatalog' : r.picture = r.hit
  PROVE  ImagesInv'
<1> USE ImagesAssumption
<1>1. Images!Mine(w) \in Images!Pictures /\ Images!Mine(w) = <<w, search[w].hit>>
  BY DEF ImagesInv, Working, Images!Mine, Images!Pictures
<1>2. ImagesTypes'
  BY <1>1 DEF ImagesInv, ImagesTypes
<1>3. ASSUME NEW v \in Workers \ {w} PROVE Working(v)' /\ StoredOf(v)'
  <2>1. /\ \A h \in ImageHits : /\ <<v, h>> \in lanStore' <=> <<v, h>> \in lanStore
                                /\ <<v, h>> \in cloudStore' <=> <<v, h>> \in cloudStore
                                /\ <<v, h>> \in lanLost' <=> <<v, h>> \in lanLost
    BY <1>1
  <2> QED BY <2>1 DEF ImagesInv, Working, StoredOf
<1>4. ASSUME ~clashed, NEW v \in Workers \ {w} PROVE StagedOf(v)'
  <2>1. search[v].at \in AtWork => Images!Name(v) \in Images!Names
    BY DEF ImagesInv, ImagesTypes, SearchState, Working, Images!Name, Images!Names
  <2>2. Images!Name(v) # Images!Name(w)
    BY <1>4 DEF ImagesInv, Apart, Images!Name, Working
  <2>3. search'[v] = search[v] /\ Images!Name(v)' = Images!Name(v) /\ Images!Mine(v)' = Images!Mine(v)
    BY DEF Images!Name, Images!Mine
  <2>4. search[v].at \in AtWork => staged'[Images!Name(v)] = staged[Images!Name(v)]
    BY <2>1, <2>2
  <2>5. StagedOf(v)
    BY <1>4 DEF ImagesInv
  <2> QED BY <2>3, <2>4, <2>5 DEF StagedOf, AtWork
<1>5. ~clashed => Apart'
  BY DEF ImagesInv, Apart
<1>6. \A v \in Workers : Working(v)' /\ StoredOf(v)' /\ (~clashed => StagedOf(v)')
  BY <1>3, <1>4
<1> QED BY <1>2, <1>5, <1>6 DEF ImagesInv

\* Where a worker goes when it is done with a hit.
LEMMA ImagesOnward ==
  ASSUME ImagesInv, NEW w \in Workers, search[w].at \in AtWork,
         NEW refs \in {search[w].refs, search[w].refs + 1}, search' = Images!Onward(w, refs)
  PROVE  /\ search' \in [Workers -> SearchState] /\ \A v \in Workers \ {w} : search'[v] = search[v]
         /\ search'[w].stamp = search[w].stamp /\ Working(w)'
         /\ search'[w].at \in {"downloading", "ok", "failed"}
         /\ search'[w].at = "downloading" => search'[w].hit = search[w].hit + 1
         /\ search'[w].at # "downloading" => search'[w].hit = search[w].hit
<1> DEFINE more == refs < Wanted /\ search[w].hit + 1 \in ImageHits
           at == IF more THEN "downloading" ELSE IF refs > 0 THEN "ok" ELSE "failed"
           hit == IF more THEN search[w].hit + 1 ELSE search[w].hit
<1>0. search \in [Workers -> SearchState] /\ search[w].refs < Wanted /\ Wanted \in Nat /\ search[w].hit \in ImageHits
      /\ search[w].stamp >= 1
  BY ImagesAssumption DEF ImagesInv, ImagesTypes, Working
<1>1. search' = [search EXCEPT ![w].refs = refs, ![w].got = <<>>, ![w].hit = hit, ![w].at = at]
  BY <1>0 DEF Images!Onward, Images!Blank, SearchState
<1>2. /\ at \in {"downloading", "ok", "failed"} /\ hit \in ImageHits /\ refs \in 0..Wanted
      /\ at = "downloading" => hit = search[w].hit + 1 /\ refs < Wanted
      /\ at # "downloading" => hit = search[w].hit
  BY <1>0 DEF SearchState
<1> HIDE DEF at, hit, more
<1>3. /\ search' \in [Workers -> SearchState] /\ \A v \in Workers \ {w} : search'[v] = search[v]
      /\ search'[w].stamp = search[w].stamp /\ search'[w].at = at /\ search'[w].hit = hit /\ search'[w].refs = refs
  <2>1. search' = [search EXCEPT ![w] = [search[w] EXCEPT !.refs = refs, !.got = <<>>, !.hit = hit, !.at = at]]
    BY <1>0, <1>1
  <2> DEFINE next == [search[w] EXCEPT !.refs = refs, !.got = <<>>, !.hit = hit, !.at = at]
  <2>2. next \in SearchState
    BY <1>0, <1>2 DEF SearchState
  <2>3. next.at = at /\ next.stamp = search[w].stamp /\ next.hit = hit /\ next.refs = refs
    BY <1>0 DEF SearchState
  <2> HIDE DEF next
  <2> QED BY <2>1, <2>2, <2>3, <1>0 DEF next
<1>4. Working(w)'
  BY <1>0, <1>2, <1>3 DEF Working, AtWork
<1> QED BY <1>2, <1>3, <1>4

\* Every step of the part keeps it.
LEMMA ImagesStep == ImagesInv /\ Images!Next => ImagesInv'
<1> SUFFICES ASSUME ImagesInv, Images!Next PROVE ImagesInv'
  OBVIOUS
<1> USE ImagesAssumption DEF Images!Stores, Images!Blank
<1>0. /\ ImagesTypes /\ search \in [Workers -> SearchState] /\ Images!OneCopy
      /\ \A w \in Workers : Working(w) /\ StoredOf(w)
  BY DEF ImagesInv, ImagesTypes
<1>1. CASE Images!Tick
  <2>1. ImagesTypes'
    BY <1>1, <1>0 DEF Images!Tick, ImagesTypes
  <2> QED BY <1>1, <2>1 DEF Images!Tick, ImagesInv, Images!OneCopy, Working, StoredOf, StagedOf, Apart, Images!Name, Images!Mine
<1>2. ASSUME NEW w \in Workers, Images!Ask(w) PROVE ImagesInv'
  <2>1. CASE Images!At(w, "failed") /\ UNCHANGED <<cachedAt, clashed>>
    <3>1. /\ search' \in [Workers -> SearchState] /\ \A v \in Workers \ {w} : search'[v] = search[v]
          /\ search'[w].at = "failed" /\ search'[w].stamp = search[w].stamp /\ search'[w].hit = search[w].hit
      BY <1>0, <2>1 DEF Images!At, SearchState
    <3>2. UNCHANGED <<second, cachedAt, staged, lanStore, cloudStore, lanLost, imageCatalog, clashed>>
          /\ search[w].at = "idle"
      BY <1>2, <2>1 DEF Images!Ask
    <3>3. Working(w)' /\ StoredOf(w)' /\ StagedOf(w)'
      BY <3>1, <3>2, <1>0 DEF Working, StoredOf, StagedOf, AtWork
    <3>4. \A v \in Workers \ {w} : Working(v)' /\ StoredOf(v)' /\ (StagedOf(v) => StagedOf(v)')
      BY <3>1, <3>2, <1>0 DEF Working, StoredOf, StagedOf, Images!Name, Images!Mine
    <3>5. Apart => Apart'
      BY <3>1 DEF Apart
    <3>6. ImagesTypes' /\ Images!OneCopy'
      BY <3>1, <3>2, <1>0 DEF ImagesTypes, Images!OneCopy
    <3> QED BY <3>2, <3>3, <3>4, <3>5, <3>6 DEF ImagesInv
  <2>2. CASE /\ cachedAt' = IF Images!Fresh(cachedAt) THEN cachedAt ELSE second
             /\ search' = [search EXCEPT ![w] = [Images!Idle EXCEPT !.at = "downloading", !.stamp = second, !.hit = 1]]
             /\ clashed' = (clashed \/ \E v \in Workers \ {w} : search[v].stamp = second)
    <3> DEFINE begun == [Images!Idle EXCEPT !.at = "downloading", !.stamp = second, !.hit = 1]
    <3>1. begun.at = "downloading" /\ begun.stamp = second /\ begun.hit = 1 /\ begun.refs = 0
      BY DEF Images!Idle
    <3>2. begun \in SearchState
      <4>1. Images!Idle \in SearchState
        BY DEF Images!Idle, SearchState
      <4>2. second \in 0..LastSecond /\ 1 \in {0} \union ImageHits
        BY <1>0 DEF ImagesTypes
      <4> QED BY <4>1, <4>2 DEF SearchState
    <3>3. /\ search' \in [Workers -> SearchState] /\ \A v \in Workers \ {w} : search'[v] = search[v]
          /\ search'[w].at = "downloading" /\ search'[w].stamp = second /\ search'[w].hit = 1 /\ search'[w].refs = 0
      <4>1. search' = [search EXCEPT ![w] = begun]
        BY <2>2
      <4> HIDE DEF begun
      <4> QED BY <4>1, <3>1, <3>2, <1>0
    <3>4. UNCHANGED <<second, staged, lanStore, cloudStore, lanLost, imageCatalog>> /\ search[w].at = "idle"
      BY <1>2 DEF Images!Ask
    <3>5. Working(w)'
      BY <3>3, <3>4, <1>0 DEF Working, ImagesTypes
    <3>6. StoredOf(w)'
      \* an idle worker has stored nothing
      <4>1. search[w].hit = 0
        BY <3>4, <1>0 DEF ImagesInv, Working
      <4>2. \A h \in ImageHits : <<w, h>> \notin lanStore \union cloudStore
        BY <4>1, <1>0 DEF StoredOf
      <4> QED BY <4>2, <3>4 DEF StoredOf
    <3>7. StagedOf(w)'
      BY <3>3 DEF StagedOf
    <3>8. \A v \in Workers \ {w} : Working(v)' /\ StoredOf(v)' /\ (StagedOf(v) => StagedOf(v)')
      BY <3>3, <3>4, <1>0 DEF Working, StoredOf, StagedOf, Images!Name, Images!Mine
    <3>9. ImagesTypes' /\ Images!OneCopy'
      BY <2>2, <3>3, <3>4, <1>0 DEF ImagesTypes, Images!OneCopy
    <3>10. ~clashed' => ~clashed /\ (Apart => Apart')
      BY <2>2, <3>3 DEF Apart
    <3> QED BY <3>4, <3>5, <3>6, <3>7, <3>8, <3>9, <3>10 DEF ImagesInv
  <2> QED BY <1>2, <2>1, <2>2 DEF Images!Ask
\* One step in a hit, with the state before and after it.
<1>3. ASSUME NEW w \in Workers, NEW at \in {"staging", "probing", "lan", "cloud"},
             Images!At(w, at), search[w].at \in AtWork, search[w].at # "registering",
             search[w].at = "cloud" => at = "cloud", search[w].at = "lan" => at \in {"lan", "cloud"},
             UNCHANGED <<second, cachedAt, lanStore, cloudStore, lanLost, imageCatalog, clashed>>,
             at # "staging" => staged'[Images!Name(w)] = Images!Mine(w) \/ clashed,
             staged' \in [Images!Names -> {<<>>} \union Images!Pictures],
             \A n \in Images!Names \ {Images!Name(w)} : staged'[n] = staged[n]
      PROVE  ImagesInv'
  <2>1. /\ search' \in [Workers -> SearchState] /\ \A v \in Workers \ {w} : search'[v] = search[v]
        /\ search'[w].at = at /\ search'[w].stamp = search[w].stamp /\ search'[w].hit = search[w].hit
        /\ search'[w].refs = search[w].refs
    BY <1>0, <1>3 DEF Images!At, SearchState
  <2>2. Working(w)'
    BY <2>1, <1>0, <1>3 DEF Working, AtWork
  <2>3. StoredOf(w)'
    BY <2>1, <1>0, <1>3 DEF StoredOf, AtWork
  <2>4. ~clashed => StagedOf(w)'
    <3>1. Images!Name(w)' = Images!Name(w) /\ Images!Mine(w)' = Images!Mine(w)
      BY <2>1 DEF Images!Name, Images!Mine
    <3> QED BY <2>1, <3>1, <1>3 DEF StagedOf
  <2>5. Images!OneCopy' /\ (~clashed => \A r \in imageCatalog' : r.picture = r.hit)
    BY <1>0, <1>3 DEF Images!OneCopy, ImagesInv
  <2> QED BY <1>3, <2>1, <2>2, <2>3, <2>4, <2>5, ImagesOfOne
\* On to the next hit, or to the end.
<1>4. ASSUME NEW w \in Workers, search[w].at \in AtWork,
             NEW refs \in {search[w].refs, search[w].refs + 1}, search' = Images!Onward(w, refs),
             UNCHANGED <<second, cachedAt, staged, lanStore, cloudStore, lanLost, clashed>>,
             ~clashed => \A r \in imageCatalog' : r.picture = r.hit
      PROVE  ImagesInv'
  <2>1. /\ search' \in [Workers -> SearchState] /\ \A v \in Workers \ {w} : search'[v] = search[v]
        /\ search'[w].stamp = search[w].stamp /\ Working(w)'
        /\ search'[w].at \in {"downloading", "ok", "failed"}
        /\ search'[w].at = "downloading" => search'[w].hit = search[w].hit + 1
        /\ search'[w].at # "downloading" => search'[w].hit = search[w].hit
    BY <1>4, ImagesOnward
  <2>2. search[w].hit \in Nat
    BY <1>0, <1>4 DEF Working
  <2>3. StoredOf(w)'
    <3> SUFFICES ASSUME NEW h \in ImageHits
                 PROVE /\ <<w, h>> \in lanStore \union cloudStore => h <= search'[w].hit
                       /\ h = search'[w].hit =>
                           /\ <<w, h>> \in lanStore => search'[w].at \notin {"downloading", "staging", "probing", "lan"}
                           /\ <<w, h>> \in cloudStore => search'[w].at \in {"registering", "ok", "failed"}
                           /\ <<w, h>> \in lanStore /\ search'[w].at = "cloud" => <<w, h>> \in lanLost
      BY <1>4 DEF StoredOf
    <3>1. <<w, h>> \in lanStore \union cloudStore => h <= search[w].hit
      BY <1>0 DEF StoredOf
    <3> QED BY <3>1, <2>1, <2>2
  <2>4. StagedOf(w)'
    BY <2>1 DEF StagedOf
  <2>5. Images!OneCopy'
    BY <1>0, <1>4 DEF Images!OneCopy
  <2> QED BY <1>0, <1>4, <2>1, <2>3, <2>4, <2>5, ImagesOfOne DEF ImagesTypes
<1>5. ASSUME NEW w \in Workers, Images!Download(w) PROVE ImagesInv'
  <2>1. CASE Images!At(w, "staging")
    BY <1>3, <1>5, <1>0, <2>1 DEF Images!Download, AtWork, ImagesTypes
  <2>2. CASE search' = Images!Onward(w, search[w].refs)
    BY <1>4, <1>5, <2>2 DEF Images!Download, AtWork, ImagesInv
  <2> QED BY <1>5, <2>1, <2>2 DEF Images!Download
<1>6. ASSUME NEW w \in Workers, Images!Stage(w) PROVE ImagesInv'
  <2>1. /\ search[w].at = "staging" /\ staged' = [staged EXCEPT ![Images!Name(w)] = Images!Mine(w)]
        /\ Images!At(w, "probing") /\ UNCHANGED <<second, cachedAt, lanStore, cloudStore, lanLost, imageCatalog, clashed>>
    BY <1>6 DEF Images!Stage
  <2>2. Images!Name(w) \in Images!Names /\ Images!Mine(w) \in Images!Pictures
    BY <2>1, <1>0 DEF Working, AtWork, Images!Name, Images!Names, Images!Mine, Images!Pictures, SearchState, ImagesTypes
  <2>3. /\ staged' \in [Images!Names -> {<<>>} \union Images!Pictures] /\ staged'[Images!Name(w)] = Images!Mine(w)
        /\ \A n \in Images!Names \ {Images!Name(w)} : staged'[n] = staged[n]
    BY <2>1, <2>2, <1>0 DEF ImagesTypes
  <2> QED BY <1>3, <2>1, <2>3 DEF AtWork
<1>7. ASSUME NEW w \in Workers, Images!Probe(w) PROVE ImagesInv'
  <2>1. /\ search[w].at = "probing" /\ \E at \in {"lan", "cloud"} : Images!At(w, at)
        /\ UNCHANGED <<second, cachedAt, staged, lanStore, cloudStore, lanLost, imageCatalog, clashed>>
    BY <1>7 DEF Images!Probe
  <2>2. staged[Images!Name(w)] = Images!Mine(w) \/ clashed
    BY <2>1 DEF ImagesInv, StagedOf
  <2> QED BY <1>3, <2>1, <2>2, <1>0 DEF AtWork, ImagesTypes
\* A picture is on a server: what was sent is what the file of its name holds.
<1>8. ASSUME NEW w \in Workers, NEW at \in {"registering", "cloud"}, search[w].at \in {"lan", "cloud"},
             search' = [search EXCEPT ![w].at = at, ![w].got = staged[Images!Name(w)]]
      PROVE  /\ search' \in [Workers -> SearchState] /\ \A v \in Workers \ {w} : search'[v] = search[v]
             /\ search'[w].at = at /\ search'[w].stamp = search[w].stamp /\ search'[w].hit = search[w].hit
             /\ Images!Mine(w) = <<w, search[w].hit>> /\ Images!Mine(w) \in Images!Pictures
             /\ Working(w)' /\ (~clashed /\ staged' = staged => StagedOf(w)')
  <2>1. Images!Name(w) \in Images!Names /\ Images!Mine(w) \in Images!Pictures
    BY <1>0, <1>8 DEF Working, AtWork, Images!Name, Images!Names, Images!Mine, Images!Pictures, SearchState, ImagesTypes
  <2>2. staged[Images!Name(w)] \in {<<>>} \union Images!Pictures
    BY <1>0, <2>1 DEF ImagesTypes
  <2>3. /\ search' \in [Workers -> SearchState] /\ \A v \in Workers \ {w} : search'[v] = search[v]
        /\ search'[w].at = at /\ search'[w].stamp = search[w].stamp /\ search'[w].hit = search[w].hit
        /\ search'[w].refs = search[w].refs /\ search'[w].got = staged[Images!Name(w)]
    BY <1>0, <1>8, <2>2 DEF SearchState
  <2>4. Working(w)'
    BY <2>3, <1>0, <1>8 DEF Working, AtWork
  <2>5. ~clashed => staged[Images!Name(w)] = Images!Mine(w)
    BY <1>8 DEF ImagesInv, StagedOf
  <2>6. Images!Name(w)' = Images!Name(w) /\ Images!Mine(w)' = Images!Mine(w)
    BY <2>3 DEF Images!Name, Images!Mine
  <2>7. ~clashed /\ staged' = staged => StagedOf(w)'
    BY <2>3, <2>5, <2>6 DEF StagedOf
  <2> QED BY <2>1, <2>3, <2>4, <2>7 DEF Images!Mine
<1>9. ASSUME NEW w \in Workers, Images!PutLan(w) PROVE ImagesInv'
  <2>1. PICK stored, confirmed \in BOOLEAN :
          /\ confirmed => stored
          /\ search' = [search EXCEPT ![w].at = IF confirmed THEN "registering" ELSE "cloud",
                                      ![w].got = staged[Images!Name(w)]]
          /\ lanStore' = IF stored THEN lanStore \union {Images!Mine(w)} ELSE lanStore
          /\ lanLost' = IF stored /\ ~confirmed THEN lanLost \union {Images!Mine(w)} ELSE lanLost
    BY <1>9 DEF Images!PutLan, Images!AfterLan
  <2>2. search[w].at = "lan" /\ UNCHANGED <<second, cachedAt, staged, cloudStore, imageCatalog, clashed>>
    BY <1>9 DEF Images!PutLan
  <2>3. PICK at \in {"registering", "cloud"} : /\ search' = [search EXCEPT ![w].at = at, ![w].got = staged[Images!Name(w)]]
                                               /\ at = "cloud" <=> ~confirmed
    BY <2>1
  <2>4. /\ search' \in [Workers -> SearchState] /\ \A v \in Workers \ {w} : search'[v] = search[v]
        /\ search'[w].at = at /\ search'[w].stamp = search[w].stamp /\ search'[w].hit = search[w].hit
        /\ Images!Mine(w) = <<w, search[w].hit>> /\ Images!Mine(w) \in Images!Pictures
        /\ Working(w)' /\ (~clashed => StagedOf(w)')
    BY <2>2, <2>3, <1>8
  <2>5. search[w].hit \in ImageHits /\ <<w, search[w].hit>> \notin lanStore \union cloudStore
    BY <2>2, <1>0 DEF Working, StoredOf, AtWork
  <2>6. StoredOf(w)'
    <3>1. \A h \in ImageHits : h # search[w].hit => /\ <<w, h>> \in lanStore' <=> <<w, h>> \in lanStore
                                                    /\ <<w, h>> \in cloudStore' <=> <<w, h>> \in cloudStore
      BY <2>1, <2>2, <2>4
    <3>2. ASSUME NEW h \in ImageHits, h # search[w].hit
          PROVE <<w, h>> \in lanStore' \union cloudStore' => h <= search'[w].hit
      BY <3>1, <3>2, <2>4, <1>0 DEF StoredOf
    <3>3. <<w, search[w].hit>> \notin cloudStore'
      BY <2>2, <2>5
    <3>5. search[w].hit \in Nat
      BY <2>5
    <3>6. search[w].hit <= search[w].hit
      BY <3>5
    <3>4. /\ search'[w].at \notin {"downloading", "staging", "probing", "lan"}
          /\ <<w, search[w].hit>> \in lanStore' /\ search'[w].at = "cloud" => <<w, search[w].hit>> \in lanLost'
      BY <2>1, <2>3, <2>4, <2>5
    <3> QED BY <3>2, <3>3, <3>4, <3>6, <2>4 DEF StoredOf
  <2>7. Images!OneCopy'
    BY <2>1, <2>2, <2>4, <2>5, <1>0 DEF Images!OneCopy
  <2>8. lanStore' \in {lanStore, lanStore \union {Images!Mine(w)}} /\ lanLost' \in {lanLost, lanLost \union {Images!Mine(w)}}
    BY <2>1
  <2>9. ~clashed => \A r \in imageCatalog' : r.picture = r.hit
    BY <2>2 DEF ImagesInv
  <2> QED BY <2>2, <2>4, <2>6, <2>7, <2>8, <2>9, <1>0, ImagesOfOne DEF ImagesTypes, AtWork
<1>10. ASSUME NEW w \in Workers, Images!PutCloud(w) PROVE ImagesInv'
  <2>1. search[w].at = "cloud" /\ UNCHANGED <<second, cachedAt, staged, lanStore, lanLost, imageCatalog, clashed>>
    BY <1>10 DEF Images!PutCloud
  <2>2. CASE search' = Images!Onward(w, search[w].refs) /\ UNCHANGED cloudStore
    BY <2>1, <2>2, <1>4 DEF AtWork, ImagesInv
  <2>3. CASE /\ search' = [search EXCEPT ![w].at = "registering", ![w].got = staged[Images!Name(w)]]
             /\ cloudStore' = cloudStore \union {Images!Mine(w)}
    <3>1. /\ search' \in [Workers -> SearchState] /\ \A v \in Workers \ {w} : search'[v] = search[v]
          /\ search'[w].at = "registering" /\ search'[w].stamp = search[w].stamp /\ search'[w].hit = search[w].hit
          /\ Images!Mine(w) = <<w, search[w].hit>> /\ Images!Mine(w) \in Images!Pictures
          /\ Working(w)' /\ (~clashed => StagedOf(w)')
      BY <2>1, <2>3, <1>8
    <3>2. search[w].hit \in ImageHits /\ (<<w, search[w].hit>> \in lanStore => <<w, search[w].hit>> \in lanLost)
      BY <2>1, <1>0 DEF Working, StoredOf, AtWork
    <3>3. StoredOf(w)'
      <4>1. \A h \in ImageHits : h # search[w].hit => (<<w, h>> \in cloudStore' <=> <<w, h>> \in cloudStore)
        BY <2>3, <3>1
      <4>2. ASSUME NEW h \in ImageHits, h # search[w].hit
            PROVE <<w, h>> \in lanStore' \union cloudStore' => h <= search'[w].hit
        BY <4>1, <4>2, <2>1, <3>1, <1>0 DEF StoredOf
      <4>3. search[w].hit \in Nat
        BY <3>2
      <4>4. search[w].hit <= search[w].hit
        BY <4>3
      <4> QED BY <4>2, <4>4, <3>1 DEF StoredOf
    <3>4. Images!OneCopy'
      BY <2>1, <2>3, <3>1, <3>2, <1>0 DEF Images!OneCopy
    <3>5. ~clashed => \A r \in imageCatalog' : r.picture = r.hit
      BY <2>1 DEF ImagesInv
    <3> QED BY <2>1, <2>3, <3>1, <3>3, <3>4, <3>5, <1>0, ImagesOfOne DEF ImagesTypes, AtWork
  <2> QED BY <1>10, <2>2, <2>3 DEF Images!PutCloud
<1>11. ASSUME NEW w \in Workers, Images!Register(w) PROVE ImagesInv'
  <2>1. search[w].at = "registering" /\ UNCHANGED <<second, cachedAt, staged, lanStore, cloudStore, lanLost, clashed>>
    BY <1>11 DEF Images!Register
  <2>2. PICK refs \in {search[w].refs, search[w].refs + 1} :
          /\ search' = Images!Onward(w, refs)
          /\ imageCatalog' \in {imageCatalog, imageCatalog \union {[hit |-> Images!Mine(w), picture |-> search[w].got]}}
    BY <1>11 DEF Images!Register
  <2>3. ~clashed => \A r \in imageCatalog' : r.picture = r.hit
    BY <2>1, <2>2 DEF ImagesInv, StagedOf
  <2> QED BY <2>1, <2>2, <2>3, <1>4 DEF AtWork
<1> QED BY <1>1, <1>2, <1>5, <1>6, <1>7, <1>9, <1>10, <1>11 DEF Images!Next

\* It implies the types and the properties of the picture search.
LEMMA ImagesSafe == ImagesInv => Images!TypeOK /\ Images!OneCopy /\ Images!OwnPicture
BY DEF ImagesInv, ImagesTypes, SearchState, Images!TypeOK, Images!OwnPicture, Images!Blank

-----------------------------------------------------------------------------
(* The assets.                                                             *)

Fetchers == {w \in Workers : use[w] \in {"fetching", "writing"}}

AssetsTypes ==
    /\ storage \in Assets!Storages /\ lanNow \in 1..MaxLan
    /\ use \in [Workers -> {"idle", "fetching", "writing", "reading", "ok", "failed"}]
    /\ handed \in [Workers -> [base : 0..(MaxLan + 3), lan : 0..MaxLan]]
    /\ stagingFile \in {"none", "part", "whole"} /\ remembered \in BOOLEAN
    /\ fetched \in Nat /\ exempt \in BOOLEAN /\ torn \subseteq Workers
    /\ uses \in 0..MaxUses

\* What one download at a time keeps: who reads has the whole file, and who
\* downloads it is alone with it.
OneDownload ==
    /\ torn = {} /\ fetched <= 1 /\ (fetched = 1 => remembered)
    /\ remembered => stagingFile = "whole" /\ Fetchers = {}
    /\ storage.backend # "local" => \A w \in Workers : use[w] = "reading" => remembered
    /\ \A v, w \in Fetchers : v = w

AssetsInv ==
    /\ AssetsTypes /\ Assets!UrlIsCurrent
    /\ fetched + Cardinality(Fetchers) <= uses
    /\ ~exempt => OneDownload

\* The invariant of the assets holds at the start.
LEMMA AssetsBegin == Assets!Init => AssetsInv
<1> SUFFICES ASSUME Assets!Init PROVE AssetsInv
  OBVIOUS
<1> USE AssetsAssumption DEF Assets!Init, Assets!NoUrl, Assets!None
<1>1. AssetsTypes /\ Assets!UrlIsCurrent
  <2>1. /\ handed \in [Workers -> [base : 0..(MaxLan + 3), lan : 0..MaxLan]] /\ uses \in 0..MaxUses
        /\ \A w \in Workers : handed[w].base = 0
    OBVIOUS
  <2>2. use \in [Workers -> {"idle", "fetching", "writing", "reading", "ok", "failed"}] /\ lanNow \in 1..MaxLan
    OBVIOUS
  <2> QED BY <2>1, <2>2 DEF AssetsTypes, Assets!UrlIsCurrent
<1>2. Fetchers = {} /\ Cardinality({}) = 0
  BY FS_EmptySet DEF Fetchers
<1>3. OneDownload
  BY <1>2 DEF OneDownload
<1> QED BY <1>1, <1>2, <1>3 DEF AssetsInv

\* It holds as long as none of the part's variables changes.
LEMMA AssetsStay == AssetsInv /\ UNCHANGED assetsVars => AssetsInv'
BY DEF AssetsInv, assetsVars, AssetsTypes, Assets!UrlIsCurrent, OneDownload, Fetchers

\* The address that is handed out: one outside of the house, or the present one.
LEMMA BaseIsCurrent ==
  ASSUME AssetsTypes
  PROVE  Assets!HttpBase(storage) \in {lanNow} \union (MaxLan + 1)..(MaxLan + 3)
BY AssetsAssumption DEF AssetsTypes, Assets!HttpBase, Assets!PickBase, Assets!Public, Assets!Cloud,
   Assets!Brain, Assets!None

\* Every step of the part keeps it.
LEMMA AssetsStep == AssetsInv /\ Assets!Next => AssetsInv'
<1> SUFFICES ASSUME AssetsInv, Assets!Next PROVE AssetsInv'
  OBVIOUS
<1> USE AssetsAssumption DEF Assets!History
<1>0. /\ AssetsTypes /\ Assets!UrlIsCurrent /\ fetched + Cardinality(Fetchers) <= uses
      /\ Cardinality(Fetchers) \in Nat /\ Fetchers \subseteq Workers
  <2>1. Fetchers \subseteq Workers
    BY DEF Fetchers
  <2> QED BY <2>1, WorkersCount DEF AssetsInv
<1>1. ASSUME NEW w \in Workers, Assets!HttpUrl(w) PROVE AssetsInv'
  <2> DEFINE url == [base |-> Assets!HttpBase(storage), lan |-> lanNow]
  <2>1. /\ use[w] \in {"idle", "ok", "failed"} /\ uses < MaxUses /\ uses' = uses + 1
        /\ use' = [use EXCEPT ![w] = "ok"] /\ handed' = [handed EXCEPT ![w] = url]
        /\ UNCHANGED <<storage, lanNow, stagingFile, remembered, fetched, exempt, torn>>
    BY <1>1 DEF Assets!HttpUrl, Assets!Idle, Assets!At
  <2>2. /\ url.base \in {lanNow} \union (MaxLan + 1)..(MaxLan + 3) /\ url.lan = lanNow
        /\ url \in [base : 0..(MaxLan + 3), lan : 0..MaxLan]
    BY BaseIsCurrent, <1>0 DEF AssetsTypes
  <2> HIDE DEF url
  <2>3. AssetsTypes'
    BY <2>1, <2>2, <1>0 DEF AssetsTypes
  <2>4. Assets!UrlIsCurrent'
    BY <2>1, <2>2, <1>0 DEF AssetsTypes, Assets!UrlIsCurrent
  <2>5. Fetchers' = Fetchers
    BY <2>1, <1>0 DEF Fetchers, AssetsTypes
  <2>6. \A v \in Workers : use'[v] = "reading" => use[v] = "reading"
    BY <2>1, <1>0 DEF AssetsTypes
  <2>7. ~exempt => OneDownload'
    BY <2>1, <2>5, <2>6 DEF AssetsInv, OneDownload
  <2>8. fetched' + Cardinality(Fetchers') <= uses'
    <3>1. fetched \in Nat /\ uses \in Nat
      BY <1>0 DEF AssetsTypes
    <3> QED BY <2>1, <2>5, <3>1, <1>0
  <2> QED BY <2>1, <2>3, <2>4, <2>7, <2>8 DEF AssetsInv
<1>2. ASSUME NEW w \in Workers, Assets!Materialize(w) PROVE AssetsInv'
  <2>1. /\ use[w] \in {"idle", "ok", "failed"} /\ uses < MaxUses /\ uses' = uses + 1
        /\ UNCHANGED <<storage, lanNow, handed, stagingFile, remembered, fetched, torn>>
    BY <1>2 DEF Assets!Materialize, Assets!Idle
  <2>2. fetched \in Nat /\ uses \in Nat
    BY <1>0 DEF AssetsTypes
  <2>3. CASE Assets!Known \/ storage.backend = "local"
    <3>1. use' = [use EXCEPT ![w] = "reading"] /\ UNCHANGED exempt
      BY <1>2, <2>3 DEF Assets!Materialize, Assets!At
    <3>2. AssetsTypes' /\ Assets!UrlIsCurrent'
      BY <2>1, <3>1, <1>0 DEF AssetsTypes, Assets!UrlIsCurrent
    <3>3. Fetchers' = Fetchers
      BY <2>1, <3>1, <1>0 DEF Fetchers, AssetsTypes
    <3>4. \A v \in Workers \ {w} : use'[v] = use[v]
      BY <3>1, <1>0 DEF AssetsTypes
    <3>5. storage.backend # "local" => remembered
      BY <2>3 DEF Assets!Known
    <3>6. ~exempt => OneDownload'
      BY <2>1, <3>1, <3>3, <3>4, <3>5 DEF AssetsInv, OneDownload
    <3>7. fetched' + Cardinality(Fetchers') <= uses'
      BY <2>1, <2>2, <3>3, <1>0
    <3> QED BY <3>1, <3>2, <3>6, <3>7 DEF AssetsInv
  <2>4. CASE ~(Assets!Known \/ storage.backend = "local")
    <3>1. use' = [use EXCEPT ![w] = "fetching"] /\ exempt' = (exempt \/ Fetchers # {})
      BY <1>2, <2>4 DEF Assets!Materialize, Assets!At, Assets!Fetching, Fetchers
    <3>2. AssetsTypes' /\ Assets!UrlIsCurrent'
      BY <2>1, <3>1, <1>0 DEF AssetsTypes, Assets!UrlIsCurrent
    <3>3. Fetchers' = Fetchers \union {w} /\ \A v \in Workers : use'[v] = "reading" => use[v] = "reading"
      BY <3>1, <1>0 DEF Fetchers, AssetsTypes
    <3>4. Cardinality(Fetchers') <= Cardinality(Fetchers) + 1 /\ Cardinality(Fetchers') \in Nat
      <4>1. Fetchers \union {w} \subseteq Workers
        BY <1>0
      <4> QED BY <4>1, <3>3, <1>0, WorkersCount
    <3>5. fetched' + Cardinality(Fetchers') <= uses'
      BY <2>1, <2>2, <3>4, <1>0
    <3>6. ~exempt' => OneDownload'
      <4> SUFFICES ASSUME ~exempt' PROVE OneDownload'
        OBVIOUS
      <4>1. ~exempt /\ Fetchers = {} /\ OneDownload
        BY <3>1 DEF AssetsInv
      <4>2. ~remembered
        BY <4>1, <2>4 DEF OneDownload, Assets!Known
      <4> QED BY <4>1, <4>2, <2>1, <3>3 DEF OneDownload
    <3> QED BY <3>2, <3>5, <3>6 DEF AssetsInv
  <2> QED BY <2>3, <2>4
<1>3. ASSUME NEW w \in Workers, Assets!Answers(w) PROVE AssetsInv'
  <2>1. /\ use[w] = "fetching" /\ use' = [use EXCEPT ![w] = "writing"] /\ stagingFile' = "part"
        /\ UNCHANGED <<storage, lanNow, handed, remembered, fetched, exempt, torn, uses>>
    BY <1>3 DEF Assets!Answers, Assets!At
  <2>2. AssetsTypes' /\ Assets!UrlIsCurrent'
    BY <2>1, <1>0 DEF AssetsTypes, Assets!UrlIsCurrent
  <2>3. Fetchers' = Fetchers /\ w \in Fetchers /\ \A v \in Workers : use'[v] = "reading" => use[v] = "reading"
    BY <2>1, <1>0 DEF Fetchers, AssetsTypes
  <2>4. ~exempt => OneDownload'
    BY <2>1, <2>3 DEF AssetsInv, OneDownload
  <2> QED BY <2>1, <2>2, <2>3, <2>4 DEF AssetsInv
\* A download ends: one fetcher less.
<1>4. ASSUME NEW w \in Workers, w \in Fetchers
      PROVE  Cardinality(Fetchers \ {w}) = Cardinality(Fetchers) - 1 /\ Cardinality(Fetchers \ {w}) \in Nat
  <2>1. Fetchers \ {w} \subseteq Workers
    BY <1>0
  <2> QED BY <1>4, <2>1, <1>0, WorkersCount
<1>5. ASSUME NEW w \in Workers, Assets!FetchFails(w) PROVE AssetsInv'
  <2>1. /\ use[w] = "fetching" /\ use' = [use EXCEPT ![w] = "failed"]
        /\ UNCHANGED <<storage, lanNow, handed, stagingFile, remembered, fetched, exempt, torn, uses>>
    BY <1>5 DEF Assets!FetchFails, Assets!At
  <2>2. AssetsTypes' /\ Assets!UrlIsCurrent'
    BY <2>1, <1>0 DEF AssetsTypes, Assets!UrlIsCurrent
  <2>3. Fetchers' = Fetchers \ {w} /\ w \in Fetchers /\ \A v \in Workers : use'[v] = "reading" => use[v] = "reading"
    BY <2>1, <1>0 DEF Fetchers, AssetsTypes
  <2>4. ~exempt => OneDownload'
    BY <2>1, <2>3 DEF AssetsInv, OneDownload
  <2>5. fetched \in Nat /\ uses \in Nat
    BY <1>0 DEF AssetsTypes
  <2>6. fetched' + Cardinality(Fetchers') <= uses'
    BY <2>1, <2>3, <2>5, <1>0, <1>4
  <2> QED BY <2>1, <2>2, <2>4, <2>6 DEF AssetsInv
<1>6. ASSUME NEW w \in Workers, Assets!Written(w) PROVE AssetsInv'
  <2>1. /\ use[w] = "writing" /\ use' = [use EXCEPT ![w] = "reading"] /\ stagingFile' = "whole" /\ remembered' = TRUE
        /\ fetched' = fetched + 1 /\ UNCHANGED <<storage, lanNow, handed, exempt, torn, uses>>
    BY <1>6 DEF Assets!Written, Assets!At
  <2>2. AssetsTypes' /\ Assets!UrlIsCurrent'
    BY <2>1, <1>0 DEF AssetsTypes, Assets!UrlIsCurrent
  <2>3. Fetchers' = Fetchers \ {w} /\ w \in Fetchers
    BY <2>1, <1>0 DEF Fetchers, AssetsTypes
  <2>4. ~exempt => OneDownload'
    <3> SUFFICES ASSUME ~exempt PROVE OneDownload'
      OBVIOUS
    <3>1. OneDownload /\ ~remembered /\ fetched = 0 /\ Fetchers' = {}
      BY <2>3, <1>0 DEF AssetsInv, OneDownload, AssetsTypes
    <3> QED BY <3>1, <2>1 DEF OneDownload
  <2>5. fetched \in Nat /\ uses \in Nat
    BY <1>0 DEF AssetsTypes
  <2>6. fetched' + Cardinality(Fetchers') <= uses'
    BY <2>1, <2>3, <2>5, <1>0, <1>4
  <2> QED BY <2>1, <2>2, <2>4, <2>6 DEF AssetsInv
<1>7. ASSUME NEW w \in Workers, Assets!Reads(w) PROVE AssetsInv'
  <2>1. /\ use[w] = "reading" /\ use' = [use EXCEPT ![w] = "ok"]
        /\ torn' = IF storage.backend # "local" /\ stagingFile = "part" THEN torn \union {w} ELSE torn
        /\ UNCHANGED <<storage, lanNow, handed, stagingFile, remembered, fetched, exempt, uses>>
    BY <1>7 DEF Assets!Reads, Assets!At
  <2>2. AssetsTypes' /\ Assets!UrlIsCurrent'
    BY <2>1, <1>0 DEF AssetsTypes, Assets!UrlIsCurrent
  <2>3. Fetchers' = Fetchers /\ \A v \in Workers : use'[v] = "reading" => use[v] = "reading"
    BY <2>1, <1>0 DEF Fetchers, AssetsTypes
  <2>4. ~exempt => OneDownload'
    BY <2>1, <2>3 DEF AssetsInv, OneDownload
  <2> QED BY <2>1, <2>2, <2>3, <2>4 DEF AssetsInv
<1>8. CASE Assets!Lease
  <2>1. lanNow' \in 1..MaxLan /\ UNCHANGED <<storage, use, handed, stagingFile, remembered, fetched, exempt, torn, uses>>
    BY <1>8 DEF Assets!Lease
  <2> QED BY <2>1 DEF AssetsInv, AssetsTypes, Assets!UrlIsCurrent, OneDownload, Fetchers
<1>9. CASE Assets!Sweep
  <2>1. /\ \A w \in Workers : use[w] \in {"idle", "ok", "failed"}
        /\ stagingFile' = "none" /\ fetched' = 0 /\ exempt' = (exempt \/ remembered)
        /\ UNCHANGED <<storage, lanNow, use, handed, remembered, torn, uses>>
    BY <1>9 DEF Assets!Sweep
  <2>2. Fetchers' = {} /\ Cardinality({}) = 0
    BY <2>1, FS_EmptySet DEF Fetchers
  <2>3. AssetsTypes' /\ Assets!UrlIsCurrent'
    BY <2>1, <1>0 DEF AssetsTypes, Assets!UrlIsCurrent
  <2>4. ~exempt' => OneDownload'
    <3> SUFFICES ASSUME ~exempt' PROVE OneDownload'
      OBVIOUS
    <3>1. torn = {} /\ ~remembered
      BY <2>1 DEF AssetsInv, OneDownload
    <3>2. \A w \in Workers : use'[w] # "reading"
      BY <2>1
    <3> QED BY <3>1, <3>2, <2>1, <2>2 DEF OneDownload
  <2> QED BY <2>1, <2>2, <2>3, <2>4, <1>0 DEF AssetsInv, AssetsTypes
<1>10. CASE Assets!Restart
  <2>1. /\ use' = [w \in Workers |-> "idle"] /\ remembered' = FALSE /\ fetched' = 0
        /\ UNCHANGED <<storage, lanNow, handed, stagingFile, exempt, torn, uses>>
    BY <1>10 DEF Assets!Restart
  <2>2. Fetchers' = {} /\ Cardinality({}) = 0
    BY <2>1, FS_EmptySet DEF Fetchers
  <2>3. AssetsTypes' /\ Assets!UrlIsCurrent'
    BY <2>1, <1>0 DEF AssetsTypes, Assets!UrlIsCurrent
  <2>4. ~exempt' => OneDownload'
    BY <2>1, <2>2 DEF AssetsInv, OneDownload
  <2> QED BY <2>1, <2>2, <2>3, <2>4, <1>0 DEF AssetsInv, AssetsTypes
<1> QED BY <1>1, <1>2, <1>3, <1>5, <1>6, <1>7, <1>8, <1>9, <1>10 DEF Assets!Next

\* It implies the types and the properties of the assets.
LEMMA AssetsSafe == AssetsInv => Assets!TypeOK /\ Assets!UrlIsCurrent /\ Assets!FetchedOnce
<1> SUFFICES ASSUME AssetsInv PROVE Assets!TypeOK /\ Assets!UrlIsCurrent /\ Assets!FetchedOnce
  OBVIOUS
<1>1. Fetchers \subseteq Workers
  BY DEF Fetchers
<1>2. fetched \in 0..MaxUses
  <2>1. Cardinality(Fetchers) \in Nat /\ fetched \in Nat /\ uses \in 0..MaxUses /\ fetched + Cardinality(Fetchers) <= uses
    BY <1>1, WorkersCount DEF AssetsInv, AssetsTypes
  <2> QED BY <2>1, AssetsAssumption
<1>3. Assets!TypeOK
  BY <1>2 DEF AssetsInv, AssetsTypes, Assets!TypeOK, Assets!Brain
<1> QED BY <1>3 DEF AssetsInv, Assets!FetchedOnce, OneDownload

-----------------------------------------------------------------------------
(* The printer.                                                            *)

PrintState == [at : {"idle", "checking", "lp", "ipp", "ok", "failed"},
               queue : {Printer!NoQueue} \union Queues]

\* How many jobs a step has made at each point of it.
JobsSoFar(w) ==
    /\ jobs[w] \in 0..2
    /\ print[w].at \in {"checking", "lp"} => jobs[w] = 0 /\ w \notin unclear
    /\ print[w].at = "ipp" => jobs[w] = (IF w \in unclear THEN 1 ELSE 0)
    /\ jobs[w] > 1 => w \in unclear
    /\ print[w].at = "ok" => jobs[w] >= 1

PrinterInv ==
    /\ accepting \subseteq Queues /\ unclear \subseteq Workers
    /\ print \in [Workers -> PrintState] /\ jobs \in [Workers -> Nat]
    /\ \A w \in Workers : JobsSoFar(w)

\* The queue a step chooses is a queue.
LEMMA NamedQueue ==
  ASSUME NEW wish \in Queues \union {Printer!NoQueue}, accepting \subseteq Queues
  PROVE  Printer!Named(wish) \in {Printer!NoQueue} \union Queues
<1> DEFINE S == accepting \intersect Matching
<1>1. CASE S # {}
  <2>1. \E x \in S : \A y \in S : x <= y
    BY <1>1, LeastNat, PrinterAssumption
  <2>2. Printer!First(S) \in S
    BY <2>1 DEF Printer!First
  <2> QED BY <2>2 DEF Printer!Named
<1>2. CASE S = {}
  BY <1>2 DEF Printer!Named
<1> QED BY <1>1, <1>2

\* The invariant of the printer holds at the start.
LEMMA PrinterBegins == Printer!Init => PrinterInv
BY DEF Printer!Init, PrinterInv, JobsSoFar, PrintState, Printer!Idle, Printer!NoQueue

\* It holds as long as none of the part's variables changes.
LEMMA PrinterStays == PrinterInv /\ UNCHANGED printerVars => PrinterInv'
BY DEF PrinterInv, JobsSoFar, PrintState, printerVars, Printer!NoQueue

\* Every step of the part keeps it.
LEMMA PrinterStep == PrinterInv /\ Printer!Next => PrinterInv'
<1> SUFFICES ASSUME PrinterInv, Printer!Next PROVE PrinterInv'
  OBVIOUS
<1> USE DEF PrinterInv, JobsSoFar, PrintState
<1>1. ASSUME NEW w \in Workers, NEW wish \in Queues \union {Printer!NoQueue}, Printer!Begin(w, wish)
      PROVE  PrinterInv'
  <2>1. Printer!Named(wish) \in {Printer!NoQueue} \union Queues
    BY NamedQueue
  <2> QED BY <1>1, <2>1 DEF Printer!Begin
<1>2. ASSUME NEW w \in Workers, Printer!Check(w) PROVE PrinterInv'
  <2> DEFINE at == IF print[w].queue \notin accepting THEN "failed" ELSE IF hasLp THEN "lp" ELSE "ipp"
  <2>1. /\ print[w].at = "checking" /\ print' = [print EXCEPT ![w].at = at]
        /\ UNCHANGED <<accepting, jobs, unclear>>
    BY <1>2 DEF Printer!Check, Printer!At
  <2>2. at \in {"failed", "lp", "ipp"}
    OBVIOUS
  <2> HIDE DEF at
  <2> QED BY <2>1, <2>2
<1>3. ASSUME NEW w \in Workers, Printer!Lp(w) PROVE PrinterInv'
  <2>1. PICK created, id \in BOOLEAN :
          /\ id => created
          /\ print' = [print EXCEPT ![w].at = IF id THEN "ok" ELSE "ipp"]
          /\ jobs' = [jobs EXCEPT ![w] = @ + (IF created THEN 1 ELSE 0)]
          /\ unclear' = IF created /\ ~id THEN unclear \union {w} ELSE unclear
    BY <1>3 DEF Printer!Lp, Printer!At, Printer!AfterLp
  <2>2. print[w].at = "lp" /\ UNCHANGED accepting
    BY <1>3 DEF Printer!Lp
  <2>3. CASE id
    BY <2>1, <2>2, <2>3
  <2>4. CASE ~id
    BY <2>1, <2>2, <2>4
  <2> QED BY <2>3, <2>4
<1>4. ASSUME NEW w \in Workers, Printer!Ipp(w) PROVE PrinterInv'
  BY <1>4 DEF Printer!Ipp, Printer!At
<1>5. CASE Printer!Outage
  BY <1>5 DEF Printer!Outage
<1> QED BY <1>1, <1>2, <1>3, <1>4, <1>5 DEF Printer!Next

\* It implies the types and the properties of the printer.
LEMMA PrinterSafe == PrinterInv => Printer!TypeOK /\ Printer!PrintedOnce
BY DEF PrinterInv, JobsSoFar, PrintState, Printer!TypeOK, Printer!PrintedOnce

-----------------------------------------------------------------------------
(* The ping monitor.                                                       *)

PingsInv == Pings!TypeOK /\ Pings!QuietAfterStop

\* The hosts can be counted.
LEMMA PingsCount == Pings!Cardinality(Hosts) \in Nat
<1>1. Pings!Cardinality(Hosts) = Cardinality(Hosts)
  BY DEF Pings!Cardinality, Cardinality
<1> QED BY <1>1, FS_CardinalityType, PingAssumption

\* The invariant of the pings holds at the start.
LEMMA PingsBegin == Pings!Init => PingsInv
<1>1. Pings!Cardinality(Hosts) \in Nat
  BY PingsCount
<1> SUFFICES ASSUME Pings!Init PROVE PingsInv
  OBVIOUS
<1> USE DEF Pings!Init
<1>2. up \subseteq Hosts /\ age \in 0..Renew /\ latePings \in 0..Pings!Cardinality(Hosts) /\ latePings = 0
  BY <1>1, PingAssumption
<1>3. pingMode \in {"lan", "gateway", "targets"}
  OBVIOUS
<1>4. todo \subseteq Hosts \union Targets /\ peers \subseteq Hosts /\ heard \subseteq Hosts
  OBVIOUS
<1>5. thread \in {"none", "searching", "round", "pinging"} /\ stopping \in BOOLEAN
  OBVIOUS
<1> QED BY <1>2, <1>3, <1>4, <1>5 DEF PingsInv, Pings!TypeOK, Pings!QuietAfterStop

\* It holds as long as none of the part's variables changes.
LEMMA PingsStay == PingsInv /\ UNCHANGED pingsVars => PingsInv'
BY DEF PingsInv, pingsVars, Pings!TypeOK, Pings!QuietAfterStop

\* Every step of the part keeps it.
LEMMA PingsStep == PingsInv /\ Pings!Next => PingsInv'
<1>1. Pings!Cardinality(Hosts) \in Nat
  BY PingsCount
<1> SUFFICES ASSUME PingsInv, Pings!Next PROVE PingsInv'
  OBVIOUS
<1> USE <1>1, PingAssumption DEF PingsInv, Pings!TypeOK, Pings!QuietAfterStop, Pings!LateMore
<1>2. CASE Pings!Start
  BY <1>2 DEF Pings!Start
<1>3. CASE Pings!Stop
  BY <1>3 DEF Pings!Stop
<1>4. CASE Pings!SearchPing
  BY <1>4 DEF Pings!SearchPing, Pings!SearchOn
<1>5. CASE Pings!SearchDone
  BY <1>5 DEF Pings!SearchDone
<1>6. CASE Pings!RoundBegins
  BY <1>6 DEF Pings!RoundBegins, Pings!Current
<1>7. CASE Pings!RoundPing
  BY <1>7 DEF Pings!RoundPing
<1>8. CASE Pings!RoundDone
  BY <1>8 DEF Pings!RoundDone
<1>9. CASE Pings!Comes
  BY <1>9 DEF Pings!Comes
<1> QED BY <1>2, <1>3, <1>4, <1>5, <1>6, <1>7, <1>8, <1>9 DEF Pings!Next

-----------------------------------------------------------------------------
(* The account of Xiaomi.                                                  *)

XiaomiState == [at : {"rest", "connecting", "listing", "writing", "feeding", "looking", "ok", "failed"},
                cloud : Nat, ask : Xiaomi!Asks \union {Xiaomi!Rest.ask}]

\* What a worker's step has written and fed at each point of it.
DoneSoFar(w) ==
    LET x == xiaomi[w]
        wrote == IF x.ask.set THEN 1 ELSE 0
        fedIt == IF x.ask.feed THEN 1 ELSE 0
    IN /\ written[w] \in 0..wrote /\ fed[w] \in 0..fedIt
       /\ x.at = "rest" => x.ask = Xiaomi!Rest.ask
       /\ x.at # "rest" => x.ask \in Xiaomi!Asks /\ xiaomiSteps >= 1
       /\ x.at \in {"rest", "connecting", "ok", "failed"} => x.cloud = 0
       /\ x.at \in {"connecting", "listing", "writing"} => written[w] = 0 /\ fed[w] = 0
       /\ x.at = "writing" => x.ask.set
       /\ x.at = "feeding" => x.ask.feed /\ fed[w] = 0 /\ written[w] = wrote
       /\ x.at \in {"looking", "ok"} => written[w] = wrote /\ fed[w] = fedIt

\* Who is about to log in because no session is shared, and who holds a cloud of
\* its own whose token is gone.
Connecting == {w \in Workers : xiaomi[w].at = "connecting"}
Adrift == {w \in Workers : xiaomi[w].cloud \notin tokens \union {0, shared}}

\* The log-ins that may come before another refusal.
Due == (IF shared \in tokens THEN Cardinality(Connecting) ELSE Cardinality(Workers)) + Cardinality(Adrift)

XiaomiTypes ==
    /\ xiaomi \in [Workers -> XiaomiState]
    /\ logins \in Nat /\ shared \in 0..logins /\ tokens \subseteq 1..logins
    /\ \A w \in Workers : xiaomi[w].cloud \in 0..logins
    /\ written \in [Workers -> Nat] /\ fed \in [Workers -> Nat]
    /\ xiaomiSteps \in 0..MaxXiaomiSteps /\ refusals \in Nat

XiaomiInv ==
    /\ XiaomiTypes
    /\ \A w \in Workers : DoneSoFar(w)
    /\ logins + Due <= (1 + refusals) * Cardinality(Workers)

\* The invariant of the account holds at the start.
LEMMA XiaomiBegins == Xiaomi!Init => XiaomiInv
<1> SUFFICES ASSUME Xiaomi!Init PROVE XiaomiInv
  OBVIOUS
<1> USE DEF Xiaomi!Init, Xiaomi!NoCloud
<1>1. XiaomiTypes
  <2>1. xiaomi \in [Workers -> XiaomiState]
    BY DEF XiaomiState, Xiaomi!Rest
  <2>2. \A w \in Workers : xiaomi[w].cloud \in 0..logins
    BY DEF Xiaomi!Rest
  <2> QED BY <2>1, <2>2, XiaomiAssumption DEF XiaomiTypes
<1>4. \A w \in Workers : DoneSoFar(w)
  <2> SUFFICES ASSUME NEW w \in Workers PROVE DoneSoFar(w)
    OBVIOUS
  <2>1. xiaomi[w] = Xiaomi!Rest /\ written[w] = 0 /\ fed[w] = 0
    OBVIOUS
  <2>2. /\ Xiaomi!Rest.at = "rest" /\ Xiaomi!Rest.cloud = 0
        /\ ~Xiaomi!Rest.ask.set /\ ~Xiaomi!Rest.ask.feed
    BY DEF Xiaomi!Rest
  <2> QED BY <2>1, <2>2 DEF DoneSoFar
<1>2. Adrift = {} /\ Cardinality({}) = 0
  BY FS_EmptySet DEF Adrift, Xiaomi!Rest
<1>3. Cardinality(Workers) \in Nat
  BY FS_CardinalityType, WorkersAssumption
<1> QED BY <1>1, <1>2, <1>3, <1>4 DEF XiaomiInv, Due

\* It holds as long as none of the part's variables changes.
LEMMA XiaomiStays == XiaomiInv /\ UNCHANGED xiaomiVars => XiaomiInv'
BY DEF XiaomiInv, xiaomiVars, XiaomiTypes, DoneSoFar, Due, Connecting, Adrift

\* What each operation leaves of the log-ins that may come.
LEMMA DueBounds ==
  ASSUME XiaomiTypes
  PROVE  Due \in Nat
<1>1. Connecting \subseteq Workers /\ Adrift \subseteq Workers
  BY DEF Connecting, Adrift
<1> QED BY <1>1, WorkersCount DEF Due

\* As long as the session stays, no more log-ins become due.
LEMMA DueKept ==
  ASSUME XiaomiTypes, XiaomiTypes', UNCHANGED <<shared, tokens>>,
         Connecting' \subseteq Connecting \/ shared \notin tokens, Adrift' \subseteq Adrift
  PROVE  Due' <= Due
<1>1. Connecting \subseteq Workers /\ Adrift \subseteq Workers
  BY DEF Connecting, Adrift
<1>2. Cardinality(Adrift') <= Cardinality(Adrift) /\ Cardinality(Adrift) \in Nat /\ Cardinality(Adrift') \in Nat
  BY <1>1, WorkersCount
<1>3. /\ Cardinality(Workers) \in Nat
      /\ shared \in tokens => /\ Cardinality(Connecting') <= Cardinality(Connecting)
                              /\ Cardinality(Connecting) \in Nat /\ Cardinality(Connecting') \in Nat
  BY <1>1, WorkersCount
<1> QED BY <1>2, <1>3 DEF Due

\* What has come and may still come is paid for, if the price grows with it.
LEMMA StillPaid ==
  ASSUME NEW l \in Nat, NEW d \in Nat, NEW k \in Nat, NEW e \in Nat, NEW n \in Nat, NEW m \in Nat
  PROVE  l + d <= m /\ k + e <= l + d + n => k + e <= m + n
OBVIOUS

\* And if neither grows.
LEMMA StillPaidSame ==
  ASSUME NEW l \in Nat, NEW d \in Nat, NEW k \in Nat, NEW e \in Nat, NEW m \in Nat
  PROVE  l + d <= m /\ k + e <= l + d => k + e <= m
OBVIOUS

\* What does not grow is not above what it was, and something more.
LEMMA NoMoreThan ==
  ASSUME NEW l \in Nat, NEW d \in Nat, NEW e \in Nat, NEW n \in Nat
  PROVE  e <= d => l + e <= l + d + n
OBVIOUS

\* What is owed only shrinks, and the total with it.
LEMMA NoMoreAgain ==
  ASSUME NEW l \in Nat, NEW d \in Nat, NEW e \in Nat
  PROVE  e <= d => l + e <= l + d
OBVIOUS

\* Every step of the part keeps it.
LEMMA XiaomiStep == XiaomiInv /\ Xiaomi!Next => XiaomiInv'
<1> DEFINE N == Cardinality(Workers)
<1> SUFFICES ASSUME XiaomiInv, NEW w \in Workers,
                    \/ \E ask \in Xiaomi!Asks : Xiaomi!BeginStep(w, ask)
                    \/ Xiaomi!LogsIn(w) \/ Xiaomi!LogsInAgain(w) \/ Xiaomi!Answered(w)
                    \/ Xiaomi!Refused(w) \/ Xiaomi!CallErrs(w) \/ Xiaomi!AnswerLost(w)
             PROVE  XiaomiInv'
  BY DEF Xiaomi!Next
<1> USE DEF Xiaomi!NoCloud
<1>0. /\ XiaomiTypes /\ (\A v \in Workers : DoneSoFar(v)) /\ logins + Due <= (1 + refusals) * N
      /\ Connecting \subseteq Workers /\ Adrift \subseteq Workers
      /\ N \in Nat /\ N >= 1 /\ Due \in Nat /\ logins \in Nat /\ refusals \in Nat
      /\ Cardinality(Connecting) \in Nat /\ Cardinality(Adrift) \in Nat
  <2>1. Connecting \subseteq Workers /\ Adrift \subseteq Workers
    BY DEF Connecting, Adrift
  <2>2. Cardinality(Workers \ {w}) = N - 1 /\ Cardinality(Workers \ {w}) \in Nat /\ N \in Nat
    BY WorkersCount
  <2> QED BY <2>1, <2>2, DueBounds, WorkersCount DEF XiaomiInv, XiaomiTypes
<1>d. Due' \in Nat /\ Connecting' \subseteq Workers /\ Adrift' \subseteq Workers
  <2>1. Connecting' \subseteq Workers /\ Adrift' \subseteq Workers
    BY DEF Connecting, Adrift
  <2> QED BY <2>1, WorkersCount DEF Due
<1>a. \A r \in Nat : (1 + (r + 1)) * N = (1 + r) * N + N /\ (1 + r) * N \in Nat
  BY <1>0
<1> HIDE DEF N
<1>e. xiaomiSteps \in Nat
  BY <1>0 DEF XiaomiTypes
<1>f. Due \in Nat /\ logins \in Nat /\ N \in Nat /\ refusals \in Nat
  BY <1>0
\* What a step of w leaves to be shown of it.
<1>b. ASSUME XiaomiTypes', DoneSoFar(w)', \A v \in Workers \ {w} : xiaomi'[v] = xiaomi[v] /\ written'[v] = written[v] /\ fed'[v] = fed[v],
             xiaomiSteps' >= xiaomiSteps,
             \/ refusals' = refusals /\ logins' + Due' <= logins + Due
             \/ refusals' = refusals + 1 /\ logins' + Due' <= logins + Due + N
      PROVE  XiaomiInv'
  <2>1. ASSUME NEW v \in Workers \ {w} PROVE DoneSoFar(v)'
    BY <2>1, <1>0, <1>b DEF DoneSoFar, XiaomiTypes
  <2>2. \A v \in Workers : DoneSoFar(v)'
    BY <2>1, <1>b
  <2> DEFINE most == (1 + refusals) * N
             most2 == (1 + refusals') * N
  <2>3. /\ refusals' = refusals => most2 = most
        /\ refusals' = refusals + 1 => most2 = most + N
        /\ most \in Nat /\ logins + Due <= most
    BY <1>a, <1>0
  <2>4. Due' \in Nat /\ logins' \in Nat
    BY <1>d, <1>b DEF XiaomiTypes
  <2> HIDE DEF most, most2
  <2>5. logins' + Due' <= most2
    <3>0. most \in Nat /\ logins + Due <= most
      BY <2>3
    <3>1. CASE refusals' = refusals /\ logins' + Due' <= logins + Due
      <4>1. most2 = most
        BY <3>1, <2>3
      <4>2. logins' + Due' <= logins + Due
        BY <3>1
      <4>3. logins' \in Nat /\ Due' \in Nat /\ logins \in Nat /\ Due \in Nat
        BY <2>4, <1>f
      <4>4. logins' + Due' <= most
        BY <4>2, <4>3, <3>0, StillPaidSame, Zenon
      <4> QED BY <4>1, <4>4
    <3>2. CASE refusals' = refusals + 1 /\ logins' + Due' <= logins + Due + N
      <4>1. most2 = most + N
        BY <3>2, <2>3
      <4>2. logins' + Due' <= logins + Due + N
        BY <3>2
      <4>3. logins' \in Nat /\ Due' \in Nat /\ logins \in Nat /\ Due \in Nat /\ N \in Nat
        BY <2>4, <1>f
      <4>4. logins' + Due' <= most + N
        BY <4>2, <4>3, <3>0, StillPaid, Zenon
      <4> QED BY <4>1, <4>4
    <3> QED BY <3>1, <3>2, <1>b
  <2>6. logins' + Due' <= (1 + refusals') * N
    BY <2>5 DEF most2
  <2> QED BY <1>b, <2>2, <2>6 DEF XiaomiInv, N
<1>1. ASSUME NEW ask \in Xiaomi!Asks, Xiaomi!BeginStep(w, ask) PROVE XiaomiInv'
  <2> DEFINE at == IF Xiaomi!Usable = 0 THEN "connecting" ELSE "listing"
  <2>1. /\ xiaomi' = [xiaomi EXCEPT ![w] = [at |-> at, cloud |-> Xiaomi!Usable, ask |-> ask]]
        /\ written' = [written EXCEPT ![w] = 0] /\ fed' = [fed EXCEPT ![w] = 0]
        /\ xiaomiSteps < MaxXiaomiSteps /\ xiaomiSteps' = xiaomiSteps + 1
        /\ UNCHANGED <<shared, tokens, logins, refusals>> /\ xiaomi[w].at \in {"rest", "ok", "failed"}
    BY <1>1 DEF Xiaomi!BeginStep
  <2>2. /\ at \in {"connecting", "listing"} /\ Xiaomi!Usable \in 0..logins
        /\ at = "connecting" => shared \notin tokens /\ Xiaomi!Usable = 0
        /\ Xiaomi!Usable \in tokens \union {0, shared}
    BY <1>0 DEF Xiaomi!Usable, XiaomiTypes
  <2> HIDE DEF at
  <2>3. /\ xiaomi'[w] = [at |-> at, cloud |-> Xiaomi!Usable, ask |-> ask]
        /\ written'[w] = 0 /\ fed'[w] = 0
        /\ \A v \in Workers \ {w} : xiaomi'[v] = xiaomi[v] /\ written'[v] = written[v] /\ fed'[v] = fed[v]
    BY <2>1, <1>0 DEF XiaomiTypes
  <2>4. XiaomiTypes'
    <3>1. xiaomi' \in [Workers -> XiaomiState]
      BY <2>1, <2>2, <1>0 DEF XiaomiTypes, XiaomiState
    <3>2. \A v \in Workers : xiaomi'[v].cloud \in 0..logins
      BY <2>2, <2>3, <1>0 DEF XiaomiTypes
    <3>3. xiaomiSteps' \in 0..MaxXiaomiSteps
      BY <2>1, XiaomiAssumption, <1>0 DEF XiaomiTypes
    <3>4. written' \in [Workers -> Nat] /\ fed' \in [Workers -> Nat]
      BY <2>1, <1>0 DEF XiaomiTypes
    <3> QED BY <2>1, <3>1, <3>2, <3>3, <3>4, <1>0 DEF XiaomiTypes
  <2>5. DoneSoFar(w)'
    BY <2>1, <2>2, <2>3, <1>0 DEF DoneSoFar, XiaomiTypes, Xiaomi!Asks
  <2>6. Connecting' \subseteq Connecting \/ shared \notin tokens
    BY <2>2, <2>3 DEF Connecting
  <2>7. Adrift' \subseteq Adrift
    BY <2>1, <2>2, <2>3 DEF Adrift
  <2>8. Due' <= Due
    BY <2>1, <2>4, <2>6, <2>7, <1>0, DueKept
  <2>9. xiaomiSteps' >= xiaomiSteps
    BY <2>1, <1>0 DEF XiaomiTypes
  <2>10. logins' + Due' <= logins + Due /\ refusals' = refusals
    <3>1. logins' = logins /\ refusals' = refusals
      BY <2>1
    <3>2. Due' \in Nat
      BY <1>d
    <3>3. logins + Due' <= logins + Due
      BY <3>2, <2>8, <1>f, SumsGrow, Zenon
    <3> QED BY <3>1, <3>3
  <2> QED BY <1>b, <2>10, <2>3, <2>4, <2>5, <2>9
<1>2. ASSUME Xiaomi!LogsIn(w) PROVE XiaomiInv'
  <2>1. /\ xiaomi' = [xiaomi EXCEPT ![w].at = "listing", ![w].cloud = logins + 1]
        /\ logins' = logins + 1 /\ shared' = logins + 1 /\ tokens' = tokens \union {logins + 1}
        /\ UNCHANGED <<written, fed, xiaomiSteps, refusals>> /\ xiaomi[w].at = "connecting"
    BY <1>2 DEF Xiaomi!LogsIn
  <2>2. /\ xiaomi'[w].at = "listing" /\ xiaomi'[w].cloud = logins + 1 /\ xiaomi'[w].ask = xiaomi[w].ask
        /\ \A v \in Workers \ {w} : xiaomi'[v] = xiaomi[v]
        /\ xiaomi' \in [Workers -> XiaomiState]
    BY <2>1, <1>0 DEF XiaomiTypes, XiaomiState
  <2>3. XiaomiTypes'
    <3>1. \A v \in Workers : xiaomi'[v].cloud \in 0..logins'
      BY <2>1, <2>2, <1>0 DEF XiaomiTypes
    <3> QED BY <2>1, <2>2, <3>1, <1>0 DEF XiaomiTypes
  <2>4. DoneSoFar(w)'
    BY <2>1, <2>2, <1>0 DEF DoneSoFar
  <2>5. Connecting' = Connecting \ {w} /\ w \in Connecting /\ shared' \in tokens'
    BY <2>1, <2>2 DEF Connecting
  <2>6. xiaomi[w].cloud = 0 /\ \A v \in Workers : xiaomi[v].cloud \in 0..logins
    BY <2>1, <1>0 DEF DoneSoFar, XiaomiTypes, XiaomiState
  <2>7. CASE shared \in tokens
    <3>1. Adrift' \subseteq Adrift
      BY <2>1, <2>2, <2>7 DEF Adrift
    <3>2. Cardinality(Connecting') = Cardinality(Connecting) - 1 /\ Cardinality(Adrift') <= Cardinality(Adrift)
      BY <3>1, <2>5, <1>0, WorkersCount
    <3>3. Cardinality(Adrift') \in Nat
      BY <3>1, <1>0, WorkersCount
    <3>4. Due' <= Due - 1 /\ Due' \in Int
      BY <3>2, <3>3, <2>5, <2>7, <1>0 DEF Due
    <3> QED BY <3>4, <1>b, <2>1, <2>2, <2>3, <2>4, <1>d, <1>e, <1>f
  <2>8. CASE shared \notin tokens
    <3> DEFINE Holders == {v \in Workers : xiaomi[v].cloud = shared /\ shared # 0}
    <3>1. Adrift' \subseteq Adrift \union Holders /\ Holders \subseteq Workers
      BY <2>1, <2>2 DEF Adrift
    <3>2. Holders \intersect Connecting' = {} /\ Connecting' \union Holders \subseteq Workers \ {w}
      BY <2>5, <2>6, <1>0 DEF Connecting, DoneSoFar
    <3> HIDE DEF Holders
    <3>3. Cardinality(Adrift') <= Cardinality(Adrift \union Holders) /\ Cardinality(Adrift') \in Nat
      <4>1. Adrift \union Holders \subseteq Workers
        BY <3>1, <1>0
      <4> QED BY <4>1, <3>1, WorkersCount
    <3>4. Cardinality(Adrift \union Holders) <= Cardinality(Adrift) + Cardinality(Holders) /\ Cardinality(Holders) \in Nat
      <4>1. Adrift \union Holders \subseteq Workers
        BY <3>1, <1>0
      <4> QED BY <4>1, <3>1, <1>0, WorkersCount
    <3>5. Cardinality(Connecting' \union Holders) = Cardinality(Connecting') + Cardinality(Holders)
      <4>1. Connecting' \subseteq Workers /\ Holders \intersect Connecting' = {}
        BY <3>2
      <4> QED BY <4>1, <3>1, WorkersCount
    <3>6. Cardinality(Connecting' \union Holders) <= N - 1
      <4>1. Cardinality(Workers \ {w}) = N - 1
        BY WorkersCount DEF N
      <4> QED BY <4>1, <3>2, WorkersCount
    <3>7. Cardinality(Connecting') \in Nat /\ Cardinality(Adrift \union Holders) \in Nat /\ Cardinality(Connecting' \union Holders) \in Nat
      BY <3>1, <3>2, <1>0, WorkersCount
    <3>8. Due' <= Due - 1 /\ Due' \in Int
      BY <3>3, <3>4, <3>5, <3>6, <3>7, <2>5, <2>8, <1>0 DEF Due, N
    <3> QED BY <3>8, <1>b, <2>1, <2>2, <2>3, <2>4, <1>d, <1>e, <1>f
  <2> QED BY <2>7, <2>8
<1>3. ASSUME Xiaomi!LogsInAgain(w) PROVE XiaomiInv'
  <2>1. /\ logins' = logins + 1 /\ tokens' = tokens \union {xiaomi[w].cloud}
        /\ xiaomi[w].cloud # 0 /\ xiaomi[w].cloud \notin tokens
        /\ UNCHANGED <<xiaomi, shared, written, fed, xiaomiSteps, refusals>>
    BY <1>3 DEF Xiaomi!LogsInAgain
  <2>2. XiaomiTypes' /\ DoneSoFar(w)'
    <3>1. \A v \in Workers : xiaomi'[v].cloud \in 0..logins'
      BY <2>1, <1>0 DEF XiaomiTypes
    <3>2. xiaomi[w].cloud \in 1..logins'
      BY <2>1, <1>0 DEF XiaomiTypes
    <3>3. tokens' \subseteq 1..logins' /\ shared' \in 0..logins' /\ logins' \in Nat
      <4>1. logins \in Nat /\ logins' = logins + 1 /\ tokens \subseteq 1..logins /\ shared' = shared /\ shared \in 0..logins
        BY <2>1, <1>0 DEF XiaomiTypes
      <4>2. tokens \subseteq 1..logins' /\ shared' \in 0..logins' /\ logins' \in Nat
        BY <4>1
      <4> QED BY <2>1, <3>2, <4>2
    <3>4. XiaomiTypes'
      BY <2>1, <3>1, <3>3, <1>0 DEF XiaomiTypes
    <3>5. DoneSoFar(w)'
      BY <2>1, <1>0 DEF DoneSoFar
    <3> QED BY <3>4, <3>5
  <2>3. Connecting' = Connecting /\ Connecting \subseteq Workers \ {w} /\ Adrift' \subseteq Adrift
    BY <2>1, <1>0 DEF Connecting, Adrift, DoneSoFar
  <2>4. Cardinality(Adrift') <= Cardinality(Adrift) /\ Cardinality(Adrift') \in Nat
    BY <2>3, <1>0, WorkersCount
  <2>5. Cardinality(Connecting) <= N - 1
    <3>1. Cardinality(Workers \ {w}) = N - 1
      BY WorkersCount DEF N
    <3> QED BY <3>1, <2>3, WorkersCount
  <2>6. CASE xiaomi[w].cloud = shared
    <3>1. shared \notin tokens /\ shared' \in tokens'
      BY <2>1, <2>6
    <3>2. Due' <= Due - 1 /\ Due' \in Int
      BY <3>1, <2>3, <2>4, <2>5, <1>0 DEF Due, N
    <3>7. logins' + Due' <= logins + Due /\ refusals' = refusals
      BY <2>1, <3>2, <1>d, <1>f
    <3>8. \A v \in Workers \ {w} : xiaomi'[v] = xiaomi[v] /\ written'[v] = written[v] /\ fed'[v] = fed[v]
      BY <2>1
    <3>9. xiaomiSteps' >= xiaomiSteps
      BY <2>1, <1>e
    <3> QED BY <1>b, <3>7, <3>8, <3>9, <2>2
  <2>7. CASE xiaomi[w].cloud # shared
    <3>1. Adrift' \subseteq Adrift \ {w} /\ w \in Adrift /\ (shared' \in tokens' <=> shared \in tokens)
      BY <2>1, <2>7 DEF Adrift
    <3>2. Cardinality(Adrift') <= Cardinality(Adrift) - 1
      <4>1. Cardinality(Adrift \ {w}) = Cardinality(Adrift) - 1 /\ Adrift \ {w} \subseteq Workers
        BY <3>1, <1>0, WorkersCount
      <4> QED BY <4>1, <3>1, <2>4, WorkersCount
    <3>3. Due' <= Due - 1 /\ Due' \in Int
      BY <3>1, <3>2, <2>3, <2>4, <1>0 DEF Due, N
    <3>7. logins' + Due' <= logins + Due /\ refusals' = refusals
      BY <2>1, <3>3, <1>d, <1>f
    <3>8. \A v \in Workers \ {w} : xiaomi'[v] = xiaomi[v] /\ written'[v] = written[v] /\ fed'[v] = fed[v]
      BY <2>1
    <3>9. xiaomiSteps' >= xiaomiSteps
      BY <2>1, <1>e
    <3> QED BY <1>b, <3>7, <3>8, <3>9, <2>2
  <2> QED BY <2>6, <2>7
\* A call that is answered, or fails without the token going.
<1>4. ASSUME NEW at \in {"writing", "feeding", "looking", "ok", "failed"}, NEW cloud \in {0, xiaomi[w].cloud},
             xiaomi'[w] = [at |-> at, cloud |-> cloud, ask |-> xiaomi[w].ask],
             xiaomi' \in [Workers -> XiaomiState], \A v \in Workers \ {w} : xiaomi'[v] = xiaomi[v],
             written' \in [Workers -> Nat], fed' \in [Workers -> Nat], DoneSoFar(w)',
             \A v \in Workers \ {w} : written'[v] = written[v] /\ fed'[v] = fed[v],
             UNCHANGED <<shared, tokens, logins, xiaomiSteps>>, refusals' \in {refusals, refusals + 1}
      PROVE  XiaomiInv'
  <2>1. XiaomiTypes'
    BY <1>4, <1>0 DEF XiaomiTypes
  <2>2. Connecting' \subseteq Connecting /\ Adrift' \subseteq Adrift
    BY <1>4 DEF Connecting, Adrift
  <2>3. Due' <= Due
    BY <2>1, <2>2, <1>4, <1>0, DueKept
  <2>4. xiaomiSteps' >= xiaomiSteps
    BY <1>4, <1>e
  <2>5. logins' = logins /\ Due' \in Nat
    BY <1>4, <1>d
  <2>6. CASE refusals' = refusals
    <3>1. logins' + Due' <= logins + Due
      <4>1. Due' \in Nat /\ logins \in Nat /\ Due \in Nat
        BY <2>5, <1>f
      <4>2. logins + Due' <= logins + Due
        BY <4>1, <2>3, NoMoreAgain, Zenon
      <4> QED BY <4>2, <2>5
    <3> QED BY <1>b, <2>1, <1>4, <2>4, <2>6, <3>1
  <2>7. CASE refusals' = refusals + 1
    <3>1. logins' + Due' <= logins + Due + N
      <4>1. Due' \in Nat /\ logins \in Nat /\ Due \in Nat /\ N \in Nat
        BY <2>5, <1>f
      <4>2. logins + Due' <= logins + Due + N
        BY <4>1, <2>3, NoMoreThan, Zenon
      <4> QED BY <4>2, <2>5
    <3> QED BY <1>b, <2>1, <1>4, <2>4, <2>7, <3>1
  <2> QED BY <2>6, <2>7, <1>4
<1>5. ASSUME Xiaomi!Answered(w) PROVE XiaomiInv'
  <2>0. /\ UNCHANGED <<shared, tokens, logins, xiaomiSteps, refusals>> /\ xiaomi[w] \in XiaomiState /\ DoneSoFar(w)
        /\ xiaomi \in [Workers -> XiaomiState] /\ written \in [Workers -> Nat] /\ fed \in [Workers -> Nat]
    BY <1>5, <1>0 DEF Xiaomi!Answered, XiaomiTypes
  <2>1. CASE xiaomi[w].at = "listing" /\ xiaomi' = [xiaomi EXCEPT ![w].at = Xiaomi!AfterList(xiaomi[w].ask)] /\ UNCHANGED <<written, fed>>
    <3> DEFINE at == Xiaomi!AfterList(xiaomi[w].ask)
    <3>1. at = IF xiaomi[w].ask.set THEN "writing" ELSE IF xiaomi[w].ask.feed THEN "feeding" ELSE "looking"
      BY DEF Xiaomi!AfterList
    <3>2. at \in {"writing", "feeding", "looking"} /\ xiaomi[w].ask \in Xiaomi!Asks
      BY <3>1, <2>0, <2>1 DEF DoneSoFar
    <3> HIDE DEF at
    <3>3. /\ xiaomi'[w] = [at |-> at, cloud |-> xiaomi[w].cloud, ask |-> xiaomi[w].ask]
          /\ xiaomi' \in [Workers -> XiaomiState] /\ \A v \in Workers \ {w} : xiaomi'[v] = xiaomi[v]
      BY <3>2, <2>0, <2>1 DEF XiaomiState, at
    <3>4. DoneSoFar(w)'
      BY <3>1, <3>2, <3>3, <2>0, <2>1 DEF DoneSoFar
    <3> QED BY <3>2, <3>3, <3>4, <2>0, <2>1, <1>4
  <2>2. CASE /\ xiaomi[w].at = "listing" /\ xiaomi[w].ask.lock
             /\ xiaomi' = [xiaomi EXCEPT ![w].at = "ok", ![w].cloud = 0] /\ UNCHANGED <<written, fed>>
    <3>1. xiaomi[w].ask \in Xiaomi!Asks
      BY <2>0, <2>2 DEF DoneSoFar
    <3>2. /\ xiaomi'[w] = [at |-> "ok", cloud |-> 0, ask |-> xiaomi[w].ask]
          /\ xiaomi' \in [Workers -> XiaomiState] /\ \A v \in Workers \ {w} : xiaomi'[v] = xiaomi[v]
      BY <2>0, <2>2 DEF XiaomiState
    <3>3. ~xiaomi[w].ask.set /\ ~xiaomi[w].ask.feed
      BY <3>1, <2>2 DEF Xiaomi!Asks
    <3>4. DoneSoFar(w)'
      BY <3>1, <3>2, <3>3, <2>0, <2>2 DEF DoneSoFar
    <3> QED BY <3>2, <3>4, <2>0, <2>2, <1>4
  <2>3. CASE /\ xiaomi[w].at = "writing" /\ xiaomi' = [xiaomi EXCEPT ![w].at = Xiaomi!AfterWrite(xiaomi[w].ask)]
             /\ written' = [written EXCEPT ![w] = @ + 1] /\ UNCHANGED fed
    <3> DEFINE at == Xiaomi!AfterWrite(xiaomi[w].ask)
    <3>1. at = IF xiaomi[w].ask.feed THEN "feeding" ELSE "looking"
      BY DEF Xiaomi!AfterWrite
    <3>2. at \in {"feeding", "looking"} /\ xiaomi[w].ask \in Xiaomi!Asks
      BY <3>1, <2>0, <2>3 DEF DoneSoFar
    <3> HIDE DEF at
    <3>3. /\ xiaomi'[w] = [at |-> at, cloud |-> xiaomi[w].cloud, ask |-> xiaomi[w].ask]
          /\ xiaomi' \in [Workers -> XiaomiState] /\ \A v \in Workers \ {w} : xiaomi'[v] = xiaomi[v]
      BY <3>2, <2>0, <2>3 DEF XiaomiState, at
    <3>4. /\ written' \in [Workers -> Nat] /\ written'[w] = 1 /\ xiaomi[w].ask.set
          /\ \A v \in Workers \ {w} : written'[v] = written[v]
      BY <2>0, <2>3 DEF DoneSoFar
    <3>5. DoneSoFar(w)'
      BY <3>1, <3>2, <3>3, <3>4, <2>0, <2>3 DEF DoneSoFar
    <3> QED BY <3>2, <3>3, <3>4, <3>5, <2>0, <2>3, <1>4
  <2>4. CASE /\ xiaomi[w].at = "feeding" /\ xiaomi' = [xiaomi EXCEPT ![w].at = "looking"]
             /\ fed' = [fed EXCEPT ![w] = @ + 1] /\ UNCHANGED written
    <3>1. /\ xiaomi'[w] = [at |-> "looking", cloud |-> xiaomi[w].cloud, ask |-> xiaomi[w].ask]
          /\ xiaomi' \in [Workers -> XiaomiState] /\ \A v \in Workers \ {w} : xiaomi'[v] = xiaomi[v]
      BY <2>0, <2>4 DEF XiaomiState
    <3>2. fed' \in [Workers -> Nat] /\ fed'[w] = 1 /\ xiaomi[w].ask.feed /\ \A v \in Workers \ {w} : fed'[v] = fed[v]
      BY <2>0, <2>4 DEF DoneSoFar
    <3>3. DoneSoFar(w)'
      BY <3>1, <3>2, <2>0, <2>4 DEF DoneSoFar
    <3> QED BY <3>1, <3>2, <3>3, <2>0, <2>4, <1>4
  <2>5. CASE /\ xiaomi[w].at = "looking" /\ xiaomi' = [xiaomi EXCEPT ![w].at = "ok", ![w].cloud = 0]
             /\ UNCHANGED <<written, fed>>
    <3>1. /\ xiaomi'[w] = [at |-> "ok", cloud |-> 0, ask |-> xiaomi[w].ask]
          /\ xiaomi' \in [Workers -> XiaomiState] /\ \A v \in Workers \ {w} : xiaomi'[v] = xiaomi[v]
      BY <2>0, <2>5 DEF XiaomiState
    <3>2. DoneSoFar(w)'
      BY <3>1, <2>0, <2>5 DEF DoneSoFar
    <3> QED BY <3>1, <3>2, <2>0, <2>5, <1>4
  <2> QED BY <2>1, <2>2, <2>3, <2>4, <2>5, <1>5 DEF Xiaomi!Answered
\* A call that failed: the worker lets go of its cloud.
<1>6. ASSUME Xiaomi!Fails(w), xiaomi[w].at # "rest"
      PROVE  /\ xiaomi'[w] = [at |-> "failed", cloud |-> 0, ask |-> xiaomi[w].ask]
             /\ xiaomi' \in [Workers -> XiaomiState] /\ \A v \in Workers \ {w} : xiaomi'[v] = xiaomi[v]
  BY <1>6, <1>0 DEF Xiaomi!Fails, XiaomiState, XiaomiTypes
<1>7. ASSUME Xiaomi!Refused(w) PROVE XiaomiInv'
  <2>1. /\ xiaomi[w].cloud \in tokens /\ refusals' = refusals + 1 /\ tokens' = tokens \ {xiaomi[w].cloud}
        /\ Xiaomi!Fails(w) /\ UNCHANGED <<shared, logins, written, fed, xiaomiSteps>>
    BY <1>7 DEF Xiaomi!Refused, Xiaomi!Refusal
  <2>2. xiaomi[w].at # "rest"
    BY <2>1, <1>0 DEF DoneSoFar, XiaomiTypes
  <2>3. /\ xiaomi'[w] = [at |-> "failed", cloud |-> 0, ask |-> xiaomi[w].ask]
        /\ xiaomi' \in [Workers -> XiaomiState] /\ \A v \in Workers \ {w} : xiaomi'[v] = xiaomi[v]
    BY <2>1, <2>2, <1>6
  <2>4. XiaomiTypes' /\ DoneSoFar(w)'
    BY <2>1, <2>2, <2>3, <1>0 DEF XiaomiTypes, DoneSoFar
  <2>5. Connecting' \subseteq Connecting /\ Adrift' \subseteq Workers
    BY <2>3 DEF Connecting, Adrift
  <2>6. Cardinality(Connecting') <= Cardinality(Connecting) /\ Cardinality(Connecting') \in Nat
        /\ Cardinality(Adrift') <= N /\ Cardinality(Adrift') \in Nat /\ Cardinality(Connecting) <= N
    BY <2>5, <1>0, WorkersCount DEF N
  <2>7. CASE xiaomi[w].cloud = shared
    <3>1. shared \in tokens /\ shared' \notin tokens' /\ Adrift' \subseteq Adrift
      BY <2>1, <2>3, <2>7 DEF Adrift
    <3>2. Cardinality(Adrift') <= Cardinality(Adrift)
      BY <3>1, <1>0, WorkersCount
    <3>3. Due' <= Due + N /\ Due' \in Int
      BY <3>1, <3>2, <2>6, <1>0 DEF Due, N
    <3>7. logins' + Due' <= logins + Due + N /\ refusals' = refusals + 1
      <4>1. logins' = logins /\ refusals' = refusals + 1
        BY <2>1
      <4>2. Due' \in Nat
        BY <1>d
      <4>3. logins + Due' <= logins + Due + N
        BY <4>2, <3>3, <1>f, SumsGrow, Zenon
      <4> QED BY <4>1, <4>3
    <3>8. \A v \in Workers \ {w} : xiaomi'[v] = xiaomi[v] /\ written'[v] = written[v] /\ fed'[v] = fed[v]
      BY <2>1, <2>3
    <3>9. xiaomiSteps' >= xiaomiSteps
      BY <2>1, <1>e
    <3> QED BY <1>b, <3>7, <3>8, <3>9, <2>4
  <2>8. CASE xiaomi[w].cloud # shared
    <3>1. shared' \in tokens' <=> shared \in tokens
      BY <2>1, <2>8
    <3>2. Due' <= Due + N /\ Due' \in Int
      BY <3>1, <2>6, <1>0 DEF Due, N
    <3>7. logins' + Due' <= logins + Due + N /\ refusals' = refusals + 1
      <4>1. logins' = logins /\ refusals' = refusals + 1
        BY <2>1
      <4>2. Due' \in Nat
        BY <1>d
      <4>3. logins + Due' <= logins + Due + N
        BY <4>2, <3>2, <1>f, SumsGrow, Zenon
      <4> QED BY <4>1, <4>3
    <3>8. \A v \in Workers \ {w} : xiaomi'[v] = xiaomi[v] /\ written'[v] = written[v] /\ fed'[v] = fed[v]
      BY <2>1, <2>3
    <3>9. xiaomiSteps' >= xiaomiSteps
      BY <2>1, <1>e
    <3> QED BY <1>b, <3>7, <3>8, <3>9, <2>4
  <2> QED BY <2>7, <2>8
<1>8. ASSUME Xiaomi!CallErrs(w) PROVE XiaomiInv'
  <2>1. /\ xiaomi[w].at # "rest" /\ Xiaomi!Fails(w) /\ refusals' = refusals + 1
        /\ UNCHANGED <<shared, tokens, logins, written, fed, xiaomiSteps>>
    BY <1>8 DEF Xiaomi!CallErrs, Xiaomi!Refusal
  <2>2. DoneSoFar(w)'
    BY <2>1, <1>6, <1>0 DEF DoneSoFar
  <2>3. written' \in [Workers -> Nat] /\ fed' \in [Workers -> Nat]
    BY <2>1, <1>0 DEF XiaomiTypes
  <2> QED BY <2>1, <2>2, <2>3, <1>6, <1>4
<1>9. ASSUME Xiaomi!AnswerLost(w) PROVE XiaomiInv'
  <2>1. /\ xiaomi[w].at \in {"writing", "feeding"} /\ Xiaomi!Fails(w) /\ refusals' = refusals + 1
        /\ written' = [written EXCEPT ![w] = @ + (IF xiaomi[w].at = "writing" THEN 1 ELSE 0)]
        /\ fed' = [fed EXCEPT ![w] = @ + (IF xiaomi[w].at = "feeding" THEN 1 ELSE 0)]
        /\ UNCHANGED <<shared, tokens, logins, xiaomiSteps>>
    BY <1>9 DEF Xiaomi!AnswerLost, Xiaomi!Refusal
  <2>2. /\ written' \in [Workers -> Nat] /\ fed' \in [Workers -> Nat]
        /\ written'[w] = written[w] + (IF xiaomi[w].at = "writing" THEN 1 ELSE 0)
        /\ fed'[w] = fed[w] + (IF xiaomi[w].at = "feeding" THEN 1 ELSE 0)
        /\ \A v \in Workers \ {w} : written'[v] = written[v] /\ fed'[v] = fed[v]
    BY <2>1, <1>0 DEF XiaomiTypes
  <2>3. DoneSoFar(w)'
    BY <2>1, <2>2, <1>6, <1>0 DEF DoneSoFar
  <2> QED BY <2>1, <2>2, <2>3, <1>6, <1>4
<1> QED BY <1>1, <1>2, <1>3, <1>5, <1>7, <1>8, <1>9

\* It implies the types and the properties of the account.
LEMMA XiaomiSafe == XiaomiInv => Xiaomi!TypeOK /\ Xiaomi!DoneOnce /\ Xiaomi!LoginsBounded
<1> SUFFICES ASSUME XiaomiInv PROVE Xiaomi!TypeOK /\ Xiaomi!DoneOnce /\ Xiaomi!LoginsBounded
  OBVIOUS
<1>1. Xiaomi!Cardinality(Workers) = Cardinality(Workers)
  BY DEF Xiaomi!Cardinality, Cardinality
<1>2. Cardinality(Workers) \in Nat /\ Due \in Nat
  BY DueBounds, WorkersCount DEF XiaomiInv
<1>3. Xiaomi!LoginsBounded
  <2>1. logins \in Nat /\ logins + Due <= (1 + refusals) * Cardinality(Workers) /\ refusals \in Nat
    BY DEF XiaomiInv, XiaomiTypes
  <2>2. (1 + refusals) * Cardinality(Workers) \in Nat
    BY <1>2, <2>1
  <2> QED BY <2>1, <2>2, <1>1, <1>2 DEF Xiaomi!LoginsBounded
<1>4. xiaomi \in [Workers -> XiaomiState] /\ \A w \in Workers : DoneSoFar(w) /\ xiaomi[w].cloud \in 0..logins
  BY DEF XiaomiInv, XiaomiTypes, XiaomiState
<1>5. ASSUME NEW w \in Workers
      PROVE  /\ written[w] \in 0..MaxXiaomiSteps /\ fed[w] \in 0..MaxXiaomiSteps
             /\ xiaomi[w].at = "ok" => /\ written[w] = IF xiaomi[w].ask.set THEN 1 ELSE 0
                                       /\ fed[w] = IF xiaomi[w].ask.feed THEN 1 ELSE 0
             /\ xiaomi[w].ask.lock => written[w] + fed[w] = 0
  <2>1. DoneSoFar(w) /\ xiaomiSteps \in 0..MaxXiaomiSteps /\ MaxXiaomiSteps \in Nat
    BY <1>4, XiaomiAssumption DEF XiaomiInv, XiaomiTypes
  <2>2. xiaomi[w].at # "rest" => (xiaomi[w].ask.lock => ~xiaomi[w].ask.set /\ ~xiaomi[w].ask.feed)
    BY <2>1 DEF DoneSoFar, Xiaomi!Asks
  <2>3. xiaomi[w].at = "rest" => ~xiaomi[w].ask.set /\ ~xiaomi[w].ask.feed /\ ~xiaomi[w].ask.lock
    BY <2>1 DEF DoneSoFar, Xiaomi!Rest
  <2> QED BY <2>1, <2>2, <2>3 DEF DoneSoFar
<1>6. Xiaomi!DoneOnce
  BY <1>5 DEF Xiaomi!DoneOnce
<1>7. Xiaomi!TypeOK
  <2>1. xiaomi \in [Workers -> [at : {"rest", "connecting", "listing", "writing", "feeding", "looking", "ok", "failed"},
                                cloud : 0..logins, ask : Xiaomi!Asks \union {Xiaomi!Rest.ask}]]
    BY <1>4 DEF XiaomiState
  <2>2. written \in [Workers -> 0..MaxXiaomiSteps] /\ fed \in [Workers -> 0..MaxXiaomiSteps]
    BY <1>5 DEF XiaomiInv, XiaomiTypes
  <2> QED BY <2>1, <2>2 DEF Xiaomi!TypeOK, XiaomiInv, XiaomiTypes
<1> QED BY <1>3, <1>6, <1>7

-----------------------------------------------------------------------------
(* The air conditioner.                                                    *)

ClimateState == [at : {"idle", "reading", "sending", "confirming", "closing", "ok", "failed"},
                 unit : Units \union {Climate!Any}, power : {"none", "on", "off"},
                 wants : SUBSET Climate!Commands, plan : SUBSET Climate!Commands, tries : 0..2]

ClimateTypes ==
    /\ climate \in [Workers -> ClimateState] /\ unitOn \subseteq Units /\ requests \in 0..MaxRequests
    /\ taken \in [Workers -> [Climate!Commands -> Nat]]
    /\ settingsLanded \in [Workers -> SUBSET Climate!Commands] /\ disturbed \subseteq Workers

\* What is still to be sent: a command whose status is asked for was taken.
Unsent(s) == IF s.at = "confirming" THEN s.plan \ {Climate!First(s.plan)} ELSE s.plan

\* A step's record beside what the cloud took of it: nothing that is still to be sent was
\* taken, and what it wants has landed or is still to be sent to a unit that is on by then.
StepRight(s, took, lands, on, other) ==
    /\ \A c \in Climate!Commands : took[c] <= 1
    /\ s.at \in {"sending", "confirming"} => s.plan # {}
    /\ s.at \in {"closing", "ok"} => s.plan = {}
    /\ s.at = "reading" => \A c \in Climate!Commands : took[c] = 0
    /\ s.at \in {"sending", "confirming"} => \A c \in Unsent(s) : took[c] = 0
    /\ s.at # "idle" => s.unit \in Units
    /\ "on" \notin s.wants /\ "off" \notin s.wants /\ (s.power = "off" => s.wants = {})
    /\ s.at \in {"sending", "confirming"} /\ "off" \in s.plan => s.power = "off"
    /\ s.at \in {"sending", "confirming", "closing", "ok"} => other \/ s.wants \subseteq lands \union Unsent(s)
    /\ s.at \in {"sending", "confirming"} =>
          \/ other
          \/ s.power = "off"
          \/ "on" \in Unsent(s)
          \/ s.unit \in on

ClimateInv ==
    /\ ClimateTypes
    /\ \A w \in Workers :
          /\ StepRight(climate[w], taken[w], settingsLanded[w], unitOn, w \in disturbed)
          /\ climate[w].at # "idle" => requests > 0
          /\ climate[w].at = "idle" => \A c \in Climate!Commands : taken[w][c] = 0

\* Two lists, one after the other.
LEMMA SeqsJoined ==
  ASSUME NEW R, NEW a \in Seq(R), NEW b \in Seq(R)
  PROVE  /\ a \o b \in Seq(R) /\ Len(a \o b) = Len(a) + Len(b)
         /\ \A i \in 1..Len(a) : (a \o b)[i] = a[i]
         /\ \A i \in 1..Len(b) : (a \o b)[Len(a) + i] = b[i]
OBVIOUS

\* Every command has its place, and that of switching on is the first (apply_climate).
LEMMA OrderRight ==
  /\ \A i \in DOMAIN Climate!Order : i \in Nat /\ i > 0
  /\ \A c \in Climate!Commands : \E i \in DOMAIN Climate!Order : Climate!Order[i] = c
  /\ 1 \in DOMAIN Climate!Order /\ Climate!Order[1] = "on"
<1> DEFINE ends == <<"on", "off">>
           R == {"on", "off", "mode", "temp", "fan", "swing"}
<1>1. Settings \in Seq(R) /\ ends \in Seq(R) /\ Len(ends) = 2 /\ ends[1] = "on" /\ ends[2] = "off"
  <2>1. Settings \in Seq(R)
    BY ClimateAssumption
  <2>2. ends \in Seq(R)
    OBVIOUS
  <2>3. Len(ends) = 2 /\ ends[1] = "on" /\ ends[2] = "off"
    OBVIOUS
  <2> QED BY <2>1, <2>2, <2>3
<1> HIDE DEF ends, R
<1>2. Len(Settings) \in Nat /\ DOMAIN Settings = 1..Len(Settings)
  BY <1>1
<1>3. /\ ends \o Settings \in Seq(R) /\ DOMAIN (ends \o Settings) = 1..(2 + Len(Settings))
      /\ (ends \o Settings)[1] = "on" /\ (ends \o Settings)[2] = "off"
      /\ \A i \in 1..Len(Settings) : (ends \o Settings)[2 + i] = Settings[i]
  <2>1. /\ ends \o Settings \in Seq(R) /\ Len(ends \o Settings) = Len(ends) + Len(Settings)
        /\ \A i \in 1..Len(ends) : (ends \o Settings)[i] = ends[i]
        /\ \A i \in 1..Len(Settings) : (ends \o Settings)[Len(ends) + i] = Settings[i]
    <3>1. ends \in Seq(R)
      BY <1>1
    <3>2. Settings \in Seq(R)
      BY <1>1
    <3>3. \A a \in Seq(R), b \in Seq(R) :
            /\ a \o b \in Seq(R) /\ Len(a \o b) = Len(a) + Len(b)
            /\ \A i \in 1..Len(a) : (a \o b)[i] = a[i]
            /\ \A i \in 1..Len(b) : (a \o b)[Len(a) + i] = b[i]
      BY SeqsJoined
    <3> QED BY <3>1, <3>2, <3>3
  <2> QED BY <1>1, <1>2, <2>1
<1>4. Climate!Order = ends \o Settings
  BY DEF Climate!Order, ends
<1>5. ASSUME NEW c \in Climate!Commands PROVE \E i \in DOMAIN Climate!Order : Climate!Order[i] = c
  <2>1. CASE c \in {"on", "off"}
    BY <1>2, <1>3, <1>4, <2>1
  <2>2. CASE \E i \in 1..Len(Settings) : c = Settings[i]
    <3>1. PICK i \in 1..Len(Settings) : c = Settings[i]
      BY <2>2
    <3>2. 2 + i \in 1..(2 + Len(Settings))
      BY <1>2
    <3> QED BY <1>3, <1>4, <3>1, <3>2
  <2> QED BY <2>1, <2>2 DEF Climate!Commands
<1> QED BY <1>2, <1>3, <1>4, <1>5

\* The first command of a plan is one of it, and it is switching on where that is
\* planned.
LEMMA FirstOfPlan ==
  ASSUME NEW plans \in SUBSET Climate!Commands, plans # {}
  PROVE  Climate!First(plans) \in plans /\ ("on" \in plans => Climate!First(plans) = "on")
<1> DEFINE at == {i \in DOMAIN Climate!Order : Climate!Order[i] \in plans}
<1>1. at \subseteq Nat /\ at # {}
  BY OrderRight
<1>2. PICK i \in at : \A j \in at : i <= j
  BY <1>1, LeastNat
<1>3. \A j \in 1..(i - 1) : Climate!Order[j] \notin plans
  <2> SUFFICES ASSUME NEW j \in 1..(i - 1), Climate!Order[j] \in plans PROVE FALSE
    OBVIOUS
  <2>1. i \in Nat /\ j < i
    BY <1>1
  <2>2. j \in DOMAIN Climate!Order
    <3>1. Len(<<"on", "off">> \o Settings) \in Nat /\ DOMAIN (<<"on", "off">> \o Settings) = 1..Len(<<"on", "off">> \o Settings)
      BY ClimateAssumption
    <3>2. i \in DOMAIN (<<"on", "off">> \o Settings)
      BY DEF Climate!Order
    <3> QED BY <2>1, <3>1, <3>2 DEF Climate!Order
  <2>3. i <= j
    BY <1>2, <2>2
  <2> QED BY <2>1, <2>3
<1> DEFINE OK(k) == Climate!Order[k] \in plans /\ \A j \in 1..(k - 1) : Climate!Order[j] \notin plans
           first == CHOOSE k \in DOMAIN Climate!Order : OK(k)
<1>4. i \in DOMAIN Climate!Order /\ OK(i)
  BY <1>3
<1>5. first \in DOMAIN Climate!Order /\ OK(first)
  BY <1>4
<1>6. Climate!First(plans) = Climate!Order[first]
  BY DEF Climate!First
<1>7. ASSUME "on" \in plans PROVE first = 1
  <2>1. first \in Nat /\ first > 0
    BY <1>5, OrderRight
  <2>2. first > 1 => 1 \in 1..(first - 1)
    BY <2>1
  <2> QED BY <1>5, <1>7, <2>1, <2>2, OrderRight
<1> QED BY <1>5, <1>6, <1>7, OrderRight

\* A step's record with a new plan, whatever sets the records are made from.
LEMMA PlanSet ==
  ASSUME NEW C, NEW U, NEW old \in [at : {"idle", "reading", "sending", "confirming", "closing", "ok", "failed"},
                 unit : U, power : {"none", "on", "off"}, wants : C, plan : C, tries : 0..2],
         NEW x \in C, NEW at \in {"sending", "closing"}, NEW k \in 0..2
  PROVE  LET n == [old EXCEPT !.at = at, !.plan = x, !.tries = k]
         IN  /\ n \in [at : {"idle", "reading", "sending", "confirming", "closing", "ok", "failed"},
                 unit : U, power : {"none", "on", "off"}, wants : C, plan : C, tries : 0..2]
             /\ n.at = at /\ n.unit = old.unit /\ n.power = old.power
             /\ n.wants = old.wants /\ n.plan = x
OBVIOUS

\* The same for the records of the air conditioner.
LEMMA PlanRecord ==
  ASSUME NEW old \in ClimateState, NEW x \in SUBSET Climate!Commands, NEW at \in {"sending", "closing"}
  PROVE  LET n == [old EXCEPT !.at = at, !.plan = x, !.tries = 1]
         IN  /\ n \in ClimateState /\ n.at = at /\ n.unit = old.unit /\ n.power = old.power
             /\ n.wants = old.wants /\ n.plan = x
<1>1. \A k \in 0..2 :
         LET n == [old EXCEPT !.at = at, !.plan = x, !.tries = k]
         IN  /\ n \in ClimateState /\ n.at = at /\ n.unit = old.unit /\ n.power = old.power
             /\ n.wants = old.wants /\ n.plan = x
  BY PlanSet DEF ClimateState
<1> HIDE DEF ClimateState
<1>2. 1 \in 0..2
  OBVIOUS
<1> QED BY <1>1, <1>2

\* A worker at rest is of its shape.
LEMMA ClimateIdle == Climate!Idle \in ClimateState
BY DEF Climate!Idle, ClimateState

\* The invariant of the air conditioner holds at the start.
LEMMA ClimateBegins == Climate!Init => ClimateInv
<1> SUFFICES ASSUME Climate!Init PROVE ClimateInv
  OBVIOUS
<1>1. /\ climate = [w \in Workers |-> Climate!Idle] /\ unitOn \subseteq Units /\ requests = 0 /\ disturbed = {}
      /\ taken = [w \in Workers |-> [c \in Climate!Commands |-> 0]] /\ settingsLanded = [w \in Workers |-> {}]
  BY DEF Climate!Init
<1>2. ClimateTypes
  BY <1>1, ClimateIdle, ClimateAssumption DEF ClimateTypes
<1>3. ASSUME NEW w \in Workers
      PROVE  /\ climate[w].at = "idle" /\ climate[w].wants = {} /\ \A c \in Climate!Commands : taken[w][c] = 0
  BY <1>1 DEF Climate!Idle
<1>4. \A w \in Workers : StepRight(climate[w], taken[w], settingsLanded[w], unitOn, w \in disturbed)
  BY <1>3 DEF StepRight
<1> QED BY <1>2, <1>3, <1>4 DEF ClimateInv

\* It holds as long as none of the part's variables changes.
LEMMA ClimateStays == ClimateInv /\ UNCHANGED climateVars => ClimateInv'
BY DEF ClimateInv, ClimateTypes, climateVars

\* A worker's step keeps the invariant if it keeps that worker's part, and what it takes
\* from others it marks as disturbed.
LEMMA ClimateOfOne ==
  ASSUME ClimateInv, NEW w \in Workers, NEW s \in ClimateState, climate' = [climate EXCEPT ![w] = s],
         requests' \in 0..MaxRequests, requests <= requests', s.at # "idle", requests' > 0,
         \A v \in Workers \ {w} : taken'[v] = taken[v] /\ settingsLanded'[v] = settingsLanded[v],
         taken' \in [Workers -> [Climate!Commands -> Nat]],
         settingsLanded' \in [Workers -> SUBSET Climate!Commands], disturbed' \subseteq Workers,
         unitOn' \subseteq Units,
         \A v \in Workers \ {w} : /\ v \in disturbed => v \in disturbed'
                                  /\ climate[v].unit \in unitOn => v \in disturbed' \/ climate[v].unit \in unitOn',
         StepRight(s, taken'[w], settingsLanded'[w], unitOn', w \in disturbed')
  PROVE  ClimateInv'
<1>1. climate \in [Workers -> ClimateState] /\ requests \in Nat
  BY DEF ClimateInv, ClimateTypes
<1>2. ClimateTypes'
  BY <1>1 DEF ClimateTypes
<1>3. climate'[w] = s /\ \A v \in Workers \ {w} : climate'[v] = climate[v]
  BY <1>1
<1>4. StepRight(climate'[w], taken'[w], settingsLanded'[w], unitOn', w \in disturbed')
  BY <1>3
<1>5. ASSUME NEW v \in Workers \ {w}
      PROVE  /\ StepRight(climate'[v], taken'[v], settingsLanded'[v], unitOn', v \in disturbed')
             /\ climate'[v].at # "idle" => requests' > 0
             /\ climate'[v].at = "idle" => \A c \in Climate!Commands : taken'[v][c] = 0
  <2>1. /\ StepRight(climate[v], taken[v], settingsLanded[v], unitOn, v \in disturbed)
        /\ climate[v].at # "idle" => requests > 0
        /\ climate[v].at = "idle" => \A c \in Climate!Commands : taken[v][c] = 0
    BY DEF ClimateInv
  <2>2. /\ climate'[v] = climate[v] /\ taken'[v] = taken[v] /\ settingsLanded'[v] = settingsLanded[v]
        /\ v \in disturbed => v \in disturbed'
        /\ climate[v].unit \in unitOn => v \in disturbed' \/ climate[v].unit \in unitOn'
    BY <1>3
  <2>3. StepRight(climate[v], taken[v], settingsLanded[v], unitOn', v \in disturbed')
    BY <2>1, <2>2 DEF StepRight
  <2>4. requests > 0 => requests' > 0
    BY <1>1
  <2> QED BY <2>1, <2>2, <2>3, <2>4
<1> QED BY <1>2, <1>3, <1>4, <1>5 DEF ClimateInv

\* A step that only changes its record.
LEMMA ClimateOn ==
  ASSUME ClimateInv, NEW w \in Workers, NEW s \in ClimateState, climate' = [climate EXCEPT ![w] = s],
         climate[w].at # "idle", s.at # "idle", UNCHANGED <<unitOn, taken, settingsLanded, disturbed, requests>>,
         StepRight(s, taken[w], settingsLanded[w], unitOn, w \in disturbed)
  PROVE  ClimateInv'
<1>1. ClimateTypes /\ requests > 0 /\ requests \in Nat
  BY DEF ClimateInv, ClimateTypes
<1>2. requests' \in 0..MaxRequests /\ requests <= requests' /\ requests' > 0
  BY <1>1 DEF ClimateTypes
<1> QED BY <1>1, <1>2, ClimateOfOne DEF ClimateTypes

\* A step that has a command taken: its new record holds the same request.
LEMMA ClimateTakes ==
  ASSUME ClimateInv, NEW w \in Workers, climate[w].at = "sending", Climate!Takes(w), UNCHANGED requests,
         NEW s \in ClimateState, climate' = [climate EXCEPT ![w] = s],
         s.unit = climate[w].unit, s.power = climate[w].power, s.wants = climate[w].wants,
         \/ s.at = "confirming" /\ s.plan = climate[w].plan
         \/ s.at = "sending" /\ s.plan = climate[w].plan \ {Climate!First(climate[w].plan)} /\ s.plan # {}
         \/ s.at = "closing" /\ s.plan = {} /\ climate[w].plan \ {Climate!First(climate[w].plan)} = {}
  PROVE  ClimateInv'
<1> DEFINE c == Climate!First(climate[w].plan)
           u == climate[w].unit
           rest == climate[w].plan \ {c}
<1>1. ClimateTypes /\ climate[w] \in ClimateState /\ climate[w].plan \subseteq Climate!Commands
  BY DEF ClimateInv, ClimateTypes, ClimateState
<1>2. StepRight(climate[w], taken[w], settingsLanded[w], unitOn, w \in disturbed)
  BY DEF ClimateInv
<1>3. climate[w].plan # {} /\ Unsent(climate[w]) = climate[w].plan
  BY <1>2 DEF StepRight, Unsent
<1>4. c \in climate[w].plan /\ ("on" \in climate[w].plan => c = "on") /\ c \in Climate!Commands
  BY <1>1, <1>3, FirstOfPlan
<1>5. taken[w][c] = 0 /\ taken[w] \in [Climate!Commands -> Nat]
  BY <1>1, <1>2, <1>3, <1>4 DEF StepRight, ClimateTypes
<1>6. /\ taken' = [taken EXCEPT ![w][c] = @ + 1]
      /\ unitOn' = CASE c = "on" -> unitOn \union {u} [] c = "off" -> unitOn \ {u} [] OTHER -> unitOn
      /\ settingsLanded' = [settingsLanded EXCEPT ![w] = @ \union (IF u \in unitOn THEN {c} \ {"on", "off"} ELSE {})]
      /\ disturbed' = disturbed \union {v \in Workers \ {w} : c = "off" /\ climate[v].unit = u}
  BY DEF Climate!Takes, Climate!Powered
<1>7. Unsent(s) = rest
  BY <1>3 DEF Unsent
<1> HIDE DEF c, u, rest
<1>8. /\ taken' \in [Workers -> [Climate!Commands -> Nat]] /\ taken'[w][c] = 1
      /\ \A d \in Climate!Commands : d # c => taken'[w][d] = taken[w][d]
      /\ \A v \in Workers \ {w} : taken'[v] = taken[v]
  <2>1. taken \in [Workers -> [Climate!Commands -> Nat]]
    BY <1>1 DEF ClimateTypes
  <2>2. taken' = [taken EXCEPT ![w] = [taken[w] EXCEPT ![c] = taken[w][c] + 1]]
    BY <1>4, <1>6, <2>1
  <2>3. [taken[w] EXCEPT ![c] = taken[w][c] + 1] \in [Climate!Commands -> Nat]
    <3> DEFINE n == taken[w][c] + 1
    <3>1. n \in Nat
      BY <1>4, <1>5
    <3> HIDE DEF n
    <3>2. [taken[w] EXCEPT ![c] = n] \in [Climate!Commands -> Nat]
      BY <1>5, <3>1
    <3> QED BY <3>2 DEF n
  <2>4. taken'[w] = [taken[w] EXCEPT ![c] = taken[w][c] + 1]
    BY <2>1, <2>2
  <2>5. taken' \in [Workers -> [Climate!Commands -> Nat]] /\ \A v \in Workers \ {w} : taken'[v] = taken[v]
    BY <2>1, <2>2, <2>3
  <2> QED BY <1>4, <1>5, <2>4, <2>5
<1>9. /\ settingsLanded' \in [Workers -> SUBSET Climate!Commands]
      /\ settingsLanded'[w] = settingsLanded[w] \union (IF u \in unitOn THEN {c} \ {"on", "off"} ELSE {})
      /\ \A v \in Workers \ {w} : settingsLanded'[v] = settingsLanded[v]
  BY <1>1, <1>4, <1>6 DEF ClimateTypes
<1>10. u \in Units \union {Climate!Any} /\ climate \in [Workers -> ClimateState]
  BY <1>1 DEF u, ClimateTypes, ClimateState
<1>11. disturbed' \subseteq Workers /\ (w \in disturbed' <=> w \in disturbed)
  BY <1>1, <1>6 DEF ClimateTypes
<1>12. \A v \in Workers \ {w} : /\ v \in disturbed => v \in disturbed'
                                /\ climate[v].unit \in unitOn => v \in disturbed' \/ climate[v].unit \in unitOn'
  BY <1>6
<1>13. unitOn' \subseteq Units
  <2>1. u \in Units
    BY <1>2 DEF StepRight, u
  <2> QED BY <1>1, <1>6, <2>1 DEF ClimateTypes
<1>14. StepRight(s, taken'[w], settingsLanded'[w], unitOn', w \in disturbed')
  <2>1. s.unit = u /\ s.power = climate[w].power /\ s.wants = climate[w].wants /\ s.unit \in Units
        /\ "on" \notin s.wants /\ "off" \notin s.wants /\ (s.power = "off" => s.wants = {})
    BY <1>2 DEF StepRight, u
  <2>2. \A d \in Climate!Commands : taken'[w][d] <= 1
    BY <1>2, <1>8 DEF StepRight
  <2>3. rest = climate[w].plan \ {c} /\ rest \subseteq Climate!Commands
    BY <1>1 DEF rest, c
  <2>4. \A d \in rest : taken'[w][d] = 0
    BY <1>2, <1>3, <1>8, <2>3 DEF StepRight
  <2>5. s.at \in {"sending", "confirming", "closing"} /\ (s.at # "closing" => s.plan # {}) /\ (s.at = "closing" => s.plan = {})
    BY <1>3, <2>3 DEF c
  <2>6. s.plan \subseteq climate[w].plan
    BY <1>3 DEF c
  <2>7. s.at # "closing" /\ "off" \in s.plan => s.power = "off"
    BY <1>2, <2>1, <2>6 DEF StepRight
  <2>8. ASSUME w \notin disturbed, s.power # "off"
        PROVE  /\ s.wants \subseteq settingsLanded'[w] \union rest
               /\ "on" \in rest \/ s.unit \in unitOn'
    <3>1. /\ climate[w].wants \subseteq settingsLanded[w] \union climate[w].plan
          /\ "off" \notin climate[w].plan
          /\ "on" \in climate[w].plan \/ climate[w].unit \in unitOn
      BY <1>2, <1>3, <2>1, <2>8 DEF StepRight
    <3>2. CASE c = "on"
      BY <1>6, <1>9, <2>1, <2>3, <3>1, <3>2
    <3>3. CASE c # "on"
      <4>1. c # "off" /\ u \in unitOn
        BY <1>4, <3>1, <3>3 DEF u
      <4> QED BY <1>6, <1>9, <2>1, <2>3, <3>1, <3>3, <4>1
    <3> QED BY <3>2, <3>3
  <2>9. s.power = "off" => s.wants \subseteq settingsLanded'[w] \union rest
    BY <2>1
  <2> QED BY <1>7, <1>11, <2>1, <2>2, <2>4, <2>5, <2>7, <2>8, <2>9 DEF StepRight
<1>15. requests' \in 0..MaxRequests /\ requests <= requests' /\ requests' > 0 /\ s.at # "idle"
  BY <1>1 DEF ClimateInv, ClimateTypes
<1> QED BY <1>8, <1>9, <1>11, <1>12, <1>13, <1>14, <1>15, ClimateOfOne

\* Every step of the part keeps it.
LEMMA ClimateStep == ClimateInv /\ Climate!Next => ClimateInv'
<1> SUFFICES ASSUME ClimateInv, Climate!Next PROVE ClimateInv'
  OBVIOUS
<1>1. /\ climate \in [Workers -> ClimateState] /\ unitOn \subseteq Units /\ requests \in Nat /\ requests <= MaxRequests
      /\ taken \in [Workers -> [Climate!Commands -> Nat]]
      /\ settingsLanded \in [Workers -> SUBSET Climate!Commands] /\ disturbed \subseteq Workers /\ MaxRequests \in Nat
  BY ClimateAssumption DEF ClimateInv, ClimateTypes
<1>2. \A w \in Workers : /\ StepRight(climate[w], taken[w], settingsLanded[w], unitOn, w \in disturbed)
                          /\ climate[w] \in ClimateState
  BY <1>1 DEF ClimateInv
<1>3. {"on", "off"} \subseteq Climate!Commands
  BY DEF Climate!Commands
<1>4. ASSUME NEW w \in Workers, NEW r \in Climate!Requests, NEW named \in Units \union {Climate!Any},
             Climate!Begin(w, r, named)
      PROVE  ClimateInv'
  <2>1. PICK u \in Climate!Resolved(named) :
          LET s == [Climate!Idle EXCEPT !.at = "reading", !.unit = u, !.power = r.power, !.wants = r.wants]
          IN  climate' = [climate EXCEPT ![w] =
                IF r.power = "off" THEN [s EXCEPT !.at = "sending", !.plan = Climate!Plan(s, TRUE), !.tries = 1]
                ELSE s]
    BY <1>4 DEF Climate!Begin
  <2> DEFINE s == [Climate!Idle EXCEPT !.at = "reading", !.unit = u, !.power = r.power, !.wants = r.wants]
             offs == Climate!Plan(s, TRUE)
             o == [s EXCEPT !.at = "sending", !.plan = offs, !.tries = 1]
             none == [c \in Climate!Commands |-> 0]
  <2>2. u \in Units
    BY <2>1 DEF Climate!Resolved
  <2>3. /\ r.power \in {"none", "on", "off"} /\ r.wants \subseteq Climate!Commands
        /\ "on" \notin r.wants /\ "off" \notin r.wants /\ (r.power = "off" => r.wants = {})
    BY DEF Climate!Requests
  <2>4. /\ s \in ClimateState /\ s.at = "reading" /\ s.unit = u /\ s.power = r.power /\ s.wants = r.wants
        /\ s.plan = {}
    BY <2>2, <2>3, ClimateIdle DEF ClimateState, Climate!Idle
  <2>5. r.power = "off" => offs = {"off"} /\ offs \in SUBSET Climate!Commands
    BY <1>3, <2>4 DEF Climate!Plan
  <2> HIDE DEF s, offs
  <2>6. ASSUME r.power = "off"
        PROVE  /\ o \in ClimateState /\ o.at = "sending" /\ o.unit = u /\ o.power = r.power /\ o.wants = r.wants
               /\ o.plan = {"off"}
    <3>1. offs \in SUBSET Climate!Commands /\ offs = {"off"} /\ s \in ClimateState
      BY <2>4, <2>5, <2>6
    <3>2. \A x \in SUBSET Climate!Commands :
            LET n == [s EXCEPT !.at = "sending", !.plan = x, !.tries = 1]
            IN  /\ n \in ClimateState /\ n.at = "sending" /\ n.unit = s.unit /\ n.power = s.power
                /\ n.wants = s.wants /\ n.plan = x
      BY <3>1, PlanRecord
    <3> QED BY <2>4, <3>1, <3>2
  <2> HIDE DEF o
  <2>7. climate' = [climate EXCEPT ![w] = IF r.power = "off" THEN o ELSE s]
    BY <2>1 DEF s, o, offs
  <2>8. /\ taken' = [taken EXCEPT ![w] = none] /\ settingsLanded' = [settingsLanded EXCEPT ![w] = {}]
        /\ disturbed' = disturbed \ {w} /\ requests' = requests + 1 /\ unitOn' = unitOn /\ requests < MaxRequests
    BY <1>4 DEF Climate!Begin
  <2>9. none \in [Climate!Commands -> Nat] /\ \A c \in Climate!Commands : none[c] = 0
    OBVIOUS
  <2> HIDE DEF none
  <2>10. /\ taken' \in [Workers -> [Climate!Commands -> Nat]] /\ taken'[w] = none
         /\ \A v \in Workers \ {w} : taken'[v] = taken[v]
    BY <1>1, <2>8, <2>9
  <2>11. /\ settingsLanded' \in [Workers -> SUBSET Climate!Commands]
         /\ \A v \in Workers \ {w} : settingsLanded'[v] = settingsLanded[v]
    BY <1>1, <2>8
  <2>12. requests' \in 0..MaxRequests /\ requests <= requests' /\ requests' > 0
    BY <1>1, <2>8
  <2>13. disturbed' \subseteq Workers /\ unitOn' \subseteq Units
    BY <1>1, <2>8
  <2>17. \A v \in Workers \ {w} : /\ v \in disturbed => v \in disturbed'
                                  /\ climate[v].unit \in unitOn => v \in disturbed' \/ climate[v].unit \in unitOn'
    BY <2>8
  <2>16. ASSUME NEW n \in ClimateState, n.at # "idle", climate' = [climate EXCEPT ![w] = n],
                StepRight(n, taken'[w], settingsLanded'[w], unitOn', w \in disturbed')
         PROVE  ClimateInv'
    <3>1. \A v \in Workers \ {w} : taken'[v] = taken[v] /\ settingsLanded'[v] = settingsLanded[v]
      BY <2>10, <2>11
    <3>2. taken' \in [Workers -> [Climate!Commands -> Nat]] /\ settingsLanded' \in [Workers -> SUBSET Climate!Commands]
      BY <2>10, <2>11
    <3> QED BY <2>12, <2>13, <2>16, <2>17, <3>1, <3>2, ClimateOfOne
  <2>14. CASE r.power = "off"
    <3>1. climate' = [climate EXCEPT ![w] = o]
      BY <2>7, <2>14
    <3>2. StepRight(o, taken'[w], settingsLanded'[w], unitOn', w \in disturbed')
      <4>1. \A c \in Climate!Commands : taken'[w][c] = 0 /\ taken'[w][c] <= 1
        BY <2>9, <2>10
      <4>2. Unsent(o) = {"off"} /\ o.wants = {} /\ o.unit \in Units
        BY <2>2, <2>3, <2>6, <2>14 DEF Unsent
      <4> QED BY <1>3, <2>3, <2>6, <2>14, <4>1, <4>2 DEF StepRight
    <3>3. o \in ClimateState /\ o.at # "idle"
      BY <2>6, <2>14
    <3> QED BY <2>16, <3>1, <3>2, <3>3
  <2>15. CASE r.power # "off"
    <3>1. climate' = [climate EXCEPT ![w] = s]
      BY <2>7, <2>15
    <3>2. StepRight(s, taken'[w], settingsLanded'[w], unitOn', w \in disturbed')
      BY <2>2, <2>3, <2>4, <2>9, <2>10, <2>15 DEF StepRight, Unsent
    <3>3. s \in ClimateState /\ s.at # "idle"
      BY <2>4
    <3> QED BY <2>16, <3>1, <3>2, <3>3
  <2> QED BY <2>14, <2>15
<1>5. ASSUME NEW w \in Workers, NEW at \in {"failed", "ok"}, Climate!Goes(w, at), Climate!Stays(w),
             climate[w].at # "idle", at = "ok" => climate[w].at = "closing"
      PROVE  ClimateInv'
  <2> DEFINE s == [climate[w] EXCEPT !.at = at]
  <2>1. /\ s \in ClimateState /\ s.at = at /\ s.unit = climate[w].unit /\ s.power = climate[w].power
        /\ s.wants = climate[w].wants /\ s.plan = climate[w].plan
    BY <1>2 DEF ClimateState
  <2>2. climate' = [climate EXCEPT ![w] = s] /\ UNCHANGED <<unitOn, taken, settingsLanded, disturbed, requests>>
    BY <1>5 DEF Climate!Goes, Climate!Stays
  <2> HIDE DEF s
  <2>3. StepRight(s, taken[w], settingsLanded[w], unitOn, w \in disturbed)
    BY <1>2, <1>5, <2>1 DEF StepRight, Unsent
  <2> QED BY <1>5, <2>1, <2>2, <2>3, ClimateOn
<1>6. ASSUME NEW w \in Workers, Climate!CallFails(w) PROVE ClimateInv'
  BY <1>5, <1>6 DEF Climate!CallFails
<1>7. ASSUME NEW w \in Workers, Climate!StatusMissing(w) PROVE ClimateInv'
  <2>1. CASE climate[w].at = "closing"
    BY <1>5, <1>7, <2>1 DEF Climate!StatusMissing
  <2>2. CASE climate[w].at # "closing"
    BY <1>5, <1>7, <2>2 DEF Climate!StatusMissing
  <2> QED BY <2>1, <2>2
<1>8. ASSUME NEW w \in Workers, Climate!Announce(w) PROVE ClimateInv'
  BY <1>5, <1>8 DEF Climate!Announce
<1>9. ASSUME NEW w \in Workers, NEW on \in BOOLEAN, Climate!Reads(w, on),
             \/ (on => climate[w].unit \in unitOn) /\ disturbed' = disturbed
             \/ disturbed' = disturbed \union {w}
      PROVE  ClimateInv'
  <2> DEFINE asks == Climate!Plan(climate[w], on)
             s == [climate[w] EXCEPT !.at = IF asks = {} THEN "closing" ELSE "sending", !.plan = asks, !.tries = 1]
  <2>1. /\ climate[w].at = "reading" /\ climate' = [climate EXCEPT ![w] = s]
        /\ UNCHANGED <<unitOn, taken, settingsLanded, requests>>
    BY <1>1, <1>9 DEF Climate!Reads
  <2>2. climate[w].wants \subseteq Climate!Commands
    BY <1>2 DEF ClimateState
  <2>3. asks \subseteq Climate!Commands
    BY <1>3, <2>2 DEF Climate!Plan
  <2>4. /\ climate[w].power = "off" => asks = {"off"}
        /\ climate[w].power # "off" => climate[w].wants \subseteq asks
        /\ climate[w].power # "off" => "on" \in asks \/ on
        /\ climate[w].power # "off" /\ "off" \in asks => "off" \in climate[w].wants
    BY DEF Climate!Plan
  <2> HIDE DEF asks
  <2>5. /\ s \in ClimateState /\ s.at = (IF asks = {} THEN "closing" ELSE "sending") /\ s.unit = climate[w].unit
        /\ s.power = climate[w].power /\ s.wants = climate[w].wants /\ s.plan = asks
    <3>1. climate[w] \in ClimateState /\ asks \in SUBSET Climate!Commands
      BY <1>2, <2>3
    <3>2. CASE asks = {}
      <4>1. LET n == [climate[w] EXCEPT !.at = "closing", !.plan = asks, !.tries = 1]
            IN  /\ n \in ClimateState /\ n.at = "closing" /\ n.unit = climate[w].unit /\ n.power = climate[w].power
                /\ n.wants = climate[w].wants /\ n.plan = asks
        BY <3>1, PlanRecord
      <4> QED BY <3>2, <4>1
    <3>3. CASE asks # {}
      <4>1. LET n == [climate[w] EXCEPT !.at = "sending", !.plan = asks, !.tries = 1]
            IN  /\ n \in ClimateState /\ n.at = "sending" /\ n.unit = climate[w].unit /\ n.power = climate[w].power
                /\ n.wants = climate[w].wants /\ n.plan = asks
        BY <3>1, PlanRecord
      <4> QED BY <3>3, <4>1
    <3> QED BY <3>2, <3>3
  <2> HIDE DEF s
  <2>7. w \in disturbed' \/ (on => climate[w].unit \in unitOn)
    BY <1>9
  <2>6. StepRight(s, taken[w], settingsLanded[w], unitOn, w \in disturbed')
    <3>1. StepRight(climate[w], taken[w], settingsLanded[w], unitOn, w \in disturbed) /\ climate[w].at = "reading"
      BY <1>2, <2>1
    <3>2. /\ \A c \in Climate!Commands : taken[w][c] = 0 /\ taken[w][c] <= 1
          /\ s.unit \in Units /\ "on" \notin s.wants /\ "off" \notin s.wants /\ (s.power = "off" => s.wants = {})
          /\ s.power # "off" => "off" \notin asks
      BY <2>4, <2>5, <3>1 DEF StepRight
    <3>3. Unsent(s) = asks
      BY <2>5 DEF Unsent
    <3>4. \A c \in asks : taken[w][c] = 0
      BY <2>3, <3>2
    <3>5. w \in disturbed' \/ s.power = "off" \/ "on" \in asks \/ s.unit \in unitOn
      BY <2>4, <2>5, <2>7
    <3>6. s.wants \subseteq asks
      BY <2>4, <2>5, <3>2
    <3> QED BY <2>5, <3>2, <3>3, <3>4, <3>5, <3>6 DEF StepRight
  <2>8. /\ disturbed \subseteq disturbed' /\ disturbed' \subseteq Workers
        /\ s.at # "idle" /\ requests > 0
    BY <1>1, <1>9, <2>1, <2>5 DEF ClimateInv
  <2>9. \A v \in Workers \ {w} : /\ v \in disturbed => v \in disturbed'
                                 /\ climate[v].unit \in unitOn => v \in disturbed' \/ climate[v].unit \in unitOn'
    BY <2>1, <2>8
  <2>10. /\ requests' \in 0..MaxRequests /\ requests <= requests' /\ requests' > 0
         /\ unitOn' \subseteq Units /\ taken' = taken /\ settingsLanded' = settingsLanded
    BY <1>1, <2>1, <2>8
  <2>11. StepRight(s, taken'[w], settingsLanded'[w], unitOn', w \in disturbed')
    BY <2>1, <2>6
  <2> QED BY <1>1, <2>1, <2>5, <2>8, <2>9, <2>10, <2>11, ClimateOfOne
<1>17. ASSUME NEW w \in Workers, Climate!ReadStatus(w) PROVE ClimateInv'
  <2> DEFINE on == climate[w].unit \in unitOn
  <2>1. Climate!Reads(w, on) /\ disturbed' = disturbed /\ (on => climate[w].unit \in unitOn)
    BY <1>17 DEF Climate!ReadStatus
  <2>2. on \in BOOLEAN
    OBVIOUS
  <2> HIDE DEF on
  <2> QED BY <1>9, <2>1, <2>2
<1>18. ASSUME NEW w \in Workers, Climate!ReadLate(w) PROVE ClimateInv'
  <2> DEFINE on == climate[w].unit \in unitOn
  <2>1. Climate!Reads(w, ~on) /\ disturbed' = IF on THEN disturbed ELSE disturbed \union {w}
    BY <1>18 DEF Climate!ReadLate
  <2>2. \/ (~on => climate[w].unit \in unitOn) /\ disturbed' = disturbed
        \/ disturbed' = disturbed \union {w}
    BY <2>1
  <2>3. (~on) \in BOOLEAN
    OBVIOUS
  <2> QED BY <1>9, <2>1, <2>2, <2>3
\* The records a command leaves behind.
<1>10. ASSUME NEW w \in Workers, climate[w].at \in {"sending", "confirming"}
       PROVE  LET s == Climate!Advanced(climate[w])
                  rest == climate[w].plan \ {Climate!First(climate[w].plan)}
              IN  /\ s \in ClimateState /\ s.unit = climate[w].unit /\ s.power = climate[w].power
                  /\ s.wants = climate[w].wants
                  /\ \/ s.at = "sending" /\ s.plan = rest /\ s.plan # {}
                     \/ s.at = "closing" /\ s.plan = {} /\ rest = {}
  <2> DEFINE rest == climate[w].plan \ {Climate!First(climate[w].plan)}
  <2>1. rest \subseteq Climate!Commands
    BY <1>2 DEF ClimateState
  <2>2. Climate!Advanced(climate[w]) = IF rest # {} THEN [climate[w] EXCEPT !.at = "sending", !.plan = rest, !.tries = 1]
                                       ELSE [climate[w] EXCEPT !.at = "closing", !.plan = {}]
    BY DEF Climate!Advanced
  <2> HIDE DEF rest
  <2>3. CASE rest # {}
    <3>1. \A x \in SUBSET Climate!Commands :
            LET n == [climate[w] EXCEPT !.at = "sending", !.plan = x, !.tries = 1]
            IN  /\ n \in ClimateState /\ n.at = "sending" /\ n.unit = climate[w].unit /\ n.power = climate[w].power
                /\ n.wants = climate[w].wants /\ n.plan = x
      BY <1>2, PlanRecord
    <3>2. LET n == [climate[w] EXCEPT !.at = "sending", !.plan = rest, !.tries = 1]
          IN  /\ n \in ClimateState /\ n.at = "sending" /\ n.unit = climate[w].unit /\ n.power = climate[w].power
              /\ n.wants = climate[w].wants /\ n.plan = rest
      BY <2>1, <3>1
    <3> QED BY <2>2, <2>3, <3>2 DEF rest
  <2>4. CASE rest = {}
    BY <1>2, <2>2, <2>4 DEF ClimateState, rest
  <2> QED BY <2>3, <2>4
<1>11. ASSUME NEW w \in Workers, Climate!Sent(w) PROVE ClimateInv'
  <2> DEFINE s == Climate!Advanced(climate[w])
  <2>1. climate[w].at = "sending" /\ Climate!Takes(w) /\ UNCHANGED requests /\ climate' = [climate EXCEPT ![w] = s]
    BY <1>1, <1>11 DEF Climate!Sent
  <2>2. /\ s \in ClimateState /\ s.unit = climate[w].unit /\ s.power = climate[w].power /\ s.wants = climate[w].wants
        /\ \/ s.at = "sending" /\ s.plan = climate[w].plan \ {Climate!First(climate[w].plan)} /\ s.plan # {}
           \/ s.at = "closing" /\ s.plan = {} /\ climate[w].plan \ {Climate!First(climate[w].plan)} = {}
    BY <1>10, <2>1
  <2> HIDE DEF s
  <2> QED BY <2>1, <2>2, ClimateTakes
<1>12. ASSUME NEW w \in Workers, Climate!SentBare(w) PROVE ClimateInv'
  <2> DEFINE s == [climate[w] EXCEPT !.at = "confirming"]
  <2>1. climate[w].at = "sending" /\ Climate!Takes(w) /\ UNCHANGED requests /\ climate' = [climate EXCEPT ![w] = s]
    BY <1>1, <1>12 DEF Climate!SentBare, Climate!AfterBare
  <2>2. /\ s \in ClimateState /\ s.unit = climate[w].unit /\ s.power = climate[w].power /\ s.wants = climate[w].wants
        /\ s.at = "confirming" /\ s.plan = climate[w].plan
    BY <1>2 DEF ClimateState
  <2> HIDE DEF s
  <2> QED BY <2>1, <2>2, ClimateTakes
<1>13. ASSUME NEW w \in Workers, Climate!SendRefused(w) PROVE ClimateInv'
  <2> DEFINE s == Climate!AfterRefusal(climate[w])
  <2>1. /\ climate[w].at = "sending" /\ climate' = [climate EXCEPT ![w] = s]
        /\ UNCHANGED <<unitOn, taken, settingsLanded, disturbed, requests>>
    BY <1>1, <1>13 DEF Climate!SendRefused, Climate!Stays
  <2>2. /\ s \in ClimateState /\ s.unit = climate[w].unit /\ s.power = climate[w].power /\ s.wants = climate[w].wants
        /\ s.at \in {"sending", "failed"} /\ s.plan = climate[w].plan
    BY <1>2, <2>1 DEF ClimateState, Climate!AfterRefusal
  <2> HIDE DEF s
  <2>3. StepRight(s, taken[w], settingsLanded[w], unitOn, w \in disturbed)
    BY <1>2, <2>1, <2>2 DEF StepRight, Unsent
  <2> QED BY <2>1, <2>2, <2>3, ClimateOn
<1>14. ASSUME NEW w \in Workers, Climate!Confirm(w) PROVE ClimateInv'
  <2> DEFINE s == Climate!Advanced(climate[w])
             rest == climate[w].plan \ {Climate!First(climate[w].plan)}
  <2>1. /\ climate[w].at = "confirming" /\ climate' = [climate EXCEPT ![w] = s]
        /\ UNCHANGED <<unitOn, taken, settingsLanded, disturbed, requests>>
    BY <1>1, <1>14 DEF Climate!Confirm
  <2>2. /\ s \in ClimateState /\ s.unit = climate[w].unit /\ s.power = climate[w].power /\ s.wants = climate[w].wants
        /\ \/ s.at = "sending" /\ s.plan = rest /\ s.plan # {}
           \/ s.at = "closing" /\ s.plan = {} /\ rest = {}
    BY <1>10, <2>1
  <2>3. Unsent(climate[w]) = rest /\ rest \subseteq climate[w].plan
    BY <2>1 DEF Unsent
  <2> HIDE DEF s, rest
  <2>4. Unsent(s) = rest
    BY <2>2 DEF Unsent
  <2>5. StepRight(s, taken[w], settingsLanded[w], unitOn, w \in disturbed)
    BY <1>2, <2>1, <2>2, <2>3, <2>4 DEF StepRight
  <2> QED BY <2>1, <2>2, <2>5, ClimateOn
<1>15. ASSUME NEW u \in Units, Climate!RemoteOn(u) PROVE ClimateInv'
  <2>1. unitOn' = unitOn \union {u} /\ UNCHANGED <<climate, taken, settingsLanded, disturbed, requests>>
    BY <1>15 DEF Climate!RemoteOn
  <2>2. ClimateTypes'
    BY <1>1, <2>1 DEF ClimateTypes
  <2>3. \A w \in Workers : StepRight(climate[w], taken[w], settingsLanded[w], unitOn', w \in disturbed)
    BY <1>2, <2>1 DEF StepRight
  <2> QED BY <2>1, <2>2, <2>3 DEF ClimateInv
<1>16. ASSUME NEW u \in Units, Climate!RemoteOff(u) PROVE ClimateInv'
  <2>1. /\ unitOn' = unitOn \ {u} /\ UNCHANGED <<climate, taken, settingsLanded, requests>>
        /\ disturbed' = disturbed \union {v \in Workers : climate[v].unit = u}
    BY <1>16 DEF Climate!RemoteOff
  <2>2. ClimateTypes'
    BY <1>1, <2>1 DEF ClimateTypes
  <2>3. ASSUME NEW w \in Workers PROVE StepRight(climate[w], taken[w], settingsLanded[w], unitOn', w \in disturbed')
    <3>1. /\ w \in disturbed => w \in disturbed'
          /\ climate[w].unit \in unitOn => w \in disturbed' \/ climate[w].unit \in unitOn'
      BY <2>1
    <3> QED BY <1>2, <3>1 DEF StepRight
  <2> QED BY <2>1, <2>2, <2>3 DEF ClimateInv
<1> QED BY <1>4, <1>6, <1>7, <1>8, <1>17, <1>18, <1>11, <1>12, <1>13, <1>14, <1>15, <1>16 DEF Climate!Next

\* It implies the types and the properties of the air conditioner.
LEMMA ClimateSafe == ClimateInv => Climate!TypeOK /\ Climate!TakenOnce /\ Climate!AnnouncedLanded
<1> SUFFICES ASSUME ClimateInv PROVE Climate!TypeOK /\ Climate!TakenOnce /\ Climate!AnnouncedLanded
  OBVIOUS
<1>1. ClimateTypes /\ MaxRequests \in Nat
  BY ClimateAssumption DEF ClimateInv
<1>2. ASSUME NEW w \in Workers, NEW c \in Climate!Commands PROVE taken[w][c] \in 0..MaxRequests /\ taken[w][c] <= 1
  <2>1. taken[w][c] \in Nat /\ requests \in 0..MaxRequests
    BY <1>1 DEF ClimateTypes
  <2>2. /\ taken[w][c] <= 1 /\ (climate[w].at # "idle" => requests > 0)
        /\ climate[w].at = "idle" => taken[w][c] = 0
    BY DEF ClimateInv, StepRight
  <2> QED BY <1>1, <2>1, <2>2
<1>3. taken \in [Workers -> [Climate!Commands -> 0..MaxRequests]]
  BY <1>1, <1>2 DEF ClimateTypes
<1>4. Climate!TypeOK
  BY <1>1, <1>3 DEF Climate!TypeOK, ClimateTypes, ClimateState
<1>5. Climate!TakenOnce
  BY <1>2 DEF Climate!TakenOnce
<1>6. ASSUME NEW w \in Workers, climate[w].at = "ok", w \notin disturbed PROVE climate[w].wants \subseteq settingsLanded[w]
  BY <1>6 DEF ClimateInv, StepRight, Unsent
<1>7. Climate!AnnouncedLanded
  BY <1>6 DEF Climate!AnnouncedLanded
<1> QED BY <1>4, <1>5, <1>7

-----------------------------------------------------------------------------
(* What the Edge offers.                                                   *)

OfferInv == Offer!TypeOK /\ Offer!AdsSurvive

\* The invariant of the offers holds at the start.
LEMMA OfferBegins == Offer!Init => OfferInv
<1> SUFFICES ASSUME Offer!Init PROVE OfferInv
  OBVIOUS
<1>1. works \subseteq Offer!Atoms /\ declared = {} /\ toProbe = {} /\ capsSeen = {} /\ told = {}
  BY DEF Offer!Init
<1>2. catalogFile \in {0, 1} /\ remote \in {0, 1} /\ disk = 0 /\ ads = Offer!Unset
      /\ fresh = FALSE /\ described = FALSE
  BY Zenon DEF Offer!Init
<1>3. {fresh, described} \subseteq BOOLEAN
  BY <1>2, Zenon
<1> QED BY <1>1, <1>2, <1>3 DEF OfferInv, Offer!TypeOK, Offer!AdsSurvive, Offer!Unset

\* It holds as long as none of the part's variables changes.
LEMMA OfferStays == OfferInv /\ UNCHANGED offerVars => OfferInv'
BY DEF OfferInv, offerVars, Offer!TypeOK, Offer!AdsSurvive, Offer!Atoms, Offer!Unset

\* Whatever the ads are read from: what is known, or cached, stays known.
LEMMA OfferLoads ==
  ASSUME OfferInv, NEW m \in {Offer!Unset, ads}, Offer!Loaded(m), UNCHANGED <<catalogFile, remote>>,
         NEW was \in BOOLEAN, was => m \notin {0, Offer!Unset}, described' = (was \/ ads' # 0)
  PROVE  /\ catalogFile' \in 0..1 /\ {remote, disk}' \subseteq 0..2 /\ ads' \in 0..Offer!Unset
         /\ {fresh, described}' \subseteq BOOLEAN
         /\ described' \/ disk' # 0 => ads' \notin {0, Offer!Unset}
<1>1. /\ catalogFile \in 0..1 /\ remote \in 0..2 /\ disk \in 0..2 /\ ads \in 0..3 /\ Offer!Unset = 3
  BY DEF OfferInv, Offer!TypeOK, Offer!Unset
<1>2. /\ disk' \in 0..2 /\ ads' \in 0..3 /\ ads' # 3 /\ (disk' # 0 => ads' # 0) /\ (was => ads' # 0)
  BY <1>1 DEF Offer!Loaded
<1>3. fresh' \in BOOLEAN
  BY <1>1, Zenon DEF Offer!Loaded
<1>4. described' \in BOOLEAN /\ (described' => ads' # 0)
  <2>1. described' => ads' # 0
    BY <1>2
  <2>2. described' \in BOOLEAN
    BY Zenon
  <2> QED BY <2>1, <2>2, Zenon
<1>5. catalogFile' \in 0..1 /\ remote' \in 0..2
  BY <1>1
<1>6. {fresh, described}' \subseteq BOOLEAN
  BY <1>3, <1>4, Zenon
<1>7. described' \/ disk' # 0 => ads' \notin {0, Offer!Unset}
  BY <1>1, <1>2, <1>4
<1>8. {remote, disk}' \subseteq 0..2 /\ ads' \in 0..Offer!Unset
  BY <1>1, <1>2, <1>5
<1> QED BY <1>5, <1>6, <1>7, <1>8, Zenon

\* Every step of the part keeps it.
LEMMA OfferStep == OfferInv /\ Offer!Next => OfferInv'
<1> SUFFICES ASSUME OfferInv, Offer!Next PROVE OfferInv'
  OBVIOUS
<1> USE DEF OfferInv, Offer!TypeOK, Offer!AdsSurvive, Offer!Atoms, Offer!Unset
<1>1. CASE Offer!Refresh
  <2>1. /\ Offer!Loaded(ads) /\ UNCHANGED <<works, catalogFile, remote, declared, toProbe, capsSeen, told>>
        /\ described' = (described \/ ads' # 0)
    BY <1>1 DEF Offer!Refresh, Offer!offerVars
  <2>2. described \in BOOLEAN /\ (described => ads \notin {0, Offer!Unset})
    OBVIOUS
  <2>3. OfferInv
    OBVIOUS
  <2> HIDE DEF OfferInv, Offer!TypeOK, Offer!AdsSurvive, Offer!Atoms, Offer!Unset
  <2>4. /\ catalogFile' \in 0..1 /\ {remote, disk}' \subseteq 0..2 /\ ads' \in 0..Offer!Unset
        /\ {fresh, described}' \subseteq BOOLEAN
        /\ described' \/ disk' # 0 => ads' \notin {0, Offer!Unset}
    BY <2>1, <2>2, <2>3, OfferLoads
  <2> QED BY <2>1, <2>4 DEF OfferInv, Offer!TypeOK, Offer!AdsSurvive, Offer!Atoms, Offer!Unset
<1>2. CASE Offer!StartEdge
  <2>1. /\ Offer!Loaded(Offer!Unset) /\ toProbe' = {} /\ capsSeen' = {}
        /\ UNCHANGED <<works, told, catalogFile, remote>> /\ described' = (ads' # 0)
    BY <1>2 DEF Offer!StartEdge
  <2>2. declared' \subseteq Caps
    BY <1>2 DEF Offer!StartEdge, Offer!Declarable
  <2>3. OfferInv /\ described' = (FALSE \/ ads' # 0)
    BY <2>1
  <2> HIDE DEF OfferInv, Offer!TypeOK, Offer!AdsSurvive, Offer!Atoms, Offer!Unset
  <2>4. /\ catalogFile' \in 0..1 /\ {remote, disk}' \subseteq 0..2 /\ ads' \in 0..Offer!Unset
        /\ {fresh, described}' \subseteq BOOLEAN
        /\ described' \/ disk' # 0 => ads' \notin {0, Offer!Unset}
    BY <2>1, <2>3, OfferLoads
  <2> QED BY <2>1, <2>2, <2>4 DEF OfferInv, Offer!TypeOK, Offer!AdsSurvive, Offer!Atoms, Offer!Unset
<1>3. CASE Offer!BeginBeat
  BY <1>3 DEF Offer!BeginBeat, Offer!adVars
<1>4. ASSUME NEW c \in Caps, Offer!Probe(c) PROVE OfferInv'
  <2>1. toProbe' \subseteq declared /\ capsSeen' \subseteq declared
    BY <1>4 DEF Offer!Probe
  <2>2. told' \subseteq Caps
    BY <1>4, <2>1 DEF Offer!Probe
  <2> QED BY <1>4, <2>1, <2>2 DEF Offer!Probe, Offer!adVars
<1>5. CASE Offer!WorksOrNot
  BY <1>5 DEF Offer!WorksOrNot, Offer!Turn, Offer!offerVars, Offer!adVars
<1>6. CASE Offer!CatalogChanges
  BY <1>6 DEF Offer!CatalogChanges, Offer!Turn, Offer!offerVars
<1>7. CASE Offer!AdsAge
  BY <1>7 DEF Offer!AdsAge, Offer!offerVars
<1> QED BY <1>1, <1>2, <1>3, <1>4, <1>5, <1>6, <1>7 DEF Offer!Next

\* It implies the types and the properties of the offers.
LEMMA OfferSafe == OfferInv => Offer!TypeOK /\ Offer!AdsSurvive
BY DEF OfferInv

-----------------------------------------------------------------------------
(* Several Brains.                                                         *)

BrainsTypes ==
    /\ offers \in [Brains -> SUBSET Ids] /\ down \subseteq Brains
    /\ origin \in [Ids -> Brains \union {0}] /\ reportsLanded \subseteq Ids \X Brains
    /\ report \in [Ids -> Seq(Brains)]

ReportsShort == \A i \in Ids : Len(report[i]) <= Cardinality(Brains)

BrainsInv == BrainsTypes /\ ReportsShort

\* The Brains are numbered from 1 to their number.
LEMMA BrainsCount ==
  /\ Cardinality(Brains) \in Nat \ {0} /\ Brains = 1..Cardinality(Brains) /\ 1 \in Brains
  /\ Several!Cardinality(Brains) = Cardinality(Brains)
<1>1. PICK n \in Nat \ {0} : Brains = 1..n
  BY BrainsNumbers
<1>2. Cardinality(1..n) = n
  <2>1. Cardinality(1..n) = IF 1 > n THEN 0 ELSE n - 1 + 1
    BY FS_Interval
  <2> QED BY <2>1
<1>3. Several!Cardinality(Brains) = Cardinality(Brains)
  BY DEF Several!Cardinality, Cardinality
<1> QED BY <1>1, <1>2, <1>3

\* Whoever is asked first, every Brain is asked once.
LEMMA ProbeOrderRight ==
  ASSUME BrainsTypes, NEW i \in Ids
  PROVE  Several!ProbeOrder(i) \in Seq(Brains) /\ Len(Several!ProbeOrder(i)) = Cardinality(Brains)
<1> DEFINE first == IF origin[i] # 0 THEN origin[i] ELSE 1
           n == Cardinality(Brains)
           order == [k \in 1..n |-> IF k = 1 THEN first ELSE IF k <= first THEN k - 1 ELSE k]
<1>1. n \in Nat \ {0} /\ Brains = 1..n /\ 1 \in Brains
  BY BrainsCount
<1>2. first \in Brains
  BY <1>1 DEF BrainsTypes
<1>3. Several!ProbeOrder(i) = order
  BY BrainsCount DEF Several!ProbeOrder
<1> HIDE DEF n, first
<1>4. \A k \in 1..n : (IF k = 1 THEN first ELSE IF k <= first THEN k - 1 ELSE k) \in Brains
  BY <1>1, <1>2
<1>5. order \in [1..n -> Brains] /\ n \in Nat
  BY <1>1, <1>4
<1> HIDE DEF order
<1>6. order \in Seq(Brains) /\ Len(order) = n
  BY <1>5
<1> QED BY <1>3, <1>6 DEF n

\* The invariant of the Brains holds at the start.
LEMMA BrainsBegin == Several!Init => BrainsInv
<1> SUFFICES ASSUME Several!Init PROVE BrainsInv
  OBVIOUS
<1>1. /\ offers \in [Brains -> SUBSET Ids] /\ down = {} /\ origin = [i \in Ids |-> 0]
      /\ report = [i \in Ids |-> <<>>] /\ reportsLanded = {}
  BY DEF Several!Init
<1>2. MaxCloudCalls \in Nat /\ Cardinality(Brains) \in Nat /\ Brains \subseteq Nat
  BY BrainsNumbers, BrainsCount
<1>3. report \in [Ids -> Seq(Brains)] /\ \A i \in Ids : Len(report[i]) = 0
  BY <1>1
<1>4. BrainsTypes
  BY <1>1, <1>3 DEF BrainsTypes
<1>5. ReportsShort
  BY <1>2, <1>3 DEF ReportsShort
<1> QED BY <1>4, <1>5 DEF BrainsInv

\* It holds as long as none of the part's variables changes.
LEMMA BrainsStay == BrainsInv /\ UNCHANGED brainsVars => BrainsInv'
BY DEF BrainsInv, BrainsTypes, ReportsShort, brainsVars

\* A step keeps the invariant if it keeps each variable's shape.
LEMMA BrainsIntents ==
  ASSUME BrainsInv,
         offers' = offers, down' \subseteq Brains, origin' \in [Ids -> Brains \union {0}],
         reportsLanded' \subseteq Ids \X Brains, report' \in [Ids -> Seq(Brains)],
         \A i \in Ids : Len(report'[i]) <= Cardinality(Brains)
  PROVE  BrainsInv'
<1>1. BrainsTypes'
  BY DEF BrainsInv, BrainsTypes
<1> QED BY <1>1 DEF BrainsInv, ReportsShort

\* Every step of the part keeps it.
LEMMA BrainsStep == BrainsInv /\ Several!Next => BrainsInv'
<1> SUFFICES ASSUME BrainsInv, Several!Next PROVE BrainsInv'
  OBVIOUS
<1>1. /\ Cardinality(Brains) \in Nat \ {0} /\ Brains = 1..Cardinality(Brains)
      /\ Several!Cardinality(Brains) = Cardinality(Brains) /\ 1 \in Brains /\ Brains \subseteq Nat
  BY BrainsCount, BrainsNumbers
<1>2. /\ offers \in [Brains -> SUBSET Ids] /\ down \subseteq Brains
      /\ origin \in [Ids -> Brains \union {0}] /\ reportsLanded \subseteq Ids \X Brains
      /\ report \in [Ids -> Seq(Brains)] /\ \A i \in Ids : Len(report[i]) <= Cardinality(Brains)
  BY DEF BrainsInv, BrainsTypes, ReportsShort
<1>3. CASE Several!Pull
  <2>1. PICK slow : origin' = Several!Remember(Several!Up \ slow)
    BY <1>3 DEF Several!Pull
  <2> DEFINE answering == Several!Up \ slow
  <2>2. answering \subseteq Brains
    BY DEF Several!Up
  <2>3. ASSUME NEW i \in Ids, \E b \in answering : i \in offers[b] PROVE Several!FirstOf(i, answering) \in Brains
    <3> DEFINE has == {b \in answering : i \in offers[b]}
    <3>1. has \subseteq Nat /\ has # {}
      BY <1>1, <2>2, <2>3
    <3>2. PICK b \in has : \A c \in has : b <= c
      BY <3>1, LeastNat
    <3>3. b \in answering /\ i \in offers[b] /\ \A c \in answering : i \in offers[c] => b <= c
      BY <3>2
    <3>4. Several!FirstOf(i, answering) \in answering
      BY <3>3 DEF Several!FirstOf
    <3> QED BY <2>2, <3>4
  <2>4. origin' \in [Ids -> Brains \union {0}]
    <3> HIDE DEF answering
    <3>1. origin' = [i \in Ids |-> IF \E b \in answering : i \in offers[b] THEN Several!FirstOf(i, answering) ELSE origin[i]]
      BY <2>1 DEF Several!Remember, answering
    <3>2. \A i \in Ids : (IF \E b \in answering : i \in offers[b] THEN Several!FirstOf(i, answering) ELSE origin[i]) \in Brains \union {0}
      BY <1>2, <2>3
    <3> QED BY <3>1, <3>2
  <2>5. UNCHANGED <<report, reportsLanded, offers, down>>
    BY <1>3 DEF Several!Pull, Several!worldVars
  <2> QED BY <1>2, <2>4, <2>5, BrainsIntents
<1>4. ASSUME NEW i \in Ids, Several!StartReport(i) PROVE BrainsInv'
  <2> DEFINE r == Several!ProbeOrder(i)
  <2>1. r \in Seq(Brains) /\ Len(r) = Cardinality(Brains)
    BY ProbeOrderRight DEF BrainsInv
  <2>2. /\ report' = [report EXCEPT ![i] = r]
        /\ UNCHANGED <<origin, reportsLanded, offers, down>>
    BY <1>4 DEF Several!StartReport, Several!worldVars
  <2> HIDE DEF r
  <2>3. report' \in [Ids -> Seq(Brains)] /\ \A j \in Ids : Len(report'[j]) <= Cardinality(Brains)
    BY <1>1, <1>2, <2>1, <2>2
  <2> QED BY <1>2, <2>2, <2>3, BrainsIntents
<1>5. ASSUME NEW i \in Ids, Several!AskBrain(i) PROVE BrainsInv'
  <2>1. report[i] # <<>> /\ report[i] \in Seq(Brains)
    BY <1>2, <1>5 DEF Several!AskBrain
  <2>2. Head(report[i]) \in Brains /\ Tail(report[i]) \in Seq(Brains) /\ Len(Tail(report[i])) <= Cardinality(Brains)
    <3>1. Len(report[i]) \in Nat /\ Len(report[i]) <= Cardinality(Brains) /\ Len(report[i]) > 0
      BY <1>2, <2>1
    <3>2. Len(Tail(report[i])) = Len(report[i]) - 1
      BY <2>1
    <3>3. Len(Tail(report[i])) <= Cardinality(Brains)
      BY <1>1, <3>1, <3>2
    <3> QED BY <2>1, <3>3
  <2> DEFINE b == Head(report[i])
             rest == Tail(report[i])
  <2>3. \/ report' = [report EXCEPT ![i] = <<>>] \/ report' = [report EXCEPT ![i] = rest]
    BY <1>2, <1>5 DEF Several!AskBrain
  <2>4. \/ UNCHANGED <<origin, reportsLanded>>
        \/ origin' = [origin EXCEPT ![i] = b] /\ reportsLanded' = reportsLanded \union {<<i, b>>}
    BY <1>5 DEF Several!AskBrain
  <2>5. UNCHANGED <<offers, down>>
    BY <1>5 DEF Several!AskBrain, Several!worldVars
  <2>6. b \in Brains /\ rest \in Seq(Brains) /\ Len(rest) <= Cardinality(Brains)
    BY <2>2
  <2> HIDE DEF b, rest
  <2>7. origin' \in [Ids -> Brains \union {0}] /\ reportsLanded' \subseteq Ids \X Brains
    <3>1. origin' = origin \/ origin' = [origin EXCEPT ![i] = b]
      BY <2>4
    <3>2. origin' \in [Ids -> Brains \union {0}]
      BY <1>2, <2>6, <3>1
    <3>3. reportsLanded' = reportsLanded \/ reportsLanded' = reportsLanded \union {<<i, b>>}
      BY <2>4
    <3>4. <<i, b>> \in Ids \X Brains
      BY <2>6
    <3>5. reportsLanded' \subseteq Ids \X Brains
      BY <1>2, <3>3, <3>4
    <3> QED BY <3>2, <3>5
  <2>8. report' \in [Ids -> Seq(Brains)] /\ \A j \in Ids : Len(report'[j]) <= Cardinality(Brains)
    <3>1. <<>> \in Seq(Brains) /\ Len(<<>>) <= Cardinality(Brains)
      BY <1>1
    <3>2. \A x \in Seq(Brains) : Len(x) <= Cardinality(Brains) /\ report' = [report EXCEPT ![i] = x] =>
            report' \in [Ids -> Seq(Brains)] /\ \A j \in Ids : Len(report'[j]) <= Cardinality(Brains)
      BY <1>2
    <3> QED BY <2>3, <2>6, <3>1, <3>2
  <2> QED BY <1>2, <2>5, <2>7, <2>8, BrainsIntents
<1>6. ASSUME NEW b \in Brains, Several!GoesDown(b) \/ Several!ComesBack(b) PROVE BrainsInv'
  <2>1. /\ down' = down \union {b} \/ down' = down \ {b}
        /\ UNCHANGED <<offers, origin, report, reportsLanded>>
    BY <1>6 DEF Several!GoesDown, Several!ComesBack, Several!intentVars
  <2> QED BY <1>2, <2>1, BrainsIntents
<1>7. CASE Several!Restart
  <2>1. /\ origin' = [i \in Ids |-> 0] /\ report' = [i \in Ids |-> <<>>]
        /\ UNCHANGED <<reportsLanded, offers, down>>
    BY <1>7 DEF Several!Restart
  <2>2. report' \in [Ids -> Seq(Brains)] /\ \A i \in Ids : Len(report'[i]) <= Cardinality(Brains)
    <3>1. <<>> \in Seq(Brains) /\ Len(<<>>) <= Cardinality(Brains)
      BY <1>1
    <3>2. \A x \in Seq(Brains) : Len(x) <= Cardinality(Brains) /\ report' = [i \in Ids |-> x] =>
            report' \in [Ids -> Seq(Brains)] /\ \A j \in Ids : Len(report'[j]) <= Cardinality(Brains)
      OBVIOUS
    <3> QED BY <2>1, <3>1, <3>2
  <2>3. origin' \in [Ids -> Brains \union {0}]
    BY <2>1
  <2> QED BY <1>2, <2>1, <2>2, <2>3, BrainsIntents
<1> QED BY <1>3, <1>4, <1>5, <1>6, <1>7 DEF Several!Next

\* It implies the types of the Brains.
LEMMA BrainsSafe == BrainsInv => Several!TypeOK
BY BrainsCount DEF BrainsInv, BrainsTypes, ReportsShort, Several!TypeOK

-----------------------------------------------------------------------------
(* The counts of cloud calls.                                              *)

UsageTypes ==
    /\ beat \in [Usage!Senders -> 0..(Cardinality(Brains) + 1)]
    /\ usage \in Nat /\ delta \in [Usage!Senders -> Nat]
    /\ counted \in [Usage!Senders -> [Brains -> Nat]] /\ made \in 0..MaxCloudCalls
    /\ retold \in BOOLEAN /\ crossed \in BOOLEAN

UsageBounded == usage <= made /\ \A s \in Usage!Senders : delta[s] <= made

\* What a sender has told a Brain, with what is in the file and with what it carries, is no
\* more than the calls made; a Brain it has told in this heartbeat need not count the file.
ToldByEach ==
    retold = FALSE => \A s \in Usage!Senders, b \in Brains :
        /\ counted[s][b] <= made
        /\ ~(b < beat[s]) => counted[s][b] + usage <= made
        /\ ~(b < beat[s]) /\ beat[s] > 0 => counted[s][b] + delta[s] <= made

Total(b) == counted["heartbeat"][b] + counted["register"][b]

\* As long as no two heartbeats met, one is under way at most, and the same holds of what
\* both have told together.
ToldByBoth ==
    crossed = FALSE =>
        /\ \A s, r \in Usage!Senders : beat[s] > 0 /\ beat[r] > 0 => s = r
        /\ retold = FALSE => \A b \in Brains :
             /\ Total(b) <= made
             /\ (\A s \in Usage!Senders : ~(b < beat[s])) => Total(b) + usage <= made
             /\ \A s \in Usage!Senders : ~(b < beat[s]) /\ beat[s] > 0 => Total(b) + delta[s] <= made

UsageInv == UsageTypes /\ UsageBounded /\ ToldByEach /\ ToldByBoth

\* The invariant of the counts holds at the start.
LEMMA UsageBegins == Usage!Init => UsageInv
<1> SUFFICES ASSUME Usage!Init PROVE UsageInv
  OBVIOUS
<1>1. /\ beat = [s \in Usage!Senders |-> 0] /\ delta = [s \in Usage!Senders |-> 0] /\ usage = 0
      /\ counted = [s \in Usage!Senders |-> [b \in Brains |-> 0]]
      /\ made = 0 /\ retold = FALSE /\ crossed = FALSE
  BY DEF Usage!Init
<1>2. MaxCloudCalls \in Nat /\ Cardinality(Brains) \in Nat
  BY BrainsNumbers, BrainsCount
<1>3. {"heartbeat", "register"} = Usage!Senders
  BY DEF Usage!Senders
<1>4. UsageTypes
  <2>1. /\ 0 \in 0..(Cardinality(Brains) + 1) /\ made \in 0..MaxCloudCalls
        /\ [b \in Brains |-> 0] \in [Brains -> Nat]
    BY <1>1, <1>2
  <2>2. \A x : x \in [Brains -> Nat] => [s \in Usage!Senders |-> x] \in [Usage!Senders -> [Brains -> Nat]]
    OBVIOUS
  <2>3. counted \in [Usage!Senders -> [Brains -> Nat]]
    BY <1>1, <2>1, <2>2
  <2> QED BY <1>1, <2>1, <2>3 DEF UsageTypes
<1>5. UsageBounded
  BY <1>1 DEF UsageBounded
<1>6. ToldByEach
  BY <1>1 DEF ToldByEach
<1>7. ToldByBoth
  BY <1>1, <1>3 DEF ToldByBoth, Total
<1> QED BY <1>4, <1>5, <1>6, <1>7 DEF UsageInv

\* It holds as long as none of the part's variables changes.
LEMMA UsageStays == UsageInv /\ UNCHANGED usageVars => UsageInv'
BY DEF UsageInv, UsageTypes, UsageBounded, ToldByEach, ToldByBoth, Total, usageVars

\* Every step of the part keeps it.
LEMMA UsageStep == UsageInv /\ Usage!Next => UsageInv'
<1> SUFFICES ASSUME UsageInv, Usage!Next PROVE UsageInv'
  OBVIOUS
<1> DEFINE S == Usage!Senders
           N == Cardinality(Brains)
<1>1. /\ N \in Nat \ {0} /\ Brains = 1..N /\ MaxCloudCalls \in Nat
      /\ Usage!Cardinality(Brains) = N /\ "heartbeat" \in S /\ "register" \in S
  BY BrainsCount, BrainsNumbers DEF Usage!Senders, Usage!Cardinality, Cardinality
<1>2. /\ beat \in [S -> 0..(N + 1)] /\ usage \in Nat /\ delta \in [S -> Nat]
      /\ counted \in [S -> [Brains -> Nat]] /\ made \in 0..MaxCloudCalls
      /\ retold \in BOOLEAN /\ crossed \in BOOLEAN
  BY DEF UsageInv, UsageTypes
<1>3. usage <= made /\ \A s \in S : delta[s] <= made
  BY DEF UsageInv, UsageBounded
<1>4. ToldByEach /\ ToldByBoth
  BY DEF UsageInv
<1>5. /\ \A s \in S : beat[s] \in Nat /\ delta[s] \in Nat /\ \A b \in Brains : counted[s][b] \in Nat
      /\ \A b \in Brains : b \in Nat /\ b > 0 /\ b <= N /\ Total(b) \in Nat
      /\ made \in Nat
  BY <1>1, <1>2 DEF Total
<1> HIDE DEF N, S
<1>6. CASE Usage!CloudCall
  <2>1. /\ made < MaxCloudCalls /\ made' = made + 1 /\ usage' = usage + 1
        /\ UNCHANGED <<beat, delta, counted, retold, crossed>>
    BY <1>6 DEF Usage!CloudCall
  <2>2. UsageTypes' /\ UsageBounded'
    BY <1>1, <1>2, <1>3, <1>5, <2>1 DEF UsageTypes, UsageBounded, S, N
  <2>3. ToldByEach'
    BY <1>2, <1>4, <1>5, <2>1 DEF ToldByEach, S
  <2>4. \A b \in Brains : Total(b)' = Total(b)
    BY <2>1 DEF Total
  <2>5. ToldByBoth'
    <3>1. \A x, y, z \in Nat : /\ x <= made => x <= made + 1
                               /\ x + y <= made => x + (y + 1) <= made + 1
                               /\ x + z <= made => x + z <= made + 1
      BY <1>5
    <3> QED BY <1>2, <1>4, <1>5, <2>1, <2>4, <3>1 DEF ToldByBoth, S
  <2> QED BY <2>2, <2>3, <2>5 DEF UsageInv
<1>7. ASSUME NEW s \in S, Usage!Snapshot(s) PROVE UsageInv'
  <2>1. /\ beat[s] = 0 /\ beat' = [beat EXCEPT ![s] = 1] /\ delta' = [delta EXCEPT ![s] = usage]
        /\ crossed' = (crossed \/ \E r \in S : beat[r] # 0)
        /\ UNCHANGED <<usage, counted, made, retold>>
    BY <1>7 DEF Usage!Snapshot, S
  <2>2. UsageTypes' /\ UsageBounded'
    BY <1>1, <1>2, <1>3, <1>5, <2>1 DEF UsageTypes, UsageBounded, S, N
  <2>3. /\ beat'[s] = 1 /\ delta'[s] = usage
        /\ \A r \in S \ {s} : beat'[r] = beat[r] /\ delta'[r] = delta[r]
    BY <1>2, <2>1
  <2>4. \A b \in Brains : ~(b < 1) /\ ~(b < 0)
    BY <1>5
  <2>5. ToldByEach'
    <3> SUFFICES ASSUME retold = FALSE, NEW r \in S, NEW b \in Brains
                 PROVE  /\ counted[r][b] <= made
                        /\ ~(b < beat'[r]) => counted[r][b] + usage <= made
                        /\ ~(b < beat'[r]) /\ beat'[r] > 0 => counted[r][b] + delta'[r] <= made
      BY <2>1 DEF ToldByEach, S
    <3>1. /\ counted[r][b] <= made
          /\ ~(b < beat[r]) => counted[r][b] + usage <= made
          /\ ~(b < beat[r]) /\ beat[r] > 0 => counted[r][b] + delta[r] <= made
      BY <1>4 DEF ToldByEach, S
    <3>2. CASE r = s
      BY <2>1, <2>3, <2>4, <3>1, <3>2
    <3>3. CASE r # s
      BY <2>3, <3>1, <3>3
    <3> QED BY <3>2, <3>3
  <2>6. ToldByBoth'
    <3> SUFFICES ASSUME crossed' = FALSE PROVE ToldByBoth'
      BY DEF ToldByBoth
    <3>1. crossed = FALSE /\ \A r \in S : beat[r] = 0
      BY <1>2, <2>1
    <3>2. \A r \in S \ {s} : beat'[r] = 0 /\ ~(beat'[r] > 0)
      BY <2>3, <3>1
    <3>3. \A b \in Brains : Total(b)' = Total(b)
      BY <2>1 DEF Total
    <3>4. retold = FALSE => \A b \in Brains : Total(b) <= made /\ Total(b) + usage <= made
      BY <1>4, <2>4, <3>1 DEF ToldByBoth, S
    <3>5. \A q, r \in S : beat'[q] > 0 /\ beat'[r] > 0 => q = r
      BY <3>2
    <3> QED BY <2>1, <2>3, <3>2, <3>3, <3>4, <3>5 DEF ToldByBoth, S
  <2> QED BY <2>2, <2>5, <2>6 DEF UsageInv
<1>8. ASSUME NEW s \in S, Usage!BeatBrain(s) PROVE UsageInv'
  <2>10. PICK c \in Brains : c = beat[s]
    BY <1>8 DEF Usage!BeatBrain
  <2>1. /\ c \in Brains /\ UNCHANGED <<usage, delta, made, retold, crossed>>
        /\ \/ counted' = [counted EXCEPT ![s][c] = @ + delta[s]] /\ beat' = [beat EXCEPT ![s] = c + 1]
           \/ counted' = counted /\ beat' = [beat EXCEPT ![s] = c + 1]
           \/ counted' = counted /\ beat' = [beat EXCEPT ![s] = N + 1]
    BY <1>1, <1>8, <2>10 DEF Usage!BeatBrain
  <2> DEFINE newly == counted[s][c] + delta[s]
  <2>2. c \in Nat /\ c > 0 /\ c <= N /\ newly \in Nat
    BY <1>5, <2>1
  <2>3. /\ beat' \in [S -> 0..(N + 1)] /\ beat'[s] > c /\ beat'[s] \in Nat
        /\ \A r \in S \ {s} : beat'[r] = beat[r]
    <3>1. PICK next \in {c + 1, N + 1} : beat' = [beat EXCEPT ![s] = next]
      BY <2>1
    <3>2. next \in 0..(N + 1) /\ next > c /\ next \in Nat
      BY <1>1, <2>2, <3>1
    <3> QED BY <1>2, <3>1, <3>2
  <2>4. /\ counted' \in [S -> [Brains -> Nat]]
        /\ \A r \in S, b \in Brains : r # s \/ b # c => counted'[r][b] = counted[r][b]
        /\ counted'[s][c] \in {newly, counted[s][c]}
    BY <1>2, <2>1, <2>2
  <2> HIDE DEF newly
  <2>5. UsageTypes' /\ UsageBounded'
    BY <1>2, <1>3, <2>1, <2>3, <2>4 DEF UsageTypes, UsageBounded, S, N
  <2>6. ASSUME retold = FALSE PROVE newly <= made /\ counted[s][c] <= made
    <3>1. ~(c < beat[s]) /\ beat[s] > 0
      BY <2>2, <2>10
    <3> QED BY <1>4, <2>1, <2>6, <3>1 DEF ToldByEach, newly, S
  <2>7. ToldByEach'
    <3> SUFFICES ASSUME retold = FALSE, NEW r \in S, NEW b \in Brains
                 PROVE  /\ counted'[r][b] <= made
                        /\ ~(b < beat'[r]) => counted'[r][b] + usage <= made
                        /\ ~(b < beat'[r]) /\ beat'[r] > 0 => counted'[r][b] + delta[r] <= made
      BY <2>1 DEF ToldByEach, S
    <3>1. /\ counted[r][b] <= made
          /\ ~(b < beat[r]) => counted[r][b] + usage <= made
          /\ ~(b < beat[r]) /\ beat[r] > 0 => counted[r][b] + delta[r] <= made
      BY <1>4 DEF ToldByEach, S
    <3>2. CASE r # s
      BY <2>3, <2>4, <3>1, <3>2
    <3>3. CASE r = s /\ b = c
      BY <2>3, <2>4, <2>6, <3>3
    <3>4. CASE r = s /\ b # c
      <4>1. counted'[r][b] = counted[r][b]
        BY <2>4, <3>4
      <4>2. ~(b < beat'[r]) => ~(b < beat[r]) /\ beat[r] > 0
        BY <1>5, <2>2, <2>3, <3>4, <2>10
      <4> QED BY <3>1, <4>1, <4>2
    <3> QED BY <3>2, <3>3, <3>4
  <2>8. ToldByBoth'
    <3> SUFFICES ASSUME crossed = FALSE PROVE ToldByBoth'
      BY <2>1 DEF ToldByBoth
    <3>1. \A q, r \in S : beat[q] > 0 /\ beat[r] > 0 => q = r
      BY <1>4 DEF ToldByBoth, S
    <3>2. \A r \in S \ {s} : beat'[r] = beat[r] /\ ~(beat[r] > 0)
      BY <2>2, <2>3, <3>1, <2>10
    <3>3. \A q, r \in S : beat'[q] > 0 /\ beat'[r] > 0 => q = r
      BY <3>2
    <3>4. \A b \in Brains : b # c => Total(b)' = Total(b)
      BY <1>1, <2>4 DEF Total
    <3>5. Total(c)' = Total(c) \/ Total(c)' = Total(c) + delta[s]
      <4>1. CASE s = "heartbeat"
        <5>1. counted'["register"][c] = counted["register"][c]
          BY <1>1, <2>1, <2>4, <4>1
        <5>2. counted'["heartbeat"][c] = counted["heartbeat"][c] \/ counted'["heartbeat"][c] = counted["heartbeat"][c] + delta[s]
          BY <2>4, <4>1 DEF newly
        <5>3. Total(c)' = counted'["heartbeat"][c] + counted'["register"][c]
          BY DEF Total
        <5>4. Total(c) = counted["heartbeat"][c] + counted["register"][c]
          BY DEF Total
        <5>5. /\ counted["heartbeat"][c] \in Nat /\ counted["register"][c] \in Nat /\ delta[s] \in Nat
          BY <1>1, <1>5, <2>1
        <5> QED BY <5>1, <5>2, <5>3, <5>4, <5>5
      <4>2. CASE s = "register"
        <5>1. counted'["heartbeat"][c] = counted["heartbeat"][c]
          BY <1>1, <2>1, <2>4, <4>2
        <5>2. counted'["register"][c] = counted["register"][c] \/ counted'["register"][c] = counted["register"][c] + delta[s]
          BY <2>4, <4>2 DEF newly
        <5>3. Total(c)' = counted'["heartbeat"][c] + counted'["register"][c]
          BY DEF Total
        <5>4. Total(c) = counted["heartbeat"][c] + counted["register"][c]
          BY DEF Total
        <5>5. /\ counted["heartbeat"][c] \in Nat /\ counted["register"][c] \in Nat /\ delta[s] \in Nat
          BY <1>1, <1>5, <2>1
        <5> QED BY <5>1, <5>2, <5>3, <5>4, <5>5
      <4> QED BY <4>1, <4>2 DEF S, Usage!Senders
    <3>6. ASSUME retold = FALSE PROVE Total(c) <= made /\ Total(c) + delta[s] <= made
      <4>1. ~(c < beat[s]) /\ beat[s] > 0
        BY <2>2, <2>10
      <4> QED BY <1>4, <2>1, <3>6, <4>1 DEF ToldByBoth, S
    <3>7. ASSUME retold = FALSE, NEW b \in Brains
          PROVE  /\ Total(b)' <= made
                 /\ (\A r \in S : ~(b < beat'[r])) => Total(b)' + usage <= made
                 /\ \A r \in S : ~(b < beat'[r]) /\ beat'[r] > 0 => Total(b)' + delta[r] <= made
      <4>1. CASE b = c
        <5>1. b < beat'[s]
          BY <2>2, <2>3, <4>1
        <5>2. Total(c)' <= made
          BY <3>5, <3>6, <3>7
        <5> QED BY <3>2, <4>1, <5>1, <5>2
      <4>2. CASE b # c
        <5>1. Total(b)' = Total(b)
          BY <3>4, <4>2
        <5>2. ~(b < beat'[s]) => ~(b < beat[s]) /\ beat[s] > 0
          BY <1>5, <2>2, <2>3, <2>10
        <5>3. /\ Total(b) <= made
              /\ (\A r \in S : ~(b < beat[r])) => Total(b) + usage <= made
              /\ \A r \in S : ~(b < beat[r]) /\ beat[r] > 0 => Total(b) + delta[r] <= made
          BY <1>4, <3>7 DEF ToldByBoth, S
        <5>4. (\A r \in S : ~(b < beat'[r])) => \A r \in S : ~(b < beat[r])
          BY <2>3, <5>2
        <5> QED BY <3>2, <5>1, <5>2, <5>3, <5>4
      <4> QED BY <4>1, <4>2
    <3> QED BY <2>1, <3>3, <3>7 DEF ToldByBoth, S
  <2> QED BY <2>5, <2>7, <2>8 DEF UsageInv
<1>9. ASSUME NEW s \in S, Usage!Drain(s) \/ Usage!DrainFails(s) PROVE UsageInv'
  <2>1. /\ beat[s] > N /\ beat' = [beat EXCEPT ![s] = 0] /\ delta' = [delta EXCEPT ![s] = 0]
        /\ (usage' = 0 /\ retold' = retold) \/ (usage' = usage /\ retold' = TRUE)
        /\ UNCHANGED <<counted, made, crossed>>
    BY <1>1, <1>9 DEF Usage!Drain, Usage!DrainFails, Usage!Over
  <2>2. UsageTypes' /\ UsageBounded'
    <3>1. /\ usage' \in Nat /\ usage' <= made /\ retold' \in BOOLEAN
      <4>1. usage' = 0 \/ usage' = usage
        BY <2>1
      <4>2. retold' \in BOOLEAN
        BY <1>2, <2>1, Zenon
      <4> QED BY <1>2, <1>3, <1>5, <4>1, <4>2
    <3>2. 0 \in 0..(N + 1) /\ 0 \in Nat /\ 0 <= made
      BY <1>1, <1>5
    <3>3. beat' \in [S -> 0..(N + 1)]
      BY <1>2, <2>1, <3>2
    <3>4. delta' \in [S -> Nat]
      BY <1>2, <2>1, <3>2
    <3>5. \A r \in S : delta'[r] = 0 \/ delta'[r] = delta[r]
      BY <1>2, <2>1
    <3>6. \A r \in S : delta'[r] <= made
      BY <1>3, <3>2, <3>5
    <3> QED BY <1>2, <2>1, <3>1, <3>3, <3>4, <3>6 DEF UsageTypes, UsageBounded, S, N
  <2>3. beat'[s] = 0 /\ delta'[s] = 0 /\ \A r \in S \ {s} : beat'[r] = beat[r] /\ delta'[r] = delta[r]
    BY <1>2, <2>1
  <2>4. ToldByEach'
    <3> SUFFICES ASSUME retold' = FALSE PROVE ToldByEach'
      BY DEF ToldByEach
    <3>1. retold = FALSE /\ usage' = 0
      BY <2>1
    <3>2. \A r \in S, b \in Brains : /\ counted[r][b] <= made /\ counted[r][b] + 0 <= made
                                     /\ ~(b < beat[r]) /\ beat[r] > 0 => counted[r][b] + delta[r] <= made
      BY <1>4, <1>5, <3>1 DEF ToldByEach, S
    <3> QED BY <2>1, <2>3, <3>1, <3>2 DEF ToldByEach, S
  <2>5. ToldByBoth'
    <3> SUFFICES ASSUME crossed = FALSE PROVE ToldByBoth'
      BY <2>1 DEF ToldByBoth
    <3>1. \A q, r \in S : beat[q] > 0 /\ beat[r] > 0 => q = r
      BY <1>4 DEF ToldByBoth, S
    <3>2. \A r \in S : beat'[r] = 0 \/ ~(beat'[r] > 0)
      BY <1>1, <1>5, <2>1, <2>3, <3>1
    <3>3. \A b \in Brains : Total(b)' = Total(b)
      BY <2>1 DEF Total
    <3>4. retold' = FALSE => \A b \in Brains : Total(b) <= made /\ Total(b) + usage' <= made
      <4>1. \A b \in Brains : Total(b) + 0 = Total(b)
        BY <1>5
      <4> QED BY <1>4, <2>1, <4>1 DEF ToldByBoth, S
    <3>5. \A r \in S : ~(beat'[r] > 0)
      BY <3>2
    <3> QED BY <2>1, <3>3, <3>4, <3>5 DEF ToldByBoth, S
  <2> QED BY <2>2, <2>4, <2>5 DEF UsageInv
<1>10. CASE Usage!Restart
  <2>1. /\ beat' = [s \in S |-> 0] /\ delta' = [s \in S |-> 0]
        /\ retold' = (retold \/ \E s \in S : beat[s] > 1)
        /\ UNCHANGED <<usage, counted, made, crossed>>
    BY <1>10 DEF Usage!Restart, S
  <2>2. UsageTypes' /\ UsageBounded'
    BY <1>1, <1>2, <1>3, <1>5, <2>1 DEF UsageTypes, UsageBounded, S, N
  <2>3. /\ \A s \in S : beat'[s] = 0 /\ ~(beat'[s] > 0)
        /\ retold' = FALSE => retold = FALSE /\ \A s \in S, b \in Brains : ~(b < beat[s])
    <3>1. \A s \in S : beat'[s] = 0 /\ ~(0 > 0)
      BY <2>1
    <3>2. \A s \in S, b \in Brains : ~(beat[s] > 1) => ~(b < beat[s])
      BY <1>5
    <3> QED BY <1>2, <2>1, <3>1, <3>2
  <2>4. ToldByEach'
    BY <1>4, <2>1, <2>3 DEF ToldByEach, S
  <2>5. \A b \in Brains : Total(b)' = Total(b)
    BY <2>1 DEF Total
  <2>6. ToldByBoth'
    BY <1>4, <2>1, <2>3, <2>5 DEF ToldByBoth, S
  <2> QED BY <2>2, <2>4, <2>6 DEF UsageInv
<1> QED BY <1>6, <1>7, <1>8, <1>9, <1>10 DEF Usage!Next, S

\* It implies the types and the property of the counts.
LEMMA UsageSafe == UsageInv => Usage!TypeOK /\ Usage!CountedOnce
<1> SUFFICES ASSUME UsageInv PROVE Usage!TypeOK /\ Usage!CountedOnce
  OBVIOUS
<1>1. UsageTypes /\ UsageBounded /\ Usage!Cardinality(Brains) = Cardinality(Brains) /\ MaxCloudCalls \in Nat
  BY BrainsNumbers DEF UsageInv, Usage!Cardinality, Cardinality
<1>2. usage \in 0..MaxCloudCalls /\ delta \in [Usage!Senders -> 0..MaxCloudCalls]
  BY <1>1 DEF UsageTypes, UsageBounded
<1>3. Usage!TypeOK
  BY <1>1, <1>2 DEF Usage!TypeOK, UsageTypes
<1>4. Usage!CountedOnce
  BY <1>1 DEF UsageInv, UsageTypes, ToldByEach, ToldByBoth, Total, Usage!CountedOnce
<1> QED BY <1>3, <1>4

-----------------------------------------------------------------------------
(* The values of a plan.                                                   *)

PlanStates == [Plan!Steps -> {"waiting", "succeeded", "failed"}]

\* What a step that succeeded has made of v.
Out(n) == IF planStatus[n] = "succeeded" /\ plan[n].makes THEN n ELSE 0

\* The declared producers among the steps that succeeded, as the pass knows it.
Known(st) == {m \in Plan!Steps : st[m] = "succeeded" /\ plan[m].makes /\ plan[m].declares}

\* The pass has the value of a producer, and only steps elsewhere produced after it.
ContextOf(st) ==
    \/ Known(st) = {} /\ context = IF given THEN Last + 1 ELSE 0
    \/ context \in Known(st) /\ \A m \in Known(st) : m > context => ~plan[m].here

PlanTypes ==
    /\ plan \in [Plan!Steps -> Plan!Kinds] /\ given \in BOOLEAN /\ passing \in BOOLEAN
    /\ planStatus \in PlanStates /\ copy \in PlanStates
    /\ outputs \in [Plan!Steps -> 0..Last] /\ bags \in [Plan!Steps -> 0..Last]
    /\ brain \subseteq Plan!Steps /\ context \in 0..(Last + 1) /\ used \in [Plan!Steps -> 0..(Last + 2)]

InOrder ==
    /\ \A n \in Plan!Steps : planStatus[n] # "waiting" => \A m \in Plan!Steps : m < n => planStatus[m] = "succeeded"
    /\ \A n \in brain : \A m \in Plan!Steps : m < n => planStatus[m] = "succeeded"
    /\ \A n \in brain : ~plan[n].here

Produced ==
    \A n \in Plan!Steps : /\ bags[n] = Out(n) /\ outputs[n] \in {0, Out(n)}
                          /\ plan[n].here => outputs[n] = Out(n)

PassOK ==
    passing => /\ \A n \in Plan!Steps : /\ plan[n].here => copy[n] = planStatus[n]
                                        /\ copy[n] = "succeeded" => planStatus[n] = "succeeded"
               /\ ContextOf(copy)

PlanInv == PlanTypes /\ InOrder /\ Produced /\ PassOK /\ Plan!InputIsProduced

\* The empty copy is of its shape.
LEMMA NoCopyState == Plan!NoCopy \in PlanStates
BY DEF Plan!NoCopy, PlanStates

\* The invariant of the values holds at the start.
LEMMA PlanBegins == Plan!Init => PlanInv
<1> SUFFICES ASSUME Plan!Init PROVE PlanInv
  OBVIOUS
<1> USE PlanAssumption DEF Plan!Init, Plan!None
<1>1. PlanTypes
  <2>1. planStatus \in PlanStates /\ copy \in PlanStates
    BY NoCopyState DEF PlanStates
  <2>2. outputs \in [Plan!Steps -> 0..Last] /\ bags \in [Plan!Steps -> 0..Last] /\ used \in [Plan!Steps -> 0..(Last + 2)]
    OBVIOUS
  <2>3. context \in 0..(Last + 1)
    OBVIOUS
  <2> QED BY <2>1, <2>2, <2>3 DEF PlanTypes
<1>2. InOrder /\ Produced /\ PassOK /\ Plan!InputIsProduced
  BY DEF InOrder, Produced, Out, PassOK, Plan!InputIsProduced
<1> QED BY <1>1, <1>2 DEF PlanInv

\* It holds as long as none of the part's variables changes.
LEMMA PlanStays == PlanInv /\ UNCHANGED planVars => PlanInv'
BY DEF PlanInv, planVars, PlanTypes, InOrder, Produced, Out, PassOK, ContextOf, Known, Plan!InputIsProduced,
       Plan!Producers

\* The value of the last step of a set.
LEMMA LastOfSet ==
  ASSUME NEW f, NEW S, S \subseteq Plan!Steps, S # {}, \A n \in S : f[n] = n
  PROVE  /\ Plan!LastOf(f, S) \in S /\ \A m \in S : m <= Plan!LastOf(f, S)
<1>1. S \subseteq 0..Last /\ Last \in Nat
  BY PlanAssumption DEF Plan!Steps
<1>2. \E n \in S : \A m \in S : m <= n
  BY <1>1, GreatestNat
<1> DEFINE n == CHOOSE n \in S : \A m \in S : m <= n
<1>3. n \in S /\ \A m \in S : m <= n
  BY <1>2
<1>4. Plan!LastOf(f, S) = f[n]
  BY DEF Plan!LastOf
<1> HIDE DEF n
<1> QED BY <1>3, <1>4

\* What a pass begins with.
LEMMA HydratedRight ==
  ASSUME PlanTypes, Produced
  PROVE  LET c == Plan!Hydrated
         IN \/ Known(planStatus) = {} /\ c = IF given THEN Last + 1 ELSE 0
            \/ c \in Known(planStatus) /\ \A m \in Known(planStatus) : m > c => ~plan[m].here
<1> USE PlanAssumption
<1> DEFINE B == {n \in Plan!Steps : bags[n] # 0 /\ plan[n].declares}
           O == {n \in Plan!Steps : outputs[n] # 0 /\ plan[n].declares /\ planStatus[n] = "succeeded"}
           K == Known(planStatus)
<1>1. B = K /\ \A n \in B : bags[n] = n
  BY DEF Produced, Out, Known, Plan!Steps
<1>2. O \subseteq K /\ (\A n \in O : outputs[n] = n) /\ \A n \in K : plan[n].here => n \in O
  BY DEF Produced, Out, Known, Plan!Steps
<1>3. Plan!ProducerBag(bags) = B /\ {n \in Plan!ProducerBag(outputs) : Plan!Done(n)} = O
  BY DEF Plan!ProducerBag, Plan!Done, Plan!None
<1>4. K \subseteq Plan!Steps /\ O \subseteq Plan!Steps /\ B \subseteq Plan!Steps /\ \A n \in Plan!Steps : n \in Nat \ {0}
  BY DEF Known, Plan!Steps
<1>5. Plan!Hydrated = Plan!Over(Plan!LastOf(outputs, O), Plan!Over(Plan!LastOf(bags, B), IF given THEN Last + 1 ELSE 0))
  BY <1>3 DEF Plan!Hydrated, Plan!Given, Plan!None
<1> HIDE DEF B, O, K
<1>6. CASE K = {}
  <2>1. O = {} /\ B = {}
    BY <1>1, <1>2, <1>6
  <2>2. Plan!LastOf(outputs, O) = 0 /\ Plan!LastOf(bags, B) = 0
    BY <2>1 DEF Plan!LastOf, Plan!None
  <2> QED BY <1>5, <1>6, <2>2 DEF Plan!Over, Plan!None, K
<1>7. CASE K # {} /\ O = {}
  <2>1. Plan!LastOf(outputs, O) = 0
    BY <1>7 DEF Plan!LastOf, Plan!None
  <2>2. Plan!LastOf(bags, B) \in K
    BY <1>1, <1>4, <1>7, LastOfSet
  <2>3. Plan!Hydrated = Plan!LastOf(bags, B)
    BY <1>4, <1>5, <2>1, <2>2 DEF Plan!Over, Plan!None
  <2>4. \A m \in K : ~plan[m].here
    BY <1>2, <1>7
  <2> QED BY <2>2, <2>3, <2>4 DEF K
<1>8. CASE O # {}
  <2>1. Plan!LastOf(outputs, O) \in O /\ \A m \in O : m <= Plan!LastOf(outputs, O)
    BY <1>2, <1>4, <1>8, LastOfSet
  <2>2. Plan!Hydrated = Plan!LastOf(outputs, O)
    BY <1>4, <1>5, <2>1 DEF Plan!Over, Plan!None
  <2>3. \A m \in K : m > Plan!LastOf(outputs, O) => ~plan[m].here
    <3> SUFFICES ASSUME NEW m \in K, m > Plan!LastOf(outputs, O), plan[m].here PROVE FALSE
      BY <1>4 DEF Plan!Kinds
    <3>1. m <= Plan!LastOf(outputs, O) /\ Plan!LastOf(outputs, O) \in Nat /\ m \in Nat
      BY <1>2, <1>4, <2>1
    <3> QED BY <3>1
  <2> QED BY <1>2, <2>1, <2>2, <2>3 DEF K
<1> QED BY <1>6, <1>7, <1>8

\* Every step of the part keeps it.
LEMMA PlanStep == PlanInv /\ Plan!Next => PlanInv'
<1> SUFFICES ASSUME PlanInv, Plan!Next PROVE PlanInv'
  OBVIOUS
<1> USE PlanAssumption DEF Plan!None
<1>0. PlanTypes /\ InOrder /\ Produced /\ PassOK /\ Plan!InputIsProduced
  BY DEF PlanInv
<1>1. ASSUME UNCHANGED <<plan, given, used>> PROVE Plan!InputIsProduced'
  BY <1>0, <1>1 DEF Plan!InputIsProduced, Plan!Producers
<1>2. CASE Plan!PassBegins
  <2>1. passing' = TRUE /\ context' = Plan!Hydrated /\ copy' = planStatus
        /\ UNCHANGED <<plan, given, planStatus, outputs, bags, brain, used>>
    BY <1>2 DEF Plan!PassBegins
  <2>2. ContextOf(copy)'
    BY <2>1, HydratedRight, <1>0 DEF ContextOf, Known
  <2>3. context' \in 0..(Last + 1)
    BY <2>1, HydratedRight, <1>0 DEF Known, Plan!Steps
  <2>4. PlanTypes'
    BY <2>1, <2>3, <1>0 DEF PlanTypes
  <2>5. PassOK'
    BY <2>1, <2>2 DEF PassOK
  <2>6. InOrder' /\ Produced'
    BY <2>1, <1>0 DEF InOrder, Produced, Out
  <2> QED BY <2>1, <2>4, <2>5, <2>6, <1>1 DEF PlanInv
<1>3. CASE Plan!PassEnds
  <2>1. passing' = FALSE /\ context' = 0 /\ copy' = Plan!NoCopy
        /\ UNCHANGED <<plan, given, planStatus, outputs, bags, brain, used>>
    BY <1>3 DEF Plan!PassEnds
  <2>2. PlanTypes'
    <3>1. context' \in 0..(Last + 1)
      <4>1. context' = 0
        BY <2>1
      <4> QED BY <4>1
    <3>3. passing' \in BOOLEAN
      BY <2>1, Zenon
    <3>2. copy' \in PlanStates
      BY <2>1, NoCopyState
    <3> QED BY <3>1, <3>2, <3>3, <2>1, <1>0 DEF PlanTypes
  <2>3. InOrder' /\ Produced' /\ PassOK'
    BY <2>1, <1>0 DEF InOrder, Produced, Out, PassOK
  <2> QED BY <2>1, <2>2, <2>3, <1>1 DEF PlanInv
<1>4. ASSUME NEW n \in Plan!Steps, Plan!RunHere(n) PROVE PlanInv'
  <2> DEFINE lacks == plan[n].uses /\ context = 0
             out == IF plan[n].makes THEN n ELSE 0
             v == IF ~plan[n].uses THEN 0 ELSE IF lacks THEN Last + 2 ELSE context
  <2>1. /\ passing /\ Plan!Ready(copy, n) /\ plan[n].here
        /\ used' = [used EXCEPT ![n] = v] /\ UNCHANGED <<plan, given, brain>>
    BY <1>4 DEF Plan!RunHere, Plan!Missing
  <2>2. /\ \A m \in Plan!Steps : m < n => planStatus[m] = "succeeded" /\ copy[m] = "succeeded"
        /\ planStatus[n] = "waiting" /\ copy[n] = "waiting"
    BY <2>1, <1>0 DEF PassOK, Plan!Ready
  <2>3. \A m \in Plan!Steps : m > n => planStatus[m] = "waiting" /\ copy[m] # "succeeded" /\ m \notin brain
    BY <2>1, <2>2, <1>0 DEF InOrder, PassOK, Plan!Steps
  <2>4. Known(copy) = Plan!Producers(n)
    <3>1. \A m \in Plan!Steps : m < n \/ m = n \/ m > n
      BY DEF Plan!Steps
    <3>2. ASSUME NEW m \in Plan!Steps PROVE copy[m] = "succeeded" <=> m < n
      <4>1. m > n => ~(m < n)
        BY DEF Plan!Steps
      <4>2. ~(n < n)
        BY DEF Plan!Steps
      <4> QED BY <3>1, <4>1, <4>2, <2>2, <2>3
    <3> QED BY <3>2 DEF Known, Plan!Producers
  <2>5. ContextOf(copy)
    BY <2>1, <1>0 DEF PassOK
  <2>6. v # 0 => IF Plan!Producers(n) = {} THEN v = IF given THEN Last + 1 ELSE Last + 2
                 ELSE v \in Plan!Producers(n) /\ \A m \in Plan!Producers(n) : m > v => ~plan[m].here
    <3>1. CASE ~plan[n].uses
      BY <3>1
    <3>2. CASE plan[n].uses /\ Known(copy) = {}
      <4>1. context = IF given THEN Last + 1 ELSE 0
        BY <2>5, <3>2 DEF ContextOf
      <4>2. v = IF given THEN Last + 1 ELSE Last + 2
        BY <4>1, <3>2
      <4> QED BY <4>2, <2>4, <3>2
    <3>3. CASE plan[n].uses /\ Known(copy) # {}
      <4>1. context \in Plan!Producers(n) /\ \A m \in Plan!Producers(n) : m > context => ~plan[m].here
        BY <2>4, <2>5, <3>3 DEF ContextOf
      <4>2. v = context
        BY <4>1, <3>3 DEF Plan!Producers, Plan!Steps
      <4> QED BY <2>4, <3>3, <4>1, <4>2
    <3> QED BY <3>1, <3>2, <3>3
  <2>7. Plan!InputIsProduced' /\ used' \in [Plan!Steps -> 0..(Last + 2)]
    <3>1. v \in 0..(Last + 2)
      BY <1>0 DEF PlanTypes
    <3>2. used'[n] = v /\ (\A m \in Plan!Steps \ {n} : used'[m] = used[m]) /\ used' \in [Plan!Steps -> 0..(Last + 2)]
      BY <2>1, <3>1, <1>0 DEF PlanTypes
    <3> HIDE DEF v
    <3>3. \A m \in Plan!Steps : Plan!Producers(m)' = Plan!Producers(m)
      BY <2>1 DEF Plan!Producers
    <3>4. ASSUME NEW m \in Plan!Steps, used'[m] # 0
          PROVE IF Plan!Producers(m) = {} THEN used'[m] = IF given THEN Last + 1 ELSE Last + 2
                ELSE /\ used'[m] \in Plan!Producers(m)
                     /\ \A k \in Plan!Producers(m) : k > used'[m] => ~plan[k].here
      <4>1. CASE m = n
        BY <4>1, <3>2, <3>4, <2>6
      <4>2. CASE m # n
        BY <4>2, <3>2, <3>4, <1>0 DEF Plan!InputIsProduced, Plan!Given, Plan!Missing
      <4> QED BY <4>1, <4>2
    <3> QED BY <3>2, <3>3, <3>4, <2>1 DEF Plan!InputIsProduced, Plan!Given, Plan!Missing
  <2>8. CASE /\ ~lacks /\ planStatus' = [planStatus EXCEPT ![n] = "succeeded"]
             /\ copy' = [copy EXCEPT ![n] = "succeeded"]
             /\ outputs' = [outputs EXCEPT ![n] = out] /\ bags' = [bags EXCEPT ![n] = Plan!Over(out, @)]
             /\ context' = IF plan[n].declares THEN Plan!Over(out, context) ELSE context
             /\ UNCHANGED passing
    <3>1. bags[n] = 0 /\ n # 0 /\ out \in 0..Last
      BY <2>2, <1>0 DEF Produced, Out, Plan!Steps
    <3>2. /\ planStatus' \in PlanStates /\ copy' \in PlanStates
          /\ planStatus'[n] = "succeeded" /\ copy'[n] = "succeeded"
          /\ \A m \in Plan!Steps \ {n} : planStatus'[m] = planStatus[m] /\ copy'[m] = copy[m]
      BY <2>8, <1>0 DEF PlanTypes, PlanStates
    <3>3. /\ outputs' \in [Plan!Steps -> 0..Last] /\ bags' \in [Plan!Steps -> 0..Last]
          /\ outputs'[n] = out /\ bags'[n] = out
          /\ \A m \in Plan!Steps \ {n} : outputs'[m] = outputs[m] /\ bags'[m] = bags[m]
      <4>1. Plan!Over(out, bags[n]) = out
        BY <3>1 DEF Plan!Over
      <4> QED BY <2>8, <3>1, <4>1, <1>0 DEF PlanTypes
    <3>4. context' \in 0..(Last + 1)
      BY <2>8, <3>1, <1>0 DEF PlanTypes, Plan!Over
    <3>5. PlanTypes'
      BY <2>1, <2>7, <2>8, <3>2, <3>3, <3>4, <1>0 DEF PlanTypes
    <3>6. InOrder'
      <4>1. \A m \in Plan!Steps : planStatus[m] = "succeeded" => planStatus'[m] = "succeeded"
        BY <3>2
      <4>2. \A m \in Plan!Steps : m < n => planStatus'[m] = "succeeded"
        BY <4>1, <2>2
      <4>3. ASSUME NEW k \in Plan!Steps, planStatus'[k] # "waiting", NEW m \in Plan!Steps, m < k
            PROVE planStatus'[m] = "succeeded"
        BY <3>2, <4>1, <4>2, <4>3, <1>0 DEF InOrder
      <4>4. ASSUME NEW k \in brain, NEW m \in Plan!Steps, m < k PROVE planStatus'[m] = "succeeded"
        BY <4>1, <4>4, <1>0 DEF InOrder
      <4> QED BY <4>3, <4>4, <2>1, <1>0 DEF InOrder
    <3>7. Produced'
      <4>1. Out(n)' = out /\ \A m \in Plan!Steps \ {n} : Out(m)' = Out(m)
        BY <2>1, <3>2 DEF Out
      <4> QED BY <4>1, <3>3, <2>1, <1>0 DEF Produced
    <3>8. ContextOf(copy)'
      <4>1. Known(copy)' = IF plan[n].makes /\ plan[n].declares THEN Known(copy) \union {n} ELSE Known(copy)
        BY <3>2, <2>1, <2>2 DEF Known
      <4>2. CASE plan[n].makes /\ plan[n].declares
        <5>1. context' = n
          BY <2>8, <3>1, <4>2 DEF Plan!Over
        <5>2. n \in Nat /\ \A m \in Known(copy) : m \in Nat /\ m < n
          BY <2>4 DEF Plan!Producers, Plan!Steps
        <5>3. \A m \in Known(copy)' : ~(m > n)
          BY <4>1, <4>2, <5>2
        <5> QED BY <4>1, <4>2, <5>1, <5>3 DEF ContextOf
      <4>3. CASE ~(plan[n].makes /\ plan[n].declares)
        <5>1. context' = context
          BY <2>8, <4>3 DEF Plan!Over
        <5> QED BY <4>1, <4>3, <5>1, <2>1, <2>5 DEF ContextOf
      <4> QED BY <4>2, <4>3
    <3>9. PassOK'
      BY <2>1, <2>2, <3>2, <3>8, <1>0 DEF PassOK
    <3> QED BY <3>5, <3>6, <3>7, <3>9, <2>7 DEF PlanInv
  <2>9. CASE /\ planStatus' = [planStatus EXCEPT ![n] = "failed"] /\ passing' = FALSE /\ context' = 0
             /\ copy' = Plan!NoCopy /\ UNCHANGED <<outputs, bags>>
    <3>1. /\ planStatus' \in PlanStates /\ planStatus'[n] = "failed"
          /\ \A m \in Plan!Steps \ {n} : planStatus'[m] = planStatus[m]
      BY <2>9, <1>0 DEF PlanTypes, PlanStates
    <3>2. PlanTypes'
      <4>1. context' \in 0..(Last + 1)
        <5>1. context' = 0
          BY <2>9
        <5> QED BY <5>1
      <4>3. passing' \in BOOLEAN
        BY <2>9, Zenon
      <4>2. copy' \in PlanStates
        BY <2>9, NoCopyState
      <4> QED BY <4>1, <4>2, <4>3, <2>1, <2>7, <2>9, <3>1, <1>0 DEF PlanTypes
    <3>3. InOrder'
      <4>1. \A m \in Plan!Steps : planStatus[m] = "succeeded" => planStatus'[m] = "succeeded"
        BY <3>1, <2>2
      <4>3. ASSUME NEW k \in Plan!Steps, planStatus'[k] # "waiting", NEW m \in Plan!Steps, m < k
            PROVE planStatus'[m] = "succeeded"
        BY <3>1, <2>2, <4>1, <4>3, <1>0 DEF InOrder
      <4>4. ASSUME NEW k \in brain, NEW m \in Plan!Steps, m < k PROVE planStatus'[m] = "succeeded"
        BY <4>1, <4>4, <1>0 DEF InOrder
      <4> QED BY <4>3, <4>4, <2>1, <1>0 DEF InOrder
    <3>4. Produced'
      <4>1. \A m \in Plan!Steps : Out(m)' = Out(m)
        BY <2>1, <2>2, <3>1 DEF Out
      <4> QED BY <4>1, <2>1, <2>9, <1>0 DEF Produced
    <3>5. PassOK'
      BY <2>9 DEF PassOK
    <3> QED BY <3>2, <3>3, <3>4, <3>5, <2>7 DEF PlanInv
  <2> QED BY <2>8, <2>9, <1>4 DEF Plan!RunHere
<1>5. ASSUME NEW n \in Plan!Steps, Plan!RunThere(n) PROVE PlanInv'
  <2>1. /\ Plan!Ready(planStatus, n) /\ ~plan[n].here /\ brain' = brain \union {n}
        /\ UNCHANGED <<plan, given, planStatus, outputs, bags, context, passing, copy, used>>
    BY <1>5 DEF Plan!RunThere
  <2>2. PlanTypes'
    BY <2>1, <1>0 DEF PlanTypes
  <2>3. InOrder'
    BY <2>1, <1>0 DEF InOrder, Plan!Ready
  <2>4. Produced' /\ PassOK'
    BY <2>1, <1>0 DEF Produced, Out, PassOK, ContextOf, Known
  <2> QED BY <2>1, <2>2, <2>3, <2>4, <1>1 DEF PlanInv
<1>6. ASSUME NEW n \in Plan!Steps, Plan!Peek(n) PROVE PlanInv'
  <2> DEFINE out == IF plan[n].makes THEN n ELSE 0
  <2>1. /\ n \in brain /\ planStatus[n] # "succeeded"
        /\ planStatus' = [planStatus EXCEPT ![n] = "succeeded"] /\ bags' = [bags EXCEPT ![n] = out]
        /\ UNCHANGED <<plan, given, brain, context, passing, copy, used>>
    BY <1>6 DEF Plan!Peek, Plan!Done
  <2>2. PICK o \in {0, out} : outputs' = [outputs EXCEPT ![n] = o]
    BY <1>6 DEF Plan!Peek
  <2>3. out \in 0..Last
    BY DEF Plan!Steps
  <2>4. /\ planStatus' \in PlanStates /\ planStatus'[n] = "succeeded"
        /\ \A m \in Plan!Steps \ {n} : planStatus'[m] = planStatus[m]
    BY <2>1, <1>0 DEF PlanTypes, PlanStates
  <2>5. /\ bags' \in [Plan!Steps -> 0..Last] /\ outputs' \in [Plan!Steps -> 0..Last]
        /\ bags'[n] = out /\ outputs'[n] = o
        /\ \A m \in Plan!Steps \ {n} : outputs'[m] = outputs[m] /\ bags'[m] = bags[m]
    BY <2>1, <2>2, <2>3, <1>0 DEF PlanTypes
  <2>6. PlanTypes'
    BY <2>1, <2>4, <2>5, <1>0 DEF PlanTypes
  <2>7. InOrder'
    <3>1. \A m \in Plan!Steps : planStatus[m] = "succeeded" => planStatus'[m] = "succeeded"
      BY <2>4
    <3>2. ASSUME NEW k \in Plan!Steps, planStatus'[k] # "waiting", NEW m \in Plan!Steps, m < k
          PROVE planStatus'[m] = "succeeded"
      BY <2>1, <2>4, <3>1, <3>2, <1>0 DEF InOrder
    <3>3. ASSUME NEW k \in brain, NEW m \in Plan!Steps, m < k PROVE planStatus'[m] = "succeeded"
      BY <3>1, <3>3, <1>0 DEF InOrder
    <3> QED BY <3>2, <3>3, <2>1, <1>0 DEF InOrder
  <2>8. ~plan[n].here
    BY <2>1, <1>0 DEF InOrder
  <2>9. Produced'
    <3>1. Out(n)' = out /\ \A m \in Plan!Steps \ {n} : Out(m)' = Out(m)
      BY <2>1, <2>4 DEF Out
    <3> QED BY <3>1, <2>1, <2>5, <2>8, <1>0 DEF Produced
  <2>10. PassOK'
    BY <2>1, <2>4, <2>8, <1>0 DEF PassOK, ContextOf, Known
  <2> QED BY <2>1, <2>6, <2>7, <2>9, <2>10, <1>1 DEF PlanInv
<1> QED BY <1>2, <1>3, <1>4, <1>5, <1>6 DEF Plan!Next

\* It implies the types and the properties of the values.
LEMMA PlanSafe == PlanInv => Plan!TypeOK /\ Plan!InputIsProduced
BY DEF PlanInv, PlanTypes, PlanStates, Plan!TypeOK, Plan!Given, Plan!Missing

-----------------------------------------------------------------------------
(* The timings.                                                            *)

\* The module of the timings computes what ExecutionTiming does.
LEMMA SameMin == ASSUME NEW S PROVE Timings!Min(S) = Min(S)
BY DEF Timings!Min, Min

\* So it is of the next fire of a cron expression,
LEMMA SameNextFire ==
  ASSUME NEW fires, NEW after PROVE Timings!CronNextAfter(fires, after) = CronNextAfter(fires, after)
BY SameMin DEF Timings!CronNextAfter, CronNextAfter, Timings!None, None

\* of a beat's planned start,
LEMMA SameStart == ASSUME NEW x, NEW b PROVE Timings!PlannedStart(x, b) = PlannedStart(x, b)
<1>1. \A f, a : Timings!CronNextAfter(f, a) = CronNextAfter(f, a)
  BY SameNextFire
<1> QED BY <1>1 DEF Timings!PlannedStart, PlannedStart, Timings!None, None

\* of its window,
LEMMA SameWindow == ASSUME NEW x, NEW p PROVE Timings!MissWindow(x, p) = MissWindow(x, p)
<1>1. \A f, a : Timings!CronNextAfter(f, a) = CronNextAfter(f, a)
  BY SameNextFire
<1>2. Timings!NextPlannedAfter(x, p) = NextPlannedAfter(x, p)
  BY <1>1 DEF Timings!NextPlannedAfter, NextPlannedAfter, Timings!None, None
<1>3. \A S : Timings!Min(S) = Min(S)
  BY SameMin
<1> QED BY <1>2, <1>3
     DEF Timings!MissWindow, MissWindow, Timings!IsRecurring, IsRecurring, Timings!None, None

\* and of what it may do at an instant (timing_gate).
LEMMA SameGate == ASSUME NEW x, NEW n, NEW b PROVE Timings!Gate(x, n, b) = Gate(x, n, b)
<1>1. Timings!PlannedStart(x, b) = PlannedStart(x, b)
  BY SameStart
<1>2. \A p : Timings!MissWindow(x, p) = MissWindow(x, p)
  BY SameWindow
<1> QED BY <1>1, <1>2 DEF Timings!Gate, Gate, Timings!IsRecurring, IsRecurring, Timings!None, None

TimingsInv == t \in Timing /\ clock \in Nat

\* The timing that is looked at is one that parse_execution_timing returns.
LEMMA TimingsBegin ==
  ASSUME Timings!Init PROVE TimingsInv
<1>1. t \in LookTimings /\ clock = 0
  BY DEF Timings!Init
<1> QED BY <1>1, TimingsAssumption DEF TimingsInv

\* It holds as long as none of the part's variables changes.
LEMMA TimingsStay == TimingsInv /\ UNCHANGED timingVars => TimingsInv'
BY DEF TimingsInv, timingVars

\* The timing is never changed, and time only passes.
LEMMA TimingsStep == TimingsInv /\ Timings!Next => TimingsInv'
BY DEF TimingsInv, Timings!Next, Timings!Tick

\* A set whose members are all the same has one, at most.
LEMMA AtMostOne ==
  ASSUME NEW S, \A x, y \in S : x = y
  PROVE  Cardinality(S) <= 1
<1>1. CASE S = {}
  BY <1>1, FS_EmptySet
<1>2. CASE S # {}
  <2>1. PICK x \in S : TRUE
    BY <1>2
  <2>2. S = {x}
    BY <2>1
  <2> QED BY <2>2, FS_Singleton
<1> QED BY <1>1, <1>2

\* The windows of a series' beats do not meet, for every interval, every cron expression
\* and every cap on the window.
LEMMA WindowsApart == TimingsInv => WindowsDisjoint
<1> SUFFICES ASSUME TimingsInv, IsRecurring(t)
             PROVE  Timings!Cardinality({b \in Timings!Beats : Timings!Gate(t, clock, b) = "due"}) <= 1
  BY DEF WindowsDisjoint, Timings!WindowsDisjoint, Timings!IsRecurring, IsRecurring
<1> DEFINE DueNow(b) == Timings!Gate(t, clock, b) = "due"
           Dues == {b \in Timings!Beats : DueNow(b)}
<1>1. \A x, y \in Dues : x = y
  <2> SUFFICES ASSUME NEW x \in Dues, NEW y \in Dues PROVE x = y
    OBVIOUS
  <2>1. x \in Nat /\ y \in Nat
    BY TimingsAssumption DEF Timings!Beats
  <2>2. Gate(t, clock, x) = "due" /\ Gate(t, clock, y) = "due"
    BY SameGate
  <2>3. t \in Timing /\ clock \in Int
    BY DEF TimingsInv
  <2> QED BY <2>1, <2>2, <2>3, OneDue
<1> HIDE DEF Dues
<1>2. Cardinality(Dues) <= 1
  BY <1>1, AtMostOne
<1>3. Timings!Cardinality(Dues) = Cardinality(Dues)
  BY DEF Timings!Cardinality, Cardinality
<1> QED BY <1>2, <1>3 DEF Dues

-----------------------------------------------------------------------------
(* The house.                                                              *)

HomeInv ==
    /\ ListeningInv /\ EndpointInv /\ SpeakingInv /\ MusicInv /\ SearchInv /\ VideoInv
    /\ PhotoInv /\ TvInv /\ PdfInv /\ WebInv /\ ImagesInv /\ AssetsInv /\ PrinterInv
    /\ PingsInv /\ XiaomiInv /\ ClimateInv /\ OfferInv /\ BrainsInv /\ UsageInv /\ PlanInv
    /\ TimingsInv

\* The house begins as each of its parts does.
LEMMA HomeBegins == HomeInit => HomeInv
<1> SUFFICES ASSUME HomeInit PROVE HomeInv
  OBVIOUS
<1>1. /\ Timings!Init /\ Listening!Init /\ Speaking!Init /\ Music!Init /\ Search!Init
      /\ Endpoint!Init /\ Photo!Init /\ Several!Init /\ Usage!Init /\ Offer!Init
      /\ Video!Init /\ Climate!Init /\ Xiaomi!Init /\ TheTv!Init /\ Images!Init /\ Assets!Init
      /\ Printer!Init /\ Pings!Init /\ Pdf!Init /\ Web!Init /\ Plan!Init
  BY DEF HomeInit
<1> QED BY <1>1, ListeningBegins, EndpointBegins, SpeakingBegins, MusicBegins, SearchBegins,
           VideoBegins, PhotoBegins, TvBegins, PdfBegins, WebBegins, ImagesBegin, AssetsBegin,
           PrinterBegins, PingsBegin, XiaomiBegins, ClimateBegins, OfferBegins, BrainsBegin,
           UsageBegins, PlanBegins, TimingsBegin DEF HomeInv

\* The parts that are not the subject of a behaviour stay as they are.
LEMMA OthersStay == ASSUME HomeNext, NEW p \in Parts, p # subject PROVE Frozen(p)
<1>1. ASSUME NEW q, Only(q) PROVE Frozen(p)
  BY <1>1 DEF Only
<1> QED BY <1>1, Zenon DEF HomeNext

\* A step of the house is one of a part, or changes none of its variables.
LEMMA OnePartMoves ==
  ASSUME [HomeNext]_homeVars
  PROVE  /\ UNCHANGED vars \/ Next
         /\ UNCHANGED timingVars \/ Timings!Next
         /\ UNCHANGED listeningVars \/ Listening!Next
         /\ UNCHANGED speakingVars \/ Speaking!Next
         /\ UNCHANGED musicVars \/ Music!Next
         /\ UNCHANGED songsVars \/ Search!Next
         /\ UNCHANGED endpointVars \/ Endpoint!Next
         /\ UNCHANGED photoVars \/ Photo!Next
         /\ UNCHANGED brainsVars \/ Several!Next
         /\ UNCHANGED usageVars \/ Usage!Next
         /\ UNCHANGED offerVars \/ Offer!Next
         /\ UNCHANGED videoVars \/ Video!Next
         /\ UNCHANGED climateVars \/ Climate!Next
         /\ UNCHANGED xiaomiVars \/ Xiaomi!Next
         /\ UNCHANGED tvVars \/ TheTv!Next
         /\ UNCHANGED imagesVars \/ Images!Next
         /\ UNCHANGED assetsVars \/ Assets!Next
         /\ UNCHANGED printerVars \/ Printer!Next
         /\ UNCHANGED pingsVars \/ Pings!Next
         /\ UNCHANGED pdfVars \/ Pdf!Next
         /\ UNCHANGED webVars \/ Web!Next
         /\ UNCHANGED planVars \/ Plan!Next
<1>1. CASE UNCHANGED homeVars
  BY <1>1 DEF homeVars
<1>2. CASE HomeNext
  <2>1. \A p \in Parts : p # subject => Frozen(p)
    BY <1>2, OthersStay
  <2>2. UNCHANGED vars \/ Next
    <3>1. CASE subject = "beats"
      BY <1>2, <3>1 DEF HomeNext, Only
    <3>2. CASE subject # "beats"
      BY <2>1, <3>2 DEF Parts, Frozen
    <3> QED BY <3>1, <3>2
  <2>3. UNCHANGED timingVars \/ Timings!Next
    <3>1. CASE subject = "timing"
      BY <1>2, <3>1 DEF HomeNext, Only
    <3>2. CASE subject # "timing"
      BY <2>1, <3>2 DEF Parts, Frozen
    <3> QED BY <3>1, <3>2
  <2>4. UNCHANGED listeningVars \/ Listening!Next
    <3>1. CASE subject = "listening"
      BY <1>2, <3>1 DEF HomeNext, Only
    <3>2. CASE subject # "listening"
      BY <2>1, <3>2 DEF Parts, Frozen
    <3> QED BY <3>1, <3>2
  <2>5. UNCHANGED speakingVars \/ Speaking!Next
    <3>1. CASE subject = "speaking"
      BY <1>2, <3>1 DEF HomeNext, Only
    <3>2. CASE subject # "speaking"
      BY <2>1, <3>2 DEF Parts, Frozen
    <3> QED BY <3>1, <3>2
  <2>6. UNCHANGED musicVars \/ Music!Next
    <3>1. CASE subject = "music"
      BY <1>2, <3>1 DEF HomeNext, Only
    <3>2. CASE subject # "music"
      BY <2>1, <3>2 DEF Parts, Frozen
    <3> QED BY <3>1, <3>2
  <2>7. UNCHANGED songsVars \/ Search!Next
    <3>1. CASE subject = "songs"
      BY <1>2, <3>1 DEF HomeNext, Only
    <3>2. CASE subject # "songs"
      BY <2>1, <3>2 DEF Parts, Frozen
    <3> QED BY <3>1, <3>2
  <2>8. UNCHANGED endpointVars \/ Endpoint!Next
    <3>1. CASE subject = "endpoint"
      BY <1>2, <3>1 DEF HomeNext, Only
    <3>2. CASE subject # "endpoint"
      BY <2>1, <3>2 DEF Parts, Frozen
    <3> QED BY <3>1, <3>2
  <2>9. UNCHANGED photoVars \/ Photo!Next
    <3>1. CASE subject = "photo"
      BY <1>2, <3>1 DEF HomeNext, Only
    <3>2. CASE subject # "photo"
      BY <2>1, <3>2 DEF Parts, Frozen
    <3> QED BY <3>1, <3>2
  <2>10. UNCHANGED brainsVars \/ Several!Next
    <3>1. CASE subject = "brains"
      BY <1>2, <3>1 DEF HomeNext, Only
    <3>2. CASE subject # "brains"
      BY <2>1, <3>2 DEF Parts, Frozen
    <3> QED BY <3>1, <3>2
  <2>11. UNCHANGED usageVars \/ Usage!Next
    <3>1. CASE subject = "usage"
      BY <1>2, <3>1 DEF HomeNext, Only
    <3>2. CASE subject # "usage"
      BY <2>1, <3>2 DEF Parts, Frozen
    <3> QED BY <3>1, <3>2
  <2>12. UNCHANGED offerVars \/ Offer!Next
    <3>1. CASE subject = "offer"
      BY <1>2, <3>1 DEF HomeNext, Only
    <3>2. CASE subject # "offer"
      BY <2>1, <3>2 DEF Parts, Frozen
    <3> QED BY <3>1, <3>2
  <2>13. UNCHANGED videoVars \/ Video!Next
    <3>1. CASE subject = "video"
      BY <1>2, <3>1 DEF HomeNext, Only
    <3>2. CASE subject # "video"
      BY <2>1, <3>2 DEF Parts, Frozen
    <3> QED BY <3>1, <3>2
  <2>14. UNCHANGED climateVars \/ Climate!Next
    <3>1. CASE subject = "climate"
      BY <1>2, <3>1 DEF HomeNext, Only
    <3>2. CASE subject # "climate"
      BY <2>1, <3>2 DEF Parts, Frozen
    <3> QED BY <3>1, <3>2
  <2>15. UNCHANGED xiaomiVars \/ Xiaomi!Next
    <3>1. CASE subject = "xiaomi"
      BY <1>2, <3>1 DEF HomeNext, Only
    <3>2. CASE subject # "xiaomi"
      BY <2>1, <3>2 DEF Parts, Frozen
    <3> QED BY <3>1, <3>2
  <2>16. UNCHANGED tvVars \/ TheTv!Next
    <3>1. CASE subject = "tv"
      BY <1>2, <3>1 DEF HomeNext, Only
    <3>2. CASE subject # "tv"
      BY <2>1, <3>2 DEF Parts, Frozen
    <3> QED BY <3>1, <3>2
  <2>17. UNCHANGED imagesVars \/ Images!Next
    <3>1. CASE subject = "images"
      BY <1>2, <3>1 DEF HomeNext, Only
    <3>2. CASE subject # "images"
      BY <2>1, <3>2 DEF Parts, Frozen
    <3> QED BY <3>1, <3>2
  <2>18. UNCHANGED assetsVars \/ Assets!Next
    <3>1. CASE subject = "assets"
      BY <1>2, <3>1 DEF HomeNext, Only
    <3>2. CASE subject # "assets"
      BY <2>1, <3>2 DEF Parts, Frozen
    <3> QED BY <3>1, <3>2
  <2>19. UNCHANGED printerVars \/ Printer!Next
    <3>1. CASE subject = "printer"
      BY <1>2, <3>1 DEF HomeNext, Only
    <3>2. CASE subject # "printer"
      BY <2>1, <3>2 DEF Parts, Frozen
    <3> QED BY <3>1, <3>2
  <2>20. UNCHANGED pingsVars \/ Pings!Next
    <3>1. CASE subject = "pings"
      BY <1>2, <3>1 DEF HomeNext, Only
    <3>2. CASE subject # "pings"
      BY <2>1, <3>2 DEF Parts, Frozen
    <3> QED BY <3>1, <3>2
  <2>21. UNCHANGED pdfVars \/ Pdf!Next
    <3>1. CASE subject = "pdf"
      BY <1>2, <3>1 DEF HomeNext, Only
    <3>2. CASE subject # "pdf"
      BY <2>1, <3>2 DEF Parts, Frozen
    <3> QED BY <3>1, <3>2
  <2>22. UNCHANGED webVars \/ Web!Next
    <3>1. CASE subject = "web"
      BY <1>2, <3>1 DEF HomeNext, Only
    <3>2. CASE subject # "web"
      BY <2>1, <3>2 DEF Parts, Frozen
    <3> QED BY <3>1, <3>2
  <2>23. UNCHANGED planVars \/ Plan!Next
    <3>1. CASE subject = "plan"
      BY <1>2, <3>1 DEF HomeNext, Only
    <3>2. CASE subject # "plan"
      BY <2>1, <3>2 DEF Parts, Frozen
    <3> QED BY <3>1, <3>2
  <2> QED BY <2>2, <2>3, <2>4, <2>5, <2>6, <2>7, <2>8, <2>9, <2>10, <2>11, <2>12, <2>13, <2>14,
           <2>15, <2>16, <2>17, <2>18, <2>19, <2>20, <2>21, <2>22, <2>23
<1> QED BY <1>1, <1>2

\* So every step of the house keeps its invariant.
LEMMA HomeStep == HomeInv /\ [HomeNext]_homeVars => HomeInv'
<1> SUFFICES ASSUME HomeInv, [HomeNext]_homeVars PROVE HomeInv'
  OBVIOUS
<1> USE OnePartMoves
<1>1. TimingsInv'
  BY TimingsStay, TimingsStep DEF HomeInv
<1>2. ListeningInv'
  BY ListeningStays, ListeningStep DEF HomeInv
<1>3. SpeakingInv'
  BY SpeakingStays, SpeakingStep DEF HomeInv
<1>4. MusicInv'
  BY MusicStays, MusicStep DEF HomeInv
<1>5. SearchInv'
  BY SearchStays, SearchStep DEF HomeInv
<1>6. EndpointInv'
  BY EndpointStays, EndpointStep DEF HomeInv
<1>7. PhotoInv'
  BY PhotoStays, PhotoStep DEF HomeInv
<1>8. BrainsInv'
  BY BrainsStay, BrainsStep DEF HomeInv
<1>9. OfferInv'
  BY OfferStays, OfferStep DEF HomeInv
<1>10. VideoInv'
  BY VideoStays, VideoStep DEF HomeInv
<1>11. ClimateInv'
  BY ClimateStays, ClimateStep DEF HomeInv
<1>12. XiaomiInv'
  BY XiaomiStays, XiaomiStep DEF HomeInv
<1>13. TvInv'
  BY TvStays, TvStep DEF HomeInv
<1>14. ImagesInv'
  BY ImagesStay, ImagesStep DEF HomeInv
<1>15. AssetsInv'
  BY AssetsStay, AssetsStep DEF HomeInv
<1>16. PrinterInv'
  BY PrinterStays, PrinterStep DEF HomeInv
<1>17. PingsInv'
  BY PingsStay, PingsStep DEF HomeInv
<1>18. PdfInv'
  BY PdfStays, PdfStep DEF HomeInv
<1>19. WebInv'
  BY WebStays, WebStep DEF HomeInv
<1>20. PlanInv'
  BY PlanStays, PlanStep DEF HomeInv
<1>21. UsageInv'
  BY UsageStays, UsageStep DEF HomeInv
<1> QED BY <1>1, <1>2, <1>3, <1>4, <1>5, <1>6, <1>7, <1>8, <1>9, <1>10, <1>11, <1>12,
           <1>13, <1>14, <1>15, <1>16, <1>17, <1>18, <1>19, <1>20, <1>21 DEF HomeInv

\* So the invariant of the house, that of its parts, holds in every behaviour, whatever the
\* workers, Brains, microphones, timings and bounds are.
THEOREM HomeInvariant == HomeSpec => []HomeInv
<1> QED BY HomeBegins, HomeStep, PTL DEF HomeSpec

\* The beats of the house behave as BeatSchedule specifies, so what is proved of BeatSchedule
\* (BeatScheduleProofs) holds of the house (_plan_next_beat, _mark_missed_beat).
THEOREM HomeImplementsBeats == HomeSpec => Spec
<1>1. HomeInit => Init
  BY DEF HomeInit
<1>2. [HomeNext]_homeVars => [Next]_vars
  BY OnePartMoves
<1> QED BY <1>1, <1>2, PTL DEF HomeSpec, Spec

\* Every part's variables keep the shape the code gives them, for any number of workers,
\* Brains and microphones: no counter of the agent's threads goes below zero, as that of the
\* voice does not (depth), and no queue above its limit.
THEOREM PartsKeepTypes == HomeSpec => []TypesOK
<1>1. HomeInv => TypesOK
  BY ListeningSafe, EndpointSafe, SpeakingSafe, MusicSafe, SearchSafe, VideoSafe, PhotoSafe,
     TvSafe, PdfSafe, WebSafe, ImagesSafe, AssetsSafe, PrinterSafe, XiaomiSafe, ClimateSafe,
     OfferSafe, BrainsSafe, UsageSafe, PlanSafe DEF HomeInv, PingsInv, TypesOK
<1> QED BY <1>1, HomeInvariant, PTL

\* What was asked for once is done once, for any number of workers, Brains and failures: no
\* more commands are posted than gates were opened, a song comes once in a list, the cloud of
\* the air conditioner takes a setting once a step, the fish get one meal, an asset is fetched
\* once, no heartbeat tells a Brain of more cloud calls than were made, nor two of them unless
\* they cross, and a text or a log-in is tried again once.  What a restart, a lost answer or
\* two simultaneous steps repeat is named in the property: retold, crossed, unclear, lanLost,
\* exempt.
THEOREM NothingDoneTwice == HomeSpec => []DoneOnce
<1>1. HomeInv => DoneOnce
  BY ListeningSafe, SearchSafe, UsageSafe, ClimateSafe, XiaomiSafe, PrinterSafe, AssetsSafe,
     ImagesSafe, SpeakingSafe DEF HomeInv, DoneOnce
<1> QED BY <1>1, HomeInvariant, PTL

\* What a step says is so, though others change it meanwhile: the settings it announces reached
\* a unit that was on (apply_climate), the television shows the session's page, no device that
\* does not answer to the set's name gets the pictures (_name_matches), the picture is the one
\* searched for, an address handed out is of now, and a queue has the artist's songs only.
\* Where an overlapping step, the remote control or a late reading can make it untrue the
\* property says so: disturbed, doubt, moved, clashed.
THEOREM WhatIsSaidIsTrue == HomeSpec => []TrueToSaid
<1>1. HomeInv => TrueToSaid
  BY ClimateSafe, PdfSafe, ImagesSafe, TvSafe, AssetsSafe, SearchSafe, WebSafe
     DEF HomeInv, TrueToSaid
<1> QED BY <1>1, HomeInvariant, PTL

\* A step is run with a value that a step before it made and declared (_hydrate_context), not
\* with an echo or the intent's own, and never with one older than the last made on this Mac,
\* for a plan of any length, wherever its steps are run. One that another node made after that
\* may be passed over: an older local output wins over a later foreign one.
THEOREM StepsGetTheirInput == HomeSpec => []InputIsProduced
<1>1. HomeInv => InputIsProduced
  BY PlanSafe DEF HomeInv, InputIsProduced
<1> QED BY <1>1, HomeInvariant, PTL

\* While a worker speaks through the Mac, and has not for longer than the flag counts
\* (_STALE_SEC), the microphones are muted, whoever else ends, crashes or begins meanwhile; of
\* a longer speech it says nothing, because the flag is not renewed while one speaks.  And no clip holds a chunk that was muted, and a command that was begun inside its window is cut
\* off only after a command's silence, for every length of silence, clip and window.
THEOREM OwnVoiceIsMuted == HomeSpec => []HeardRight
<1>1. HomeInv => HeardRight
  BY SpeakingSafe, EndpointSafe DEF HomeInv, HeardRight
<1> QED BY <1>1, HomeInvariant, PTL

\* What is kept is what it counts as, through skipped songs, timers that are late, recorders
\* that do not start, restarts and lost answers: a row that says "recording" is recorded, unless
\* the database did not take its last change (untold), one that says "complete" ran for the
\* song's length, unless its recorder died on the way (died), which _fire does not look for, a
\* photo marked as uploaded is in Brain, only whole ones are uploaded, and ads that were there
\* stay, over a restart too if the cache on disk was not torn (refresh_ads).
THEOREM WhatIsKeptIsTrue == HomeSpec => []KeptTrue
<1>1. HomeInv => KeptTrue
  BY MusicSafe, PhotoSafe, OfferSafe DEF HomeInv, KeptTrue
<1> QED BY <1>1, HomeInvariant, PTL

\* Whatever fails on the way, the Mac is on its own network again after a photo unless coming
\* home failed, no Chrome and no temporary file is left after a page, and nothing is pinged after
\* the stop. A stream's directory that nothing will remove is one that a restart forgot or that
\* a push without a playlist left (_archive_record); its .ts dump always stays.
THEOREM NothingIsLeftOver == HomeSpec => []AsBefore
<1>1. HomeInv => AsBefore
  BY PhotoSafe, WebSafe, VideoSafe DEF HomeInv, PingsInv, AsBefore
<1> QED BY <1>1, HomeInvariant, PTL

\* At any instant at most one beat of a series may start (miss_window_ms), for every interval,
\* every cron expression and every cap on the window.
THEOREM WindowsNeverMeet == HomeSpec => []WindowsDisjoint
<1>1. HomeInv => WindowsDisjoint
  BY WindowsApart DEF HomeInv
<1> QED BY <1>1, HomeInvariant, PTL

\* No beat is passed over, however short its interval: before it is missed there is an instant
\* at which it is due (timing_gate).
THEOREM NoneIsPassedOver == HomeSpec => NoBeatPassedOver
<1> DEFINE Kept == clock' # clock => \A b \in Timings!Beats :
                        Timings!Gate(t, clock, b) = "wait" => Timings!Gate(t, clock', b) \in {"wait", "due"}
<1>1. HomeInv /\ [HomeNext]_homeVars => [Kept]_timingVars
  <2> SUFFICES ASSUME HomeInv, Timings!Next PROVE Kept
    BY OnePartMoves DEF Kept
  <2>1. clock' = clock + 1 /\ t \in Timing /\ clock \in Nat
    BY DEF Timings!Next, Timings!Tick, HomeInv, TimingsInv
  <2> SUFFICES ASSUME NEW b \in Timings!Beats, Timings!Gate(t, clock, b) = "wait"
               PROVE  Timings!Gate(t, clock', b) \in {"wait", "due"}
    OBVIOUS
  <2>2. b \in Nat
    BY TimingsAssumption DEF Timings!Beats
  <2>3. Gate(t, clock, b) = "wait"
    BY SameGate
  <2>4. Gate(t, clock + 1, b) \in {"wait", "due"}
    BY <2>1, <2>2, <2>3, NotPassedOver
  <2>5. Timings!Gate(t, clock + 1, b) = Gate(t, clock + 1, b)
    BY SameGate
  <2> QED BY <2>1, <2>4, <2>5
<1>2. HomeSpec => [][Kept]_timingVars
  BY <1>1, HomeInvariant, PTL DEF HomeSpec
<1> QED BY <1>2 DEF NoBeatPassedOver, Timings!NoBeatPassedOver, Timings!vars, timingVars

\* A command that was begun while its window was open is posted, however late its words come
\* from the recogniser (the gate's late words).
THEOREM LateCommandsCount == HomeSpec => LateWordsCount
<1> DEFINE Kept == \A k \in Keys :
                     Listening!LoopHears("command") /\ loop.key = k
                     /\ window[k].from <= loop.start /\ loop.start <= window[k].till
                     => posted'[k] = posted[k] + 1
<1>1. HomeInv /\ [HomeNext]_homeVars => [Kept]_listeningVars
  <2>1. HomeInv => Kept
    BY LateCounts DEF HomeInv
  <2> QED BY <2>1
<1>2. HomeSpec => [][Kept]_listeningVars
  BY <1>1, HomeInvariant, PTL DEF HomeSpec
<1> QED BY <1>2 DEF LateWordsCount, Listening!LateWordsCount, Listening!vars, listeningVars
=============================================================================
