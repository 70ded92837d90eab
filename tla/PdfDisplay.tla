----------------------------- MODULE PdfDisplay -----------------------------
(***************************************************************************)
(* display.pdf, display.pdf.page and display.pdf.zoom (pdf_display.py):    *)
(* one document on one television, in a session that every worker of the   *)
(* process shares. A session is replaced under a lock; it is read, and its *)
(* page and its zoom are changed, without one.                             *)
(***************************************************************************)
EXTENDS Naturals, Sequences

CONSTANTS
    Readers,      \* worker threads
    Documents,    \* the PDFs of the house
    PageCount,    \* pages of each
    ZoomLevels,   \* len(ZOOM_LEVELS); level 1 is the whole page
    MaxSteps      \* bound on the steps begun

VARIABLES
    reader,       \* per worker: its step
    opened,       \* the sessions opened since the start, in order
    current,      \* which of them _SESSION is
    drawn,        \* per document: the page images in its work directory
    links,        \* per session: page_refs
    tv,           \* what the television shows
    alone,        \* history: workers whose step no other step has overlapped
    doubt,        \* history: the last step failed, or overlapped another
    steps

vars == <<reader, opened, current, drawn, links, tv, alone, doubt, steps>>

NoSession == 0
Picture(d, p, z) == [doc |-> d, page |-> p, zoom |-> z]
Resting == [at |-> "resting", session |-> NoSession, old |-> {}, page |-> 1, zoom |-> 1, turns |-> FALSE]
Busy == {w \in Readers : reader[w].at # "resting"}
Session(w) == opened[reader[w].session]
Shown(w) == Picture(Session(w).doc, reader[w].page, reader[w].zoom)

\* A step begins: a step that is under way is no longer alone.
Begins(w, r) ==
    /\ reader[w].at = "resting" /\ steps < MaxSteps /\ steps' = steps + 1
    /\ reader' = [reader EXCEPT ![w] = r]
    /\ alone' = IF Busy = {} THEN {w} ELSE {}

Ends(w) == reader' = [reader EXCEPT ![w] = Resting] /\ alone' = alone \ {w}
Fails(w) == Ends(w) /\ doubt' = TRUE

-----------------------------------------------------------------------------

\* open_from_params replaces the session, whether or not its page will be shown.
Open(w, d, page) ==
    LET old == IF current = NoSession THEN {} ELSE {opened[current].doc} \ {d}
        p   == IF page > PageCount THEN PageCount ELSE page
    IN /\ Begins(w, [Resting EXCEPT !.at = IF old = {} THEN "linking" ELSE "tidying", !.old = old,
                                    !.session = Len(opened) + 1, !.page = p])
       /\ opened' = Append(opened, [doc |-> d, page |-> p, zoom |-> 1])
       /\ current' = Len(opened) + 1 /\ links' = Append(links, {})
       /\ UNCHANGED <<drawn, tv, doubt>>

\* The old session's work directory goes, after the lock was let go.
Tidy(w) ==
    /\ reader[w].at = "tidying"
    /\ drawn' = [d \in Documents |-> IF d \in reader[w].old THEN {} ELSE drawn[d]]
    /\ reader' = [reader EXCEPT ![w].at = "linking", ![w].old = {}]
    /\ UNCHANGED <<opened, current, links, tv, alone, doubt, steps>>

TurnedZoomed(s) == s.zoom
\* The zoom is not kept from page to page.
TurnedZoom(s) == 1

\* page_from_params: the next page, the one before, or the one asked for, by number;
\* beyond either end nothing is shown.
TurnPage(w, p) ==
    /\ current # NoSession
    /\ Begins(w, [Resting EXCEPT !.at = "linking", !.session = current, !.page = p, !.turns = TRUE])
    /\ opened' = [opened EXCEPT ![current].zoom = TurnedZoom(opened[current])]
    /\ UNCHANGED <<current, drawn, links, tv, doubt>>

\* zoom_from_params: the level changes before it is shown.
Zoom(w, move) ==
    /\ current # NoSession
    /\ LET s == opened[current]
           z == CASE move = "in" /\ s.zoom < ZoomLevels -> s.zoom + 1
                  [] move = "out" /\ s.zoom > 1 -> s.zoom - 1
                  [] move = "reset" -> 1
                  [] OTHER -> s.zoom
       IN /\ z # s.zoom
          /\ Begins(w, [Resting EXCEPT !.at = "linking", !.session = current, !.page = s.page, !.zoom = z])
          /\ opened' = [opened EXCEPT ![current].zoom = z]
    /\ UNCHANGED <<current, drawn, links, tv, doubt>>

-----------------------------------------------------------------------------
(* _show_page.                                                             *)

Image(w) == <<reader[w].page, reader[w].zoom>>
Link(w) == links[reader[w].session]

\* _page_url: the page's reference, unless it was another intent's; else
\* _ensure_rendered draws the page.
FindPage(w) ==
    /\ reader[w].at = "linking"
    /\ \/ /\ Image(w) \in Link(w) /\ reader' = [reader EXCEPT ![w].at = "showing"]
          /\ UNCHANGED <<drawn, links, alone, doubt>>
       \/ /\ links' = [links EXCEPT ![reader[w].session] = @ \ {Image(w)}]
          /\ \/ /\ drawn' = [drawn EXCEPT ![Session(w).doc] = @ \union {Image(w)}]
                /\ reader' = [reader EXCEPT ![w].at = "sending"] /\ UNCHANGED <<alone, doubt>>
             \/ Fails(w) /\ UNCHANGED drawn
    /\ UNCHANGED <<opened, current, tv, steps>>

\* _upload_page reads the image from the work directory, if it is still there.
Send(w) ==
    /\ reader[w].at = "sending"
    /\ \/ /\ Image(w) \in drawn[Session(w).doc]
          /\ links' = [links EXCEPT ![reader[w].session] = @ \union {Image(w)}]
          /\ reader' = [reader EXCEPT ![w].at = "showing"] /\ UNCHANGED <<alone, doubt>>
       \/ Fails(w) /\ UNCHANGED links
    /\ UNCHANGED <<opened, current, drawn, tv, steps>>

\* _display_photo, and what the step does to the session afterwards.
Show(w) ==
    /\ reader[w].at = "showing" /\ tv' = Shown(w)
    /\ opened' = IF reader[w].turns THEN [opened EXCEPT ![reader[w].session].page = reader[w].page] ELSE opened
    /\ doubt' = (w \notin alone) /\ Ends(w)
    /\ UNCHANGED <<current, drawn, links, steps>>

\* A television that reports a failure may show the page all the same.
ShowFails(w) ==
    /\ reader[w].at = "showing" /\ Fails(w) /\ tv' \in {tv, Shown(w)}
    /\ UNCHANGED <<opened, current, drawn, links, steps>>

\* Mac Edge is started again: the television goes on showing the page.
Restart ==
    /\ current # NoSession /\ current' = NoSession /\ opened' = <<>> /\ links' = <<>>
    /\ reader' = [w \in Readers |-> Resting] /\ alone' = {} /\ doubt' = TRUE
    /\ UNCHANGED <<drawn, tv, steps>>

-----------------------------------------------------------------------------

Init ==
    /\ reader = [w \in Readers |-> Resting] /\ opened = <<>> /\ current = NoSession
    /\ drawn = [d \in Documents |-> {}] /\ links = <<>> /\ tv = Picture("none", 0, 0)
    /\ alone = {} /\ doubt = TRUE /\ steps = 0

Next ==
    \/ \E w \in Readers :
          \/ \E d \in Documents, p \in {1, PageCount + 1} : Open(w, d, p)
          \/ \E p \in 1..PageCount : TurnPage(w, p)
          \/ \E move \in {"in", "out", "reset"} : Zoom(w, move)
          \/ Tidy(w) \/ FindPage(w) \/ Send(w) \/ Show(w) \/ ShowFails(w)
    \/ Restart

-----------------------------------------------------------------------------

\* Types of the variables.
TypeOK ==
    /\ reader \in [Readers -> [at : {"resting", "tidying", "linking", "sending", "showing"},
                               session : 0..Len(opened), old : SUBSET Documents,
                               page : 1..PageCount, zoom : 1..ZoomLevels, turns : BOOLEAN]]
    /\ \A i \in 1..Len(opened) :
          opened[i] \in [doc : Documents, page : 1..PageCount, zoom : 1..ZoomLevels]
    /\ current \in 0..Len(opened) /\ Len(links) = Len(opened)
    /\ drawn \in [Documents -> SUBSET ((1..PageCount) \X (1..ZoomLevels))]
    /\ alone \subseteq Readers /\ doubt \in BOOLEAN

\* After a step that ended well, and that no other overlapped, the television
\* shows the page and the zoom of the session, so that the next step goes on from
\* what people see, whatever failed or interfered before.
ScreenIsSession ==
    Busy = {} /\ ~doubt =>
        tv = Picture(opened[current].doc, opened[current].page, opened[current].zoom)
=============================================================================
