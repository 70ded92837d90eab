------------------------------ MODULE WebPage ------------------------------
(***************************************************************************)
(* web.scraper (web_scraper.py): a page is fetched, its article is found,  *)
(* and it becomes a text or a PDF, which is numbered and uploaded. Chrome  *)
(* prints into a file and may never exit: the step looks at the file twice *)
(* a second, takes it once it has held something for a second, and kills   *)
(* Chrome. Chrome prints the page, and, once more, the layer of page       *)
(* numbers.                                                                *)
(***************************************************************************)
EXTENDS Naturals

CONSTANTS
    Deadline,    \* RENDER_TIMEOUT_SEC, in looks
    MaxPages     \* bound on the steps begun

VARIABLES
    hasChrome, hasWeasy,   \* the engines of this Mac
    page,                  \* the step: what is asked, and how far it is
    chrome,                \* "none", "working" or "exited"
    printed,               \* what Chrome's file holds: "nothing", "part" or "whole"
    looks, seen,           \* looks so far, and at which the file was not empty
    temps,                 \* temporary files and directories
    body,                  \* the document: what of it there is, how often it is numbered
    pages

vars == <<hasChrome, hasWeasy, page, chrome, printed, looks, seen, temps, body, pages>>

NoBody == [holds |-> "nothing", numbers |-> 0]
Asked == [fmt : {"text", "pdf"}, engine : {"auto", "weasyprint", "chrome"}, numbers : BOOLEAN, native : BOOLEAN]
NoPage == [at |-> "idle", engine |-> "none", said |-> FALSE,
           ask |-> [fmt |-> "pdf", engine |-> "auto", numbers |-> FALSE, native |-> FALSE]]

Engines == <<hasChrome, hasWeasy>>
Looking == <<printed, looks, seen>>
At(at) == page' = [page EXCEPT !.at = at]

\* What the finally clauses around each part of the step remove.
ChromeFreed == {"html", "profile"}
ChromeFreedOnSuccess == IF printed = "nothing" THEN {"html"} ELSE {"html", "profile"}
ChromeOver == ChromeFreed
StampOver == {"overlay", "stamped"}
ScrapeOver == {"text", "pdf"}

Fails == /\ At("failed") /\ chrome' = "none"
         /\ temps' = temps \ (ScrapeOver \union StampOver \union ChromeOver)

-----------------------------------------------------------------------------

Begin(ask) ==
    /\ page.at \in {"idle", "ok", "failed"} /\ pages < MaxPages
    /\ page' = [NoPage EXCEPT !.at = "fetching", !.ask = ask]
    /\ body' = NoBody /\ pages' = pages + 1
    /\ UNCHANGED <<Engines, chrome, Looking, temps>>

\* fetch_html and decode_html.
Fetch ==
    /\ page.at = "fetching"
    /\ \/ At("extracting") /\ UNCHANGED <<chrome, temps>>
       \/ Fails
    /\ UNCHANGED <<Engines, Looking, body, pages>>

\* resolve_renderer: what is asked for must be there; Chrome goes first.
Engine ==
    CASE page.ask.engine = "chrome"     -> IF hasChrome THEN "chrome" ELSE "none"
      [] page.ask.engine = "weasyprint" -> IF hasWeasy THEN "weasyprint" ELSE "none"
      [] OTHER -> IF hasChrome THEN "chrome" ELSE IF hasWeasy THEN "weasyprint" ELSE "none"

\* extract_article; a text is written at once, a PDF needs an engine.
Extract ==
    /\ page.at = "extracting"
    /\ \/ Fails /\ UNCHANGED body
       \/ /\ page.ask.fmt = "text" /\ At("uploading") /\ temps' = temps \union {"text"}
          /\ body' = [NoBody EXCEPT !.holds = "whole"] /\ UNCHANGED chrome
       \/ /\ page.ask.fmt = "pdf" /\ Engine # "none" /\ temps' = temps \union {"pdf"}
          /\ page' = [page EXCEPT !.at = "rendering", !.engine = Engine] /\ UNCHANGED <<chrome, body>>
    /\ UNCHANGED <<Engines, Looking, pages>>

RenderWeasyprint ==
    /\ page.at = "rendering" /\ page.engine = "weasyprint"
    /\ \/ At("counting") /\ body' = [body EXCEPT !.holds = "whole"] /\ UNCHANGED <<chrome, temps>>
       \/ Fails /\ UNCHANGED body
    /\ UNCHANGED <<Engines, Looking, pages>>

-----------------------------------------------------------------------------
(* _render_chrome, for the page and for the layer of numbers.              *)

ChromeStarts ==
    /\ \/ page.at = "rendering" /\ page.engine = "chrome" /\ At("printing")
       \/ page.at = "stamping" /\ At("printing numbers")
    /\ chrome' = "working" /\ printed' = "nothing" /\ looks' = 0 /\ seen' = 0
    /\ temps' = temps \union {"html", "profile"} \union (IF page.at = "stamping" THEN {"overlay"} ELSE {})
    /\ UNCHANGED <<Engines, body, pages>>

ChromeWrites ==
    /\ chrome = "working" /\ printed # "whole"
    /\ printed' = IF printed = "nothing" THEN "part" ELSE "whole"
    /\ UNCHANGED <<Engines, page, chrome, looks, seen, temps, body, pages>>

\* It may crash, or just end.
ChromeExits ==
    /\ chrome = "working" /\ chrome' = "exited"
    /\ UNCHANGED <<Engines, page, Looking, temps, body, pages>>

Printing == page.at \in {"printing", "printing numbers"}
Enough == seen > 0 /\ looks - seen >= 2
Late == looks >= Deadline
Hopeless == chrome = "exited" /\ printed = "nothing"

Look ==
    /\ Printing /\ ~Enough /\ ~Late /\ ~Hopeless
    /\ looks' = looks + 1
    /\ seen' = IF printed # "nothing" /\ seen = 0 THEN looks + 1 ELSE seen
    /\ UNCHANGED <<Engines, page, chrome, printed, temps, body, pages>>

\* Chrome is killed and its profile removed; what the file holds is the document.
Printed ==
    /\ Printing /\ (Enough \/ Late) /\ printed # "nothing"
    /\ chrome' = "none" /\ temps' = temps \ ChromeOver
    /\ IF page.at = "printing"
       THEN /\ At("counting")
            /\ body' = [holds |-> printed,
                        numbers |-> IF page.ask.native THEN 1 ELSE 0]
       ELSE At("merging") /\ UNCHANGED body
    /\ UNCHANGED <<Engines, Looking, pages>>

NotPrinted ==
    /\ Printing /\ (Hopeless \/ Late) /\ printed = "nothing" /\ Fails
    /\ UNCHANGED <<Engines, Looking, body, pages>>

-----------------------------------------------------------------------------

\* Page numbers: Chrome's own, else stamped, if there is a Chrome to print them.
Native == page.ask.native /\ page.engine = "chrome"
NumberingAsked == IF ~page.ask.numbers THEN "none" ELSE IF hasChrome THEN "stamp" ELSE "none"
Numbering ==
    IF ~page.ask.numbers THEN "none"
    ELSE IF Native THEN "native"
    ELSE IF hasChrome THEN "stamp" ELSE "none"

\* pdf_page_count, which may not be able to read half a document.
Count ==
    /\ page.at = "counting"
    /\ \/ /\ page' = [page EXCEPT !.at = IF Numbering = "stamp" THEN "stamping" ELSE "uploading",
                                  !.said = Numbering = "native"]
          /\ UNCHANGED <<chrome, temps>>
       \/ Fails
    /\ UNCHANGED <<Engines, Looking, body, pages>>

\* stamp_page_numbers: the layer must have as many pages as the document.
Merge ==
    /\ page.at = "merging"
    /\ \/ /\ page' = [page EXCEPT !.at = "uploading", !.said = TRUE]
          /\ body' = [body EXCEPT !.numbers = @ + 1] /\ temps' = temps \ StampOver /\ UNCHANGED chrome
       \/ Fails /\ UNCHANGED body
    /\ UNCHANGED <<Engines, Looking, pages>>

Upload ==
    /\ page.at = "uploading"
    /\ \/ At("ok") /\ temps' = temps \ ScrapeOver /\ UNCHANGED chrome
       \/ Fails
    /\ UNCHANGED <<Engines, Looking, body, pages>>

-----------------------------------------------------------------------------

Init ==
    /\ hasChrome \in BOOLEAN /\ hasWeasy \in BOOLEAN
    /\ page = NoPage /\ chrome = "none" /\ printed = "nothing" /\ looks = 0 /\ seen = 0
    /\ temps = {} /\ body = NoBody /\ pages = 0

Next ==
    \/ \E ask \in Asked : Begin(ask)
    \/ Fetch \/ Extract \/ RenderWeasyprint
    \/ ChromeStarts \/ ChromeWrites \/ ChromeExits \/ Look \/ Printed \/ NotPrinted
    \/ Count \/ Merge \/ Upload

-----------------------------------------------------------------------------

\* Types of the variables.
TypeOK ==
    /\ hasChrome \in BOOLEAN /\ hasWeasy \in BOOLEAN
    /\ page \in [at : {"idle", "fetching", "extracting", "rendering", "printing", "printing numbers", "counting",
                       "stamping", "merging", "uploading", "ok", "failed"},
                 engine : {"none", "chrome", "weasyprint"}, said : BOOLEAN, ask : Asked]
    /\ chrome \in {"none", "working", "exited"} /\ printed \in {"nothing", "part", "whole"}
    /\ looks \in 0..Deadline /\ seen \in 0..Deadline
    /\ temps \subseteq {"text", "pdf", "html", "profile", "overlay", "stamped"}
    /\ body \in [holds : {"nothing", "part", "whole"}, numbers : 0..2]
    /\ pages \in 0..MaxPages

\* However the step ends, no Chrome goes on running and nothing is left in the
\* temporary directory.
NothingLeft == page.at \in {"ok", "failed"} => temps = {} /\ chrome = "none"

\* The pages are numbered once, as it is said, or not at all; only an asker who
\* wants Chrome's header and no numbers gets numbers unsaid.
NumberedAsSaid ==
    page.at = "ok" /\ (page.ask.numbers \/ ~page.ask.native) =>
        body.numbers = IF page.said THEN 1 ELSE 0
=============================================================================
