----------------------------- MODULE SongSearch -----------------------------
(***************************************************************************)
(* Which songs a music request plays or caches: pages of a search that     *)
(* NetEase answers by offset, the index of songs met before, and the       *)
(* choice among the hits for a title (netease_music.py,                    *)
(* ncm_songs/store.py).                                                    *)
(*                                                                         *)
(* A hit says how near its title and its artist are to what was asked (2   *)
(* the same, 1 some characters, 0 none) and how many artists it names.     *)
(***************************************************************************)
EXTENDS Naturals, FiniteSets, Sequences, SequencesExt

CONSTANTS
    PageSize,     \* CACHE_PAGE
    MaxPages,     \* ARTIST_QUEUE_MAX_PAGES
    Hits,         \* what a search can bring
    MaxHits,      \* bound: NetEase's songs
    MaxChanges    \* bound: NetEase changes its answer between two pages

VARIABLES
    request,      \* what is asked: kind, number of songs, songs in the index
    catalog,      \* NetEase's answer, all pages
    page,         \* pages asked for
    found,        \* collected
    answer,       \* the songs, Open while the search goes on, or Nothing
    changes

vars == <<request, catalog, page, found, answer, changes>>

Open == [is |-> "open"]
Nothing == [is |-> "nothing"]
SongsAnswer(s) == [is |-> "songs", songs |-> s]
Kinds == {"artist queue", "cache", "title"}

IdsOf(s) == {s[i].id : i \in DOMAIN s}

Upto(s, n) == SubSeq(s, 1, IF Len(s) < n THEN Len(s) ELSE n)

\* The songs of a list at some of its places, in their order.
Nth(places, k) == CHOOSE i \in places : Cardinality({j \in places : j < i}) = k - 1
Kept(s, places) == [k \in 1..Cardinality(places) |-> s[Nth(places, k)]]

-----------------------------------------------------------------------------
(* The choice for a title.                                                 *)

\* The first of those that score best.
Best(s, f(_)) ==
    s[CHOOSE i \in DOMAIN s : \A j \in DOMAIN s : f(s[j]) <= f(s[i]) /\ (f(s[j]) = f(s[i]) => i <= j)]

\* pick_search_record: the exact title, else the most characters in common.
PickByTitle(s) == LET Near(h) == h.title IN Best(s, Near)

Exact(s) == Kept(s, {i \in DOMAIN s : s[i].title = 2})

\* search_compound_then_split: the whole text as a title; split into artist and song;
\* what the first search brought.
CompoundChoice(whole, split) ==
    IF Exact(whole) # <<>> THEN SongsAnswer(<<Exact(whole)[1]>>)
    ELSE IF split # <<>> THEN SongsAnswer(<<PickByTitle(split)>>)
    ELSE IF whole # <<>> THEN SongsAnswer(<<PickByTitle(whole)>>)
    ELSE Nothing

-----------------------------------------------------------------------------
(* Pages.                                                                  *)

\* A batch starts where the offset of its page says, in NetEase's answer of now.
Batch == Upto(SubSeq(catalog, page * PageSize + 1, Len(catalog)), PageSize)

\* Whom a song of a queue must be by.
Suits(h) == request.kind = "artist queue" => h.by = 2

\* Mutant: a song that comes again on a later page is taken again.
FreshAgain(batch) == Kept(batch, {i \in DOMAIN batch : Suits(batch[i])})

\* filter_records_by_artist, and originalIds already seen.
Fresh(batch) ==
    Kept(batch, {i \in DOMAIN batch : batch[i].id \notin IdsOf(found) /\ Suits(batch[i])})

\* apply_artist_queue_strategy: fewer artists first, unknown ones last, stable.
FewerArtists(g, h) ==
    LET n(x) == IF x.names = 0 THEN 9 ELSE x.names IN n(g) < n(h)

Ranked(s) ==
    LET level(n) == Kept(s, {i \in DOMAIN s : s[i].names = n})
    IN  IF request.ranked THEN level(1) \o level(2) \o level(0) ELSE s

Deliver(s) ==
    answer' = IF s = <<>> /\ request.kind = "artist queue" THEN Nothing
              ELSE IF request.kind = "artist queue" THEN SongsAnswer(Ranked(s)) ELSE SongsAnswer(s)

\* collect_artist_queue_records begins with the index, a cache with nothing.
BeginPages ==
    /\ page = 0 /\ answer = Open /\ found = <<>> /\ request.kind # "title" /\ request.index # <<>>
    /\ found' = Upto(Kept(request.index, {i \in DOMAIN request.index : request.index[i].by = 2}),
                      request.want)
    /\ request' = [request EXCEPT !.index = <<>>]
    /\ UNCHANGED <<catalog, page, answer, changes>>

\* Mutant: one page less.
EnoughEarly ==
    \/ Len(found) >= request.want
    \/ request.kind = "artist queue" /\ page = MaxPages - 1

Enough ==
    \/ Len(found) >= request.want
    \/ request.kind = "artist queue" /\ page = MaxPages

NextPage ==
    /\ answer = Open /\ request.kind # "title" /\ request.index = <<>> /\ ~Enough
    /\ LET new == Upto(Fresh(Batch), request.want - Len(found))
           last == \/ Len(Batch) < PageSize
                   \/ request.kind = "cache" /\ new = <<>>
       IN  /\ found' = found \o new
           /\ page' = page + 1
           /\ IF last THEN Deliver(found \o new) ELSE UNCHANGED answer
    /\ UNCHANGED <<request, catalog, changes>>

PagesEnd ==
    /\ answer = Open /\ request.kind # "title" /\ request.index = <<>> /\ Enough
    /\ Deliver(found)
    /\ UNCHANGED <<request, catalog, page, found, changes>>

\* A search that fails (request limit, login) fails the request.
SearchFails ==
    /\ answer = Open
    /\ answer' = Nothing
    /\ UNCHANGED <<request, catalog, page, found, changes>>

\* A title: NetEase answers two searches, of which the first may do.
ChooseTitle ==
    /\ request.kind = "title" /\ answer = Open
    /\ \E n \in 0..Len(catalog) :
          LET first == SubSeq(catalog, 1, n)
              second == SubSeq(catalog, n + 1, Len(catalog))
          IN  answer' = CompoundChoice(first, second)
    /\ UNCHANGED <<request, catalog, page, found, changes>>

\* A new song comes in before the others while the pages are asked for.
CatalogChanges ==
    /\ changes < MaxChanges /\ answer = Open /\ page > 0 /\ Len(catalog) < MaxHits
    /\ \E h \in Hits : catalog' = <<[h EXCEPT !.id = Len(catalog) + 1]>> \o catalog
    /\ changes' = changes + 1
    /\ UNCHANGED <<request, page, found, answer>>

Init ==
    /\ page = 0 /\ found = <<>> /\ answer = Open /\ changes = 0
    /\ \E s \in SeqOf(Hits, MaxHits - MaxChanges) :
          catalog = [i \in DOMAIN s |-> [s[i] EXCEPT !.id = i]]
    /\ \E kind \in Kinds, want \in 1..3, ranked \in BOOLEAN, known \in {<<>>, Upto(Reverse(catalog), 1)} :
          /\ kind # "artist queue" => known = <<>>
          /\ request = [kind |-> kind, want |-> want, ranked |-> ranked, index |-> known]

Next ==
    \/ BeginPages \/ NextPage \/ PagesEnd \/ SearchFails \/ ChooseTitle \/ CatalogChanges

-----------------------------------------------------------------------------
(* Properties.                                                             *)

\* Every variable keeps the shape the code gives it.
TypeOK == page \in 0..(MaxHits + 1) /\ changes \in 0..MaxChanges /\ request.kind \in Kinds

\* A queue or a cache has no song twice and no more than was asked, although songs
\* slide from one page to the next between two requests.
NoSongTwice ==
    request.kind # "title" =>
        /\ Len(found) <= request.want
        /\ \A i, j \in DOMAIN found : i # j => found[i].id # found[j].id

\* An artist's queue that NetEase did not change meanwhile is the artist's first
\* songs of the pages, and those with fewer artists come first.
QueueIsTheArtists ==
    request.kind = "artist queue" /\ answer.is = "songs" =>
        LET q == answer.songs
            offered == ToSet(Upto(catalog, MaxPages * PageSize))
        IN  /\ \A i \in DOMAIN q : q[i].by = 2
            /\ changes = 0 /\ Len(q) < request.want =>
                  \A h \in offered : h.by = 2 => h.id \in IdsOf(q)
            /\ request.ranked => \A i, j \in DOMAIN q : i < j => ~FewerArtists(q[j], q[i])
=============================================================================
