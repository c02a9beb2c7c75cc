---------------------------- MODULE ReviewListing ----------------------------
(***************************************************************************)
(* Paging through the pending reviews of the Gateway (gateway/reviews.py). *)
(*                                                                         *)
(* A review row keeps the ingest sequence and the cursor order it was      *)
(* inserted with for as long as its review id stays.  A walk is a chain of *)
(* pages: a page reads all rows once, then refreshes the owners of a batch *)
(* (the await, in which rows come and go), then lists the rows of the      *)
(* batch that are still pending.  The cursor names the row to resume at,   *)
(* a key to fall back on if that row is gone, and the frontier: the        *)
(* highest sequence of the first page.  A walk that began under a release  *)
(* with version-2 cursors goes on in the order of that release (version    *)
(* 5).  Replies may be lost and the request repeated.                      *)
(*                                                                         *)
(* The records of a page are a set with an order; what is still to be      *)
(* scanned of them stands for the scan index.                              *)
(***************************************************************************)
EXTENDS Naturals, FiniteSets

CONSTANTS
    Tasks,      \* the owners of reviews
    Ids,        \* the review ids, numbers (their order is the order of strings)
    Owner,      \* the task of each review id
    Routed,     \* the tasks whose Gateway route is active
    Flaky,      \* the tasks whose owner may be unreachable
    Times,      \* the clock values a review may carry
    Limits,     \* the page sizes asked for
    MaxSeq      \* reviews ever ingested (bound)

ListingAssumption ==
    /\ Ids \subseteq Nat /\ Owner \in [Ids -> Tasks]
    /\ Routed \subseteq Tasks /\ Flaky \subseteq Tasks
    /\ Times \subseteq Nat /\ Limits \subseteq 1..100 /\ MaxSeq \in Nat

VARIABLES
    reviews,    \* the rows of the pending reviews
    lastSeq,    \* the last ingest sequence given out
    page,       \* the listing call in flight
    cursor,     \* the cursor the client holds
    seen,       \* history: the rows delivered to the client in this walk
    twice,      \* history: a review was delivered twice in this walk
    due         \* history: the sequences the walk owes the client

listingVars == <<reviews, lastSeq, page, cursor, seen, twice, due>>

(***************************************************************************)
(* Rows.  A Task has one pending review at a time.                         *)
(***************************************************************************)
WithId(id) == {r \in reviews : r.id = id}
OfTask(t) == {r \in reviews : Owner[r.id] = t}
RoutedRows == {r \in reviews : Owner[r.id] \in Routed}
Seqs(S) == {r.seq : r \in S}

\* A row is replaced as a whole; the same review id keeps its place.
Ingest(id, time) ==
    LET old == OfTask(Owner[id])
        new == IF WithId(id) # {} THEN WithId(id)
               ELSE {[id |-> id, seq |-> lastSeq + 1, order |-> time]}
    IN  /\ WithId(id) = {} => lastSeq < MaxSeq
        /\ reviews' = (reviews \ old) \cup new
        /\ lastSeq' = IF WithId(id) = {} THEN lastSeq + 1 ELSE lastSeq
        /\ due' = due \ Seqs(old \ new)
        /\ UNCHANGED <<page, cursor, seen, twice>>

Resolve(t) ==
    /\ OfTask(t) # {}
    /\ reviews' = reviews \ OfTask(t)
    /\ due' = due \ Seqs(OfTask(t))
    /\ UNCHANGED <<lastSeq, page, cursor, seen, twice>>

(***************************************************************************)
(* Orders.  The newest comes first, by sequence or, in an old walk, by the *)
(* time its row was inserted with.                                         *)
(***************************************************************************)
Precedes(a, b) == a[1] < b[1] \/ (a[1] = b[1] /\ a[2] < b[2])
OldKey(r) == <<r.order, r.id>>
Above(r, q, old) ==
    IF old THEN Precedes(OldKey(q), OldKey(r)) ELSE Precedes(<<q.seq, q.id>>, <<r.seq, r.id>>)

Frontier(S) == CHOOSE n \in {0} \cup Seqs(S) : \A r \in S : r.seq <= n

(***************************************************************************)
(* Cursors: the row to resume at and the key beside it, the frontier, and  *)
(* what an old release had not shown yet.                                  *)
(***************************************************************************)
NoBoundary == [id |-> 0, order |-> 0, include |-> FALSE]
NoCursor == [version |-> "start", id |-> 0, at |-> 0, frontier |-> 0, boundary |-> NoBoundary]
EndCursor == [NoCursor EXCEPT !.version = "end"]
V2(r) == [NoCursor EXCEPT !.version = "v2", !.id = r.id, !.at = r.order]
V4(r, frontier) ==
    [version |-> "v4", id |-> r.id, at |-> r.seq, frontier |-> frontier, boundary |-> NoBoundary]
V5(r, frontier, boundary) ==
    [version |-> "v5", id |-> r.id, at |-> r.order, frontier |-> frontier, boundary |-> boundary]

(***************************************************************************)
(* Pages.                                                                  *)
(***************************************************************************)
Opened(limit, old, records, left, frontier, boundary) ==
    [open |-> TRUE, limit |-> limit, old |-> old, records |-> records, left |-> left,
     frontier |-> frontier, boundary |-> boundary, items |-> {}, blocked |-> FALSE]
NoPage == [Opened(0, FALSE, {}, {}, 0, NoBoundary) EXCEPT !.open = FALSE]

\* From the row that is named, or else from what lies below the key.
Resumed(records, old, id, below) ==
    IF \E r \in records : r.id = id
    THEN {q \in records : \E r \in records : r.id = id /\ ~Above(q, r, old)}
    ELSE below

FreshPage(limit) == Opened(limit, FALSE, reviews, reviews, Frontier(reviews), NoBoundary)

SequencePage(limit, c) ==
    LET all == {r \in reviews : r.seq <= c.frontier} IN
    Opened(limit, FALSE, all, Resumed(all, FALSE, c.id, {r \in all : r.seq < c.at}),
           c.frontier, NoBoundary)

\* What the old release had not shown yet: below the key, or the resumed row.
Within(r, boundary) ==
    \/ boundary.include /\ r.id = boundary.id
    \/ Precedes(OldKey(r), <<boundary.order, boundary.id>>)
LegacyRecords(boundary, frontier) == {r \in reviews : r.seq <= frontier /\ Within(r, boundary)}

UpgradedPage(limit, c) ==
    LET boundary == [id |-> c.id, order |-> c.at, include |-> WithId(c.id) # {}]
        all == LegacyRecords(boundary, Frontier(reviews))
    IN  Opened(limit, TRUE, all, all, Frontier(reviews), boundary)

LegacyPage(limit, c) ==
    LET all == LegacyRecords(c.boundary, c.frontier)
        below == {r \in all : Precedes(OldKey(r), <<c.at, c.id>>)}
    IN  Opened(limit, TRUE, all, Resumed(all, TRUE, c.id, below), c.frontier, c.boundary)

PageOf(limit, c) ==
    CASE c.version = "start" -> FreshPage(limit)
      [] c.version = "v2" -> UpgradedPage(limit, c)
      [] c.version = "v4" -> SequencePage(limit, c)
      [] c.version = "v5" -> LegacyPage(limit, c)

Topmost(S, old) == CHOOSE r \in S : \A q \in S : q = r \/ Above(r, q, old)
CursorAt(p, r) == IF p.old THEN V5(r, p.frontier, p.boundary) ELSE V4(r, p.frontier)
NextCursorFromTop(p) ==
    IF p.left = {} THEN EndCursor ELSE CursorAt(p, Topmost(p.records, p.old))
NextCursor(p) ==
    IF p.left = {} THEN EndCursor ELSE CursorAt(p, Topmost(p.left, p.old))

(***************************************************************************)
(* The walk.                                                               *)
(***************************************************************************)
\* The last page of an old release left a version-2 cursor with the client.
OldRelease(r) ==
    /\ cursor = NoCursor /\ ~page.open
    /\ cursor' = V2(r)
    /\ due' = Seqs({q \in RoutedRows : q = r \/ Above(r, q, TRUE)})
    /\ UNCHANGED <<reviews, lastSeq, page, seen, twice>>

List(limit) ==
    /\ ~page.open /\ cursor # EndCursor
    /\ page' = PageOf(limit, cursor)
    /\ due' = IF cursor = NoCursor THEN Seqs(RoutedRows) ELSE due
    /\ UNCHANGED <<reviews, lastSeq, cursor, seen, twice>>

Scanning(p) == ~p.blocked /\ Cardinality(p.items) < p.limit /\ p.left # {}

\* As many as the page has room for.
UpTo(p, r) == {q \in p.left : q = r \/ Above(q, r, p.old)}
NextBatch(p) == {r \in p.left : Cardinality(UpTo(p, r)) + Cardinality(p.items) <= p.limit}

\* The batch is read up to the first owner that could not be refreshed.
ScannedPastUnreachable(p, unavailable) ==
    LET kept == {r \in NextBatch(p) : Owner[r.id] \in Routed \ unavailable}
    IN  [p EXCEPT !.left = @ \ NextBatch(p),
                  !.items = @ \cup {q \in reviews : \E r \in kept : q.id = r.id}]
Scanned(p, unavailable) ==
    LET bad  == {r \in NextBatch(p) : Owner[r.id] \in unavailable}
        done == {r \in NextBatch(p) : \A b \in bad : Above(r, b, p.old)}
        kept == {r \in done : Owner[r.id] \in Routed}
    IN  [p EXCEPT !.left = @ \ done,
                  !.blocked = bad # {},
                  !.items = @ \cup {q \in reviews : \E r \in kept : q.id = r.id}]

ScanBatch(unavailable) ==
    /\ page.open /\ Scanning(page)
    /\ page' = Scanned(page, unavailable)
    /\ UNCHANGED <<reviews, lastSeq, cursor, seen, twice, due>>

Reply ==
    /\ page.open /\ ~Scanning(page)
    /\ page' = NoPage
    /\ cursor' = NextCursor(page)
    /\ twice' = (twice \/ \E a \in page.items, b \in seen : a.id = b.id)
    /\ seen' = seen \cup page.items
    /\ UNCHANGED <<reviews, lastSeq, due>>

\* The reply is lost or the server restarts; the client repeats the request.
Lose ==
    /\ page.open
    /\ page' = NoPage
    /\ UNCHANGED <<reviews, lastSeq, cursor, seen, twice, due>>

ListingInit ==
    /\ reviews = {} /\ lastSeq = 0
    /\ page = NoPage /\ cursor = NoCursor
    /\ seen = {} /\ twice = FALSE /\ due = {}

ListingNext ==
    \/ \E id \in Ids, time \in Times : Ingest(id, time)
    \/ \E t \in Tasks : Resolve(t)
    \/ \E r \in reviews : OldRelease(r)
    \/ \E limit \in Limits : List(limit)
    \/ Reply \/ Lose
    \/ \E unavailable \in SUBSET Flaky : ScanBatch(unavailable)

ListingSpec == ListingInit /\ [][ListingNext]_listingVars

(***************************************************************************)
(* Properties.                                                             *)
(***************************************************************************)
ListingTypeOK ==
    /\ reviews \subseteq [id : Ids, seq : 1..MaxSeq, order : Times]
    /\ \A r, q \in reviews : Owner[r.id] = Owner[q.id] \/ r.seq = q.seq => r = q
    /\ lastSeq \in 0..MaxSeq
    /\ page.open => page.left \subseteq page.records
    /\ cursor.version \in {"v4", "v5"} => cursor.frontier \in 1..lastSeq

\* The pages of one walk show no review twice, whatever is decided, replaced,
\* asked again or unreachable between and during them (list_reviews).
ListedOnce == ~twice

\* When a walk has ended, every review that was pending all along and whose
\* task is routed has been shown: none is jumped over by a page that resumes
\* where rows are gone, or by an owner that could not be reached.
ListedAll == cursor = EndCursor => due \subseteq Seqs(seen)

\* A page does not grow with the reviews that come while it is walked: what a
\* walk shows was below its frontier, or carries the id of one that was.
BelowFrontier ==
    page.open => /\ Cardinality(page.items) <= page.limit
                 /\ \A r \in page.items : \E q \in page.records :
                      q.id = r.id /\ q.seq <= page.frontier

\* What a client that walks the pages is promised.
WalkIsWhole == ListingTypeOK /\ ListedOnce /\ ListedAll /\ BelowFrontier

\* A walk ends although new reviews keep coming in while it goes on.
WalkEnds == <>[](cursor = EndCursor)
=============================================================================
