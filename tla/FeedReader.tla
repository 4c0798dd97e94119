----------------------------- MODULE FeedReader -----------------------------
(***************************************************************************)
(* Reading the published posts page by page (feedgen/): a reader of the    *)
(* feed generator asks for a page, gets it with a cursor, and asks for the *)
(* next with that cursor, while the bot goes on publishing and an operator *)
(* pins sources that were missing (admin/backfill_repost_source_uris.py)   *)
(* and people reply in the threads of what is published.  The server keeps *)
(* nothing between two requests.                                           *)
(*                                                                         *)
(* A row is a PublishAttempt that succeeded.  A published submission is    *)
(* never removed, so its row stays; the row of one that was removed while  *)
(* it was being posted, which only comes up under a reused id, is left out.*)
(* A row that carries an error tells of a post that was there already,     *)
(* under that post's uri.  A repost shows as the post it repeats, and not  *)
(* at all while the source of its link is not known.                       *)
(***************************************************************************)
EXTENDS Naturals, FiniteSets, Sequences, SequencesExt

CONSTANTS Board, Nsfw,    \* boards, and those that are not safe for work
          MaxLimit,       \* rows of a page at most (100 in the code)
          None,           \* no walk, or no cursor yet, or no page left
          MaxRows, MaxReposts, MaxErrors, \* bounds: rows, and of these reposts and errors
          MaxTime         \* bound: moments at which rows are made

ASSUME FeedReaderAssumption ==
    /\ Nsfw \subseteq Board
    /\ MaxLimit \in Nat \ {0} /\ {MaxRows, MaxReposts, MaxErrors, MaxTime} \subseteq Nat
    /\ None \notin Nat \X Nat

VARIABLES
    rows,    \* PublishAttempt joined to its board; uri stands for at_uri
    sourced, \* the uris of reposts whose link has a source_at_uri
    clock,   \* attempted_at of the last row
    sfw,     \* the reader's feed leaves out boards that are not safe for work
    walking, \* the reader means to ask for another page
    cursor,  \* <<attempted_at, at_uri>> or None
    page,    \* the last page, as it is displayed
    \* observations of the reader
    seen,    \* the uris of this walk's pages, until it ends
    again,   \* those that came a second time
    owed     \* the uris in the feed since the walk began that have not come yet

bot    == <<rows, sourced, clock>>
reader == <<sfw, walking, cursor, page, seen, again, owed>>
vars   == <<bot, reader>>

Row == [at : Nat, uri : Nat, board : Board, repost : BOOLEAN, error : BOOLEAN]
Key(r) == <<r.at, r.uri>>

\* The order of the feed: by attempted_at, then by at_uri, newest first.
Older(k, j) == k[1] < j[1] \/ (k[1] = j[1] /\ k[2] < j[2])
Newer(q, r) == Older(Key(r), Key(q))

\* Mutant: whatever succeeded is a post.
InFeedWithErrors(rs, src, safe) ==
    {r \in rs : (r.repost => r.uri \in src) /\ ~(safe /\ r.board \in Nsfw)}

InFeed(rs, src, safe) ==
    {r \in rs : ~r.error /\ (r.repost => r.uri \in src) /\ ~(safe /\ r.board \in Nsfw)}

\* The rows after the cursor.
Following(rs, c) == {r \in rs : c # None => Older(Key(r), c)}

\* ORDER BY ... LIMIT.
Newest(rs, limit) == {r \in rs : Cardinality({q \in rs : Newer(q, r)}) < limit}

\* interleave_by_board: by the rank within the board, then by time.
Rank(rs, r) == Cardinality({q \in rs : q.board = r.board /\ Newer(q, r)})

\* Mutant: the newest first.
ByTime(rs) == SetToSortSeq(rs, Newer)

Before(rs, q, r) == Rank(rs, q) < Rank(rs, r) \/ (Rank(rs, q) = Rank(rs, r) /\ Newer(q, r))
InterleaveByBoard(rs) ==
    LET above == [r \in rs |-> Cardinality({q \in rs : Before(rs, q, r)})]
    IN  [i \in 1 .. Cardinality(rs) |-> CHOOSE r \in rs : above[r] = i - 1]

\* Mutants: the cursor is the last row of the page as displayed; it is the time alone.
FloorDisplayed(rs) == Key(Last(InterleaveByBoard(rs)))
FloorTime(rs) == LET r == CHOOSE r \in rs : \A q \in rs : q = r \/ Newer(q, r) IN <<r.at, 0>>

Floor(rs) == Key(CHOOSE r \in rs : \A q \in rs : q = r \/ Newer(q, r))

Init ==
    /\ rows = {} /\ sourced = {} /\ clock = 0
    /\ sfw = FALSE /\ walking = FALSE /\ cursor = None /\ page = <<>>
    /\ seen = {} /\ again = {} /\ owed = {}

Now == {clock, clock + 1} \cap 0 .. MaxTime

\* The scheduler records a post; two boards' posts may be recorded at one moment.
Record ==
    /\ Cardinality(rows) < MaxRows
    /\ \E r \in [at : Now, uri : 1 .. MaxRows, board : Board, repost : BOOLEAN, error : {FALSE}] :
           /\ \A q \in rows : q.uri # r.uri
           /\ r.repost => Cardinality({q \in rows : q.repost}) < MaxReposts
           /\ rows' = rows \cup {r} /\ clock' = r.at
           /\ sourced' \in {sourced, IF r.repost THEN sourced \cup {r.uri} ELSE sourced}
    /\ UNCHANGED reader

\* At publish time the content turns out to have been posted.
RecordDuplicate ==
    /\ Cardinality(rows) < MaxRows
    /\ Cardinality({r \in rows : r.error}) < MaxErrors
    /\ \E q \in rows, now \in Now, b \in Board :
           /\ ~q.error
           /\ rows' = rows \cup {[q EXCEPT !.at = now, !.board = b, !.error = TRUE]}
           /\ clock' = now
    /\ UNCHANGED <<sourced, reader>>

\* The source of a repost is pinned afterwards.
Backfill ==
    /\ \E r \in rows : r.repost /\ r.uri \notin sourced /\ sourced' = sourced \cup {r.uri}
    /\ UNCHANGED <<rows, clock, reader>>

\* A reply to a request of a published submission resolves its links anew: the source
\* of a repost is pinned again, or lost when its handle is not found this time, or
\* when the link is replaced by another.
Reresolve ==
    /\ \E r \in rows :
           /\ r.repost /\ ~r.error
           /\ \/ sourced' = sourced \cup {r.uri} /\ UNCHANGED owed
              \/ sourced' = sourced \ {r.uri} /\ owed' = owed \ {r.uri}
    /\ UNCHANGED <<rows, clock, sfw, walking, cursor, page, seen, again>>

\* A walk begins, from the top of a feed.
Open ==
    /\ ~walking /\ walking' = TRUE /\ cursor' = None
    /\ sfw' \in BOOLEAN
    /\ page' = <<>> /\ seen' = {} /\ again' = {}
    /\ owed' = {r.uri : r \in InFeed(rows, sourced, sfw')}
    /\ UNCHANGED bot

\* feed_skeleton, of as many rows as this request asks for.
Read ==
    /\ walking
    /\ \E limit \in 1 .. MaxLimit :
       LET rest == Following(InFeed(rows, sourced, sfw), cursor)
           got  == Newest(rest, limit)
           uris == {r.uri : r \in got}
       IN
       /\ page' = InterleaveByBoard(got)
       /\ IF got # rest THEN cursor' = Floor(got) /\ seen' = seen \cup uris /\ UNCHANGED walking
          ELSE cursor' = None /\ seen' = {} /\ walking' = FALSE
       /\ again' = again \cup (seen \cap uris) /\ owed' = owed \ uris
    /\ UNCHANGED <<bot, sfw>>

Next == Record \/ RecordDuplicate \/ Backfill \/ Reresolve \/ Open \/ Read
Spec == Init /\ [][Next]_vars

-----------------------------------------------------------------------------
(* Properties.                                                             *)

\* The posts of a board among the first n of the page.
Count(b, n) == Cardinality({i \in 1 .. n : page[i].board = b})

\* Every variable has its type, and no two rows of a feed are of one post.
TypeOK ==
    /\ rows \subseteq Row
    /\ \A q, r \in InFeed(rows, sourced, sfw) : q.uri = r.uri => q = r
    /\ sourced \subseteq {r.uri : r \in rows} /\ clock \in Nat
    /\ {sfw, walking} \subseteq BOOLEAN
    /\ cursor \in (Nat \X Nat) \cup {None}
    /\ again \cup seen \cup owed \subseteq {r.uri : r \in rows}

\* A walk through the pages meets no post twice, though posts are recorded, sources pinned,
\* lost and pinned again between its requests and its pages differ in size (feed_skeleton's
\* cursor).  A post is an at_uri: what two boards repost is displayed twice, as one uri.
NoneTwice == again = {}

\* A walk that has come to its end has met every post that was in the feed from its
\* beginning on (feedgen/queries.py: "paging never skips or duplicates"); a repost whose
\* source was lost on the way may be missed.
NoneSkipped == ~walking => owed = {}

\* At no place of a page has one board shown two posts more than another that still has
\* posts on the page, and each board's come newest first (interleave_by_board).
FairPage ==
    /\ \A n \in 1 .. Len(page), b, c \in Board :
           Count(b, n) > Count(c, n) + 1 => Count(c, n) = Count(c, Len(page))
    /\ \A i, j \in DOMAIN page :
           i < j /\ page[i].board = page[j].board => Newer(page[i], page[j])
=============================================================================
