------------------------------ MODULE OrderList ------------------------------
(***************************************************************************)
(* GET /client-orders page by page: first the manager's orders that have   *)
(* no number of 1C yet (pinned), then the documents of 1C.                 *)
(*                                                                         *)
(* The behaviour is one scroll over lists that do not change: the client   *)
(* asks for page after page until it is told that there is no more.  1C    *)
(* may fail at every page, and the local snapshots are shown instead.      *)
(***************************************************************************)
EXTENDS Naturals, Sequences, SequencesExt

CONSTANTS
  MaxPinned,       \* bound on pinned orders
  MaxSent,         \* bound on local orders that have a number of 1C
  MaxDocuments,    \* bound on documents of 1C
  Limits,          \* page sizes
  ScanFactor,      \* 5: pages of 1C read for one filtered page
  ScanLimit        \* LIVE_STATUS_FILTER_SCAN_LIMIT

VARIABLES
  pinned,          \* how many local orders match and have no number
  sent,            \* how many local orders match and have one
  documents,       \* how many documents 1C lists
  twin,            \* pinned order |-> the document that it is already, or 0
  matches,         \* documents that pass the filters 1C does not know
  filtered,        \* livePostFilterActive: there are such filters
  limit, offset,
  seen,            \* orders shown so far
  sources,         \* where the pages came from
  more             \* hasMore of the last page

query == <<pinned, sent, documents, twin, matches, filtered, limit>>
list == <<query, offset, seen, sources, more>>

ListInit ==
  /\ pinned \in 0..MaxPinned /\ sent \in 0..MaxSent /\ documents \in 0..MaxDocuments
  /\ twin \in [1..pinned -> 0..documents]
  /\ \A i, j \in 1..pinned : i # j /\ twin[i] # 0 => twin[i] # twin[j]
  /\ filtered \in BOOLEAN
  /\ matches \in IF filtered THEN SUBSET (1..documents) ELSE {1..documents}
  /\ limit \in Limits
  /\ offset = 0 /\ seen = {} /\ sources = {} /\ more = TRUE

----------------------------------------------------------------------------
Smaller(a, b) == IF a <= b THEN a ELSE b
Larger(a, b) == IF a <= b THEN b ELSE a
Minus(a, b) == IF a <= b THEN 0 ELSE a - b

\* skip and take of a list
Slice(s, skip, take) == SubSeq(s, skip + 1, Smaller(Len(s), skip + take))

PinnedPage == Slice([i \in 1..pinned |-> i], offset, limit)
HasMorePinned == offset + Len(PinnedPage) < pinned

\* Mutant of LiveOffset: the offset of the whole list is used for 1C.
MutWholeOffset == offset

LiveOffset == Minus(offset, pinned)
LivePageCapacity == limit - Len(PinnedPage)

LiveQueryOffset == IF filtered THEN 0 ELSE LiveOffset
LiveQueryLimit ==
  IF filtered
  THEN Smaller(ScanLimit, Larger(LiveOffset + LivePageCapacity, Larger(1, LivePageCapacity) * ScanFactor))
  ELSE Larger(1, LivePageCapacity)

\* 1C is not asked for a page that the pinned orders fill and go on.
AsksOnec == ~(LivePageCapacity = 0 /\ HasMorePinned)
LiveItems == IF AsksOnec THEN Slice([i \in 1..documents |-> i], LiveQueryOffset, LiveQueryLimit) ELSE <<>>
LiveTotal == IF AsksOnec THEN documents ELSE 0
LiveHasMore == AsksOnec /\ LiveQueryOffset + Len(LiveItems) < documents

\* By status, references, amounts, dates and words of the document.
OrderMatchesListQuery(d) == d \in matches

\* A document that is on the page as a pinned order is left out, then the rest
\* is filtered.
FilteredLive ==
  SelectSeq(LiveItems, LAMBDA d : OrderMatchesListQuery(d) /\ \A i \in Range(PinnedPage) : twin[i] # d)
VisibleLive == Slice(FilteredLive, IF filtered THEN LiveOffset ELSE 0, LivePageCapacity)

HasMoreLive ==
  IF filtered
  THEN /\ Len(VisibleLive) > 0
       /\ \/ LiveOffset + Len(VisibleLive) < Len(FilteredLive)
          \/ LiveHasMore \/ Len(LiveItems) >= LiveQueryLimit
  ELSE LiveHasMore

HasMore == HasMorePinned \/ HasMoreLive \/ (LivePageCapacity = 0 /\ LiveTotal > 0)

\* A document and the pinned order that it is are one order.
SameOrder(d) == IF \E i \in 1..pinned : twin[i] = d
              THEN <<"pinned", CHOOSE i \in 1..pinned : twin[i] = d>>
              ELSE <<"document", d>>

\* The client goes on by the page size or by what it received.
Scroll(shown, count, source, hasMore) ==
  /\ more
  /\ seen' = seen \cup shown
  /\ sources' = sources \cup {source}
  /\ more' = hasMore
  /\ offset' \in {offset + limit, offset + count}
  /\ UNCHANGED query

LivePage ==
  Scroll({<<"pinned", i>> : i \in Range(PinnedPage)} \cup {SameOrder(d) : d \in Range(VisibleLive)},
         Len(PinnedPage) + Len(VisibleLive), "live", HasMore)

\* 1C is away: the local orders, sent ones too.
FallbackPage ==
  LET snapshots == [i \in 1..(pinned + sent) |-> IF i <= pinned THEN <<"pinned", i>> ELSE <<"sent", i>>]
      page == Slice(snapshots, offset, limit)
  IN  Scroll(Range(page), Len(page), "local", offset + Len(page) < pinned + sent)

ListNext == LivePage \/ FallbackPage

ListSpec == ListInit /\ [][ListNext]_list

----------------------------------------------------------------------------
\* A scroll that ends has shown every order: all pinned orders and documents
\* when 1C answered every page, all local orders when it answered none.  With
\* filters that the server applies itself this is so only when one scan covers
\* the documents: a scan without a match ends the list.
ScrollShowsAll ==
  /\ ~more /\ sources = {"live"} /\ (filtered => documents <= ScanFactor) =>
       /\ \A i \in 1..pinned : <<"pinned", i>> \in seen
       /\ \A d \in matches : SameOrder(d) \in seen
  /\ ~more /\ sources = {"local"} =>
       /\ \A i \in 1..pinned : <<"pinned", i>> \in seen
       /\ \A i \in 1..sent : <<"sent", pinned + i>> \in seen

=============================================================================
