---------------------------- MODULE CatalogFeed -----------------------------
(***************************************************************************)
(* The product catalogue as the mobile client follows it                   *)
(* (modules/catalog/catalog.service.ts) while 1C changes it (OnecSync):    *)
(* snapshot pages, then the changes after a revision, within an epoch.     *)
(* Both calls read the state first and the rows after it.                  *)
(*                                                                         *)
(* The client is external: it takes a snapshot page by page, then asks for *)
(* changes, and starts over when a call answers 409.                       *)
(***************************************************************************)
EXTENDS OnecSync

CONSTANTS
  ProductOrder,    \* the products in the order of their guids
  PageSize,
  MaxReads, MaxPrunes    \* bounds

VARIABLES
  client,     \* epoch, revision, products, cursor: 0 before a snapshot, Len + 1 after it
  call,       \* the client's call between its two reads
  reads, prunes,
  pruned,     \* changes are gone that minAvailableRevision does not tell of
  slipped     \* history: a call for changes met that moment

feed == <<client, call, reads, prunes, pruned, slipped>>

NoProducts == [epoch |-> None, revision |-> 0, products |-> <<>>, cursor |-> 0]
Done == Len(ProductOrder) + 1

FeedInit ==
  /\ SyncInit
  /\ client = NoProducts /\ call = None /\ reads \in {0, MaxReads} /\ prunes = 0
  /\ pruned = FALSE /\ slipped = FALSE

ASSUME FeedAssumption ==
  /\ ProductOrder \in Seq({i.guid : i \in {j \in Items : j.table = "product"}})
  /\ \A j \in Items : j.table = "product" => \E n \in DOMAIN ProductOrder : ProductOrder[n] = j.guid
  /\ \A m, n \in DOMAIN ProductOrder : ProductOrder[m] = ProductOrder[n] => m = n
  /\ PageSize \in Nat \ {0}

\* orderBy and take: a page of the places S, and the last of them.
FirstPage(S) == {i \in S : Cardinality({j \in S : j =< i}) =< PageSize}
LastOf(S) == CHOOSE i \in S : \A j \in S : j =< i

ActiveFrom(d, c) ==
  {i \in (c + 1)..Len(ProductOrder) : ProductOrder[i] \in DOMAIN d /\ d[ProductOrder[i]].active}

\* getCatalogSnapshot and getCatalogChanges read the state; a client of
\* another epoch, or behind the changes kept, is sent back to the start.
ReadState(kind) ==
  /\ call = None /\ reads > 0 /\ reads' = reads - 1
  /\ kind = "snapshot" <=> client.cursor # Done
  /\ LET stale == client.epoch # None /\ client.epoch # catalog.epoch
         behind == kind = "changes" /\ client.revision < catalog.min /\ client.revision # catalog.revision
     IN  IF stale \/ behind
         THEN /\ client' = NoProducts /\ UNCHANGED <<call, slipped>>
         ELSE /\ call' = [kind |-> kind, epoch |-> catalog.epoch, revision |-> catalog.revision]
              /\ slipped' = (slipped \/ (kind = "changes" /\ pruned))
              /\ UNCHANGED client
  /\ UNCHANGED <<sync, prunes, pruned>>

\* The first page fixes the snapshot's revision, the last one has no nextCursor.
getCatalogSnapshot ==
  LET from == ActiveFrom(db, client.cursor)
      page == FirstPage(from)
  IN  /\ call # None /\ call.kind = "snapshot"
      /\ client' =
           [epoch |-> call.epoch,
            revision |-> IF client.epoch = None THEN call.revision ELSE client.revision,
            products |-> Over([g \in {ProductOrder[i] : i \in page} |-> db[g].ver], client.products),
            cursor |-> IF from = page THEN Done ELSE LastOf(page)]
      /\ call' = None
      /\ UNCHANGED <<sync, reads, prunes, pruned, slipped>>

\* A page of changes; a product is sent as it is now, or as deleted.
getCatalogChanges ==
  LET after == {n \in DOMAIN catalog.changes : catalog.changes[n].revision > client.revision}
      page == FirstPage(after)
      told == {catalog.changes[n].guid : n \in page}
      kept == {g \in told : g \in DOMAIN db /\ db[g].active}
  IN  /\ call # None /\ call.kind = "changes"
      /\ client' = [client EXCEPT
           !.products = [g \in kept \cup (DOMAIN @ \ told) |-> IF g \in told THEN db[g].ver ELSE @[g]],
           !.revision = IF page = {} THEN @ ELSE catalog.changes[LastOf(page)].revision]
      /\ call' = None
      /\ UNCHANGED <<sync, reads, prunes, pruned, slipped>>

\* getCatalogManifest prunes the changes older than the retention ...
pruneCatalogChanges(n) ==
  /\ prunes < MaxPrunes /\ prunes' = prunes + 1
  /\ n \in DOMAIN catalog.changes
  /\ catalog' = [catalog EXCEPT !.changes = SubSeq(@, n + 1, Len(@))]
  /\ pruned' = TRUE
  /\ slipped' = (slipped \/ (call # None /\ call.kind = "changes"))
  /\ UNCHANGED <<db, session, stage, request, batches, completes, syncCrashes, unannounced, disturbed,
                 client, call, reads>>

\* ... and writes the first revision that is left.
updateMinAvailableRevision ==
  /\ pruned /\ pruned' = FALSE
  /\ catalog' = [catalog EXCEPT !.min = IF catalog.changes = <<>> THEN catalog.revision
                                        ELSE catalog.changes[1].revision]
  /\ UNCHANGED <<db, session, stage, request, batches, completes, syncCrashes, unannounced, disturbed,
                 client, call, reads, prunes, slipped>>

FeedNext ==
  \/ SyncNext /\ UNCHANGED feed
  \/ \E kind \in {"snapshot", "changes"} : ReadState(kind)
  \/ getCatalogSnapshot
  \/ getCatalogChanges
  \/ \E n \in DOMAIN catalog.changes : pruneCatalogChanges(n)
  \/ updateMinAvailableRevision

FeedSpec == FeedInit /\ [][FeedNext]_<<sync, feed>>

-----------------------------------------------------------------------------
(* A client whose snapshot is complete and whose revision is the current one *)
(* has the active products, each in its present version: no change falls     *)
(* between snapshot pages, promotes, epochs and pruned history.              *)
CaughtUpClientIsRight ==
  client.cursor = Done /\ client.epoch = catalog.epoch /\ client.revision = catalog.revision
    /\ call = None /\ ~unannounced /\ ~slipped =>
      client.products = [g \in {ProductOrder[i] : i \in ActiveFrom(db, 0)} |-> db[g].ver]
=============================================================================
