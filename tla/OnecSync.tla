------------------------------ MODULE OnecSync ------------------------------
(***************************************************************************)
(* 1C sync sessions (modules/onec/onec.sync.ts).  1C opens a session,      *)
(* stages batches of items, one entity each, and completes the session:    *)
(* one transaction promotes what is staged into the catalogue, after       *)
(* clearing the selected entities when the session replaces them.  A batch *)
(* without a session makes a session of its own and completes it.          *)
(*                                                                         *)
(* A row of the catalogue is its payload's version, the rows it points to  *)
(* and whether it is active.  An item names the rows that must exist       *)
(* (needs), those that must exist after its inline price type is written   *)
(* (late, agreements only), that price type (creates) and the default      *)
(* links of a counterparty (links).                                        *)
(***************************************************************************)
EXTENDS Naturals, FiniteSets, Sequences

CONSTANTS
  Batches,      \* the batches 1C may send: [entity, items]
  Items,        \* the items of those batches
  Ordered,      \* guids that client orders hold on to (Order.counterpartyId, OrderItem.productId)
  Selections,   \* the selectedEntities a session may have
  Sessions, Requests, None,
  MaxBatches, MaxCompletes, MaxCrashes    \* bounds

VARIABLES
  db,           \* guid -> row
  catalog,      \* catalogState and catalogChange: epoch, revision, changes, next revision
  session,      \* onecSyncSession
  stage,        \* session -> guid -> [item, status]
  request,      \* a completion between its steps
  batches, completes, syncCrashes,
  unannounced,  \* history: POST /clear/nomenclature has removed products
  disturbed      \* history: sessions whose completion met a batch, another completion or a failure

sync == <<db, catalog, session, stage, request, batches, completes, syncCrashes, unannounced, disturbed>>

\* Mutant of RECONCILE_ORDER: agreements before the contracts they name.
MutAgreementsFirst ==
  <<"nomenclature", "organizations", "warehouses", "counterparties", "agreements", "contracts",
    "product-prices", "special-prices", "stock">>

RECONCILE_ORDER ==
  <<"nomenclature", "organizations", "warehouses", "counterparties", "contracts", "agreements",
    "product-prices", "special-prices", "stock">>
Entities == {RECONCILE_ORDER[i] : i \in DOMAIN RECONCILE_ORDER}

Guids == UNION {{i.guid} \cup i.creates : i \in Items}
TableOf(g) ==
  IF \E i \in Items : i.guid = g THEN (CHOOSE i \in Items : i.guid = g).table ELSE "priceType"
TablesOf ==
  [e \in Entities |->
     CASE e = "nomenclature" -> {"group", "product"} [] e = "organizations" -> {"organization"}
       [] e = "warehouses" -> {"warehouse"} [] e = "counterparties" -> {"counterparty"}
       [] e = "contracts" -> {"contract"} [] e = "agreements" -> {"agreement", "priceType"}
       [] e = "product-prices" -> {"productPrice"} [] e = "special-prices" -> {"specialPrice"}
       [] e = "stock" -> {"stock"}]

\* The rows that are written and the others.
Over(new, old) == [g \in DOMAIN new \cup DOMAIN old |-> IF g \in DOMAIN new THEN new[g] ELSE old[g]]

Row(ver, refs, active) == [ver |-> ver, refs |-> refs, active |-> active]
Rows(d, table) == {g \in DOMAIN d : TableOf(g) = table}
Refers(d, g, table) == \E r \in d[g].refs : TableOf(r) = table

\* deleteMany: an optional reference to a deleted row becomes null.
Delete(d, G) ==
  [g \in DOMAIN d \ G |-> [d[g] EXCEPT !.refs = @ \ G]]

\* The tables an item may name a row of, by its own table.
NamedTables ==
  [group |-> {"group"}, product |-> {"group"}, organization |-> {}, warehouse |-> {}, counterparty |-> {},
   contract |-> {"counterparty", "organization"}, agreement |-> {"counterparty", "organization"},
   productPrice |-> {"product"}, specialPrice |-> {"product", "counterparty", "agreement"},
   stock |-> {"product", "warehouse", "organization"}]

\* What 1C sends: a batch has items of one entity, a guid is of one table, a version of a row has
\* one payload; a price type comes with an agreement and is named by prices.
ASSUME CatalogueAssumption ==
  /\ \A b \in Batches : IsFiniteSet(b.items) /\ b.items \subseteq {i \in Items : i.entity = b.entity}
  /\ \A i \in Items :
       /\ i.entity \in Entities /\ i.table \in TablesOf[i.entity] \ {"priceType"}
       /\ i.ver \in Nat \ {0} /\ i.active \in BOOLEAN
       /\ i.creates # {} => i.table = "agreement"
       /\ i.late # {} => i.table = "agreement"
       /\ \A j \in Items :
            /\ i.guid = j.guid => i.table = j.table /\ (i.ver = j.ver => i.active = j.active)
            /\ i.guid \notin j.creates
            /\ i.guid \in j.needs => i.table \in NamedTables[j.table]
            /\ i.guid \in j.late => i.table \in {"contract", "warehouse"}
            /\ i.creates \cap j.needs # {} => j.table \in {"productPrice", "specialPrice"}
            /\ i.creates \cap j.late = {}
  /\ None \notin Nat

\* normalizeSelectedEntities: nothing selected means everything.
ToPromote(selected) == IF selected = {} THEN Entities ELSE selected \cap Entities

-----------------------------------------------------------------------------
(* clearEntityInTx *)

Stock(d) == Rows(d, "stock")

ClearOrganizations(d) == Delete(d, Stock(d) \cup Rows(d, "organization"))

ClearAgreements(d) ==
  Delete(d, {g \in Rows(d, "specialPrice") : Refers(d, g, "agreement")}
            \cup Rows(d, "agreement") \cup Rows(d, "priceType"))

ClearContracts(d) == Delete(d, Rows(d, "contract"))

ClearCounterparties(d) ==
  Delete([g \in DOMAIN d |-> IF TableOf(g) = "counterparty" THEN [d[g] EXCEPT !.refs = {}] ELSE d[g]],
         {g \in Rows(d, "specialPrice") : Refers(d, g, "counterparty")}
         \cup Rows(d, "agreement") \cup Rows(d, "contract") \cup Rows(d, "counterparty"))

ClearWarehouses(d) ==
  Delete(d, Stock(d) \cup {g \in Rows(d, "agreement") : Refers(d, g, "warehouse")}
            \cup Rows(d, "warehouse"))

\* Products stay, inactive: orders refer to them.
ClearNomenclature(d) ==
  LET kept == Delete(d, Stock(d) \cup Rows(d, "specialPrice") \cup Rows(d, "productPrice")
                        \cup Rows(d, "group"))
  IN  [g \in DOMAIN kept |-> IF TableOf(g) = "product" THEN Row(0, {}, FALSE) ELSE kept[g]]

clearEntityInTx(d, e) ==
  CASE e = "stock" -> Delete(d, Stock(d))
    [] e = "organizations" -> ClearOrganizations(d)
    [] e = "special-prices" -> Delete(d, Rows(d, "specialPrice"))
    [] e = "product-prices" -> Delete(d, Rows(d, "productPrice"))
    [] e = "agreements" -> ClearAgreements(d)
    [] e = "contracts" -> ClearContracts(d)
    [] e = "counterparties" -> ClearCounterparties(d)
    [] e = "warehouses" -> ClearWarehouses(d)
    [] e = "nomenclature" -> ClearNomenclature(d)

\* Mutant of ResetCatalog: the epoch stays.
MutSameEpoch(c) == [c EXCEPT !.revision = 0, !.min = 0, !.changes = <<>>]

\* The changes are forgotten and a new epoch starts; the sequence behind
\* CatalogChange.revision goes on.
ResetCatalog(c) == [c EXCEPT !.epoch = @ + 1, !.revision = 0, !.min = 0, !.changes = <<>>]

-----------------------------------------------------------------------------
(* applyStaged...: an item whose references exist is written, another one is *)
(* blocked.  p is the promote so far: db, catalog and the blocked guids.     *)

Staged(s, e) == {stage[s][g].item : g \in {h \in DOMAIN stage[s] : stage[s][h].item.entity = e}}

Has(d, refs) == refs \subseteq DOMAIN d
Block(p, I) == [p EXCEPT !.blocked = @ \cup {i.guid : i \in I}]

Upsert(p, I) ==
  LET guids == {i.guid : i \in I}
      item(g) == CHOOSE i \in I : i.guid = g
      kept(g) == IF TableOf(g) = "counterparty" /\ g \in DOMAIN p.db THEN p.db[g].refs ELSE {}
  IN  [p EXCEPT !.db = Over([g \in guids |-> Row(item(g).ver, item(g).needs \cup item(g).late \cup kept(g),
                                                 item(g).active)], @)]

\* The items whose references exist are upserted, the others blocked.
ApplyWhereFound(p, I) ==
  LET found == {i \in I : Has(p.db, i.needs)} IN Block(Upsert(p, found), I \ found)

\* Groups go in passes, parents first, until a pass resolves none.
ApplyGroups(p, I) ==
  LET closed(S) == \A i \in I : i.needs \subseteq DOMAIN p.db \cup {j.guid : j \in S} => i \in S
      resolved == {i \in I : \A S \in SUBSET I : closed(S) => i \in S}
  IN  Block(Upsert(p, resolved), I \ resolved)

\* recordProductCatalogChange for every product whose payload hash changed.
RecordChanges(c, d, I) ==
  LET changed == {i \in I : i.guid \notin DOMAIN d \/ d[i.guid].ver # i.ver}
      n == Cardinality(changed)
      order == CHOOSE f \in [1..n -> {i.guid : i \in changed}] :
                 \A i \in changed : \E x \in 1..n : f[x] = i.guid
  IN  IF n = 0 THEN c
      ELSE [c EXCEPT !.next = @ + n, !.revision = c.next + n - 1,
                     !.changes = @ \o [x \in 1..n |-> [revision |-> c.next + x - 1, guid |-> order[x]]]]

applyStagedNomenclature(p, I) ==
  LET q == ApplyGroups(p, {i \in I : i.table = "group"})
      products == {i \in I : i.table = "product"}
      found == {i \in products : Has(q.db, i.needs)}
  IN  [ApplyWhereFound(q, products) EXCEPT !.catalog = RecordChanges(p.catalog, p.db, found)]

applyStagedOrganizations(p, I) == Upsert(p, I)
applyStagedWarehouses(p, I) == Upsert(p, I)
applyStagedCounterparties(p, I) == Upsert(p, I)
applyStagedContracts(p, I) == ApplyWhereFound(p, I)
applyStagedProductPrices(p, I) == ApplyWhereFound(p, I)
applyStagedSpecialPrices(p, I) == ApplyWhereFound(p, I)
applyStagedStock(p, I) == ApplyWhereFound(p, I)

\* The inline price type is written once the counterparty and the
\* organization are found, even when the agreement is blocked after that.
applyStagedAgreements(p, I) ==
  LET early == {i \in I : Has(p.db, i.needs)}
      types == UNION {i.creates : i \in early}
      q == [p EXCEPT !.db = Over([t \in types |-> Row(1, {}, TRUE)], @)]
      found == {i \in early : Has(q.db, i.late)}
  IN  Block(Upsert(q, found), I \ found)

\* After all entities: the default agreement, contract and warehouse.
applyCounterpartyDefaultLinks(p, I) ==
  LET found == {i \in I : Has(p.db, i.links)}
      item(g) == CHOOSE i \in found : i.guid = g
  IN  Block([p EXCEPT !.db = Over([g \in {i.guid : i \in found} |-> [p.db[g] EXCEPT !.refs = item(g).links]], @)],
            I \ found)

ApplyEntity(p, e, I) ==
  CASE e = "nomenclature" -> applyStagedNomenclature(p, I)
    [] e = "organizations" -> applyStagedOrganizations(p, I)
    [] e = "warehouses" -> applyStagedWarehouses(p, I)
    [] e = "counterparties" -> applyStagedCounterparties(p, I)
    [] e = "contracts" -> applyStagedContracts(p, I)
    [] e = "agreements" -> applyStagedAgreements(p, I)
    [] e = "product-prices" -> applyStagedProductPrices(p, I)
    [] e = "special-prices" -> applyStagedSpecialPrices(p, I)
    [] e = "stock" -> applyStagedStock(p, I)
    [] OTHER -> p

\* The selected entities in their order, from the i-th on; a database error
\* (orders hold on to a row to delete) leaves the transaction aborted.
ClearAll(d, E) ==
  LET clear[i \in 0..Len(RECONCILE_ORDER)] ==
        IF i = 0 THEN d
        ELSE IF RECONCILE_ORDER[i] \in E THEN clearEntityInTx(clear[i - 1], RECONCILE_ORDER[i])
        ELSE clear[i - 1]
  IN  clear[Len(RECONCILE_ORDER)]

\* done is E, or less when the transaction expires on the way.
ApplyAll(p, s, E, done) ==
  LET apply[i \in 0..Len(RECONCILE_ORDER)] ==
        IF i = 0 THEN p
        ELSE IF RECONCILE_ORDER[i] \in done
             THEN ApplyEntity(apply[i - 1], RECONCILE_ORDER[i], Staged(s, RECONCILE_ORDER[i]))
             ELSE apply[i - 1]
      all == apply[Len(RECONCILE_ORDER)]
  IN  IF "counterparties" \in E /\ done = E
      THEN applyCounterpartyDefaultLinks(all, Staged(s, "counterparties"))
      ELSE all

-----------------------------------------------------------------------------
(* Requests *)

NewCatalog == [epoch |-> 0, revision |-> 0, min |-> 0, changes |-> <<>>, next |-> 1]
Idle == [pc |-> "idle"]

\* A catalogue imported earlier: every row is there, in the version the first of its items has.
FirstItem(g) == CHOOSE i \in Items : i.guid = g /\ \A j \in Items : j.guid = g => i.ver =< j.ver
Imported ==
  [g \in Guids |->
    IF \E i \in Items : i.guid = g
    THEN Row(FirstItem(g).ver, FirstItem(g).needs \cup FirstItem(g).late \cup FirstItem(g).links,
              FirstItem(g).active)
    ELSE Row(1, {}, TRUE)]

SyncInit ==
  /\ db \in {<<>>, Imported} /\ catalog = NewCatalog
  /\ session = [s \in Sessions |-> None] /\ stage = [s \in Sessions |-> <<>>]
  /\ request = [r \in Requests |-> Idle]
  /\ batches = 0 /\ completes = 0 /\ syncCrashes = 0
  /\ unannounced = FALSE /\ disturbed = {}

Session(status, replace, selected) ==
  [status |-> status, replace |-> replace, selected |-> selected, notes |-> FALSE, latest |-> FALSE]

startOnecSyncSession(s, replace, selected) ==
  /\ session[s] = None
  /\ session' = [session EXCEPT ![s] = Session("STARTED", replace, selected)]
  /\ UNCHANGED <<db, catalog, stage, request, batches, completes, syncCrashes, unannounced, disturbed>>

Begin(r, x) == request[r] = Idle /\ request' = [request EXCEPT ![r] = x]

\* POST /batch/...: with a session, which is touched ...
TouchSession(r, s, b) ==
  /\ session[s] # None /\ batches' = batches + 1
  /\ Begin(r, [pc |-> "stage", s |-> s, batch |-> b, implicit |-> FALSE])
  /\ session' = [session EXCEPT ![s].status = "ACCEPTING"]
  /\ UNCHANGED <<db, catalog, stage, completes, syncCrashes, unannounced, disturbed>>

\* ... or without one, which makes a session for this entity.
ImplicitSession(r, s, b) ==
  /\ session[s] = None /\ batches' = batches + 1
  /\ Begin(r, [pc |-> "stage", s |-> s, batch |-> b, implicit |-> TRUE])
  /\ session' = [session EXCEPT ![s] = Session("ACCEPTING", FALSE, {b.entity})]
  /\ UNCHANGED <<db, catalog, stage, completes, syncCrashes, unannounced, disturbed>>

Running(s) == \E r \in Requests : request[r].pc \in {"promote", "settle"} /\ request[r].s = s

\* stage...Batch: every item PENDING again, whatever became of it before; the
\* entities differ in what makes an item's sourceKey, here its guid.
StageBatch(r, e) ==
  LET x == request[r]
      item(g) == CHOOSE i \in x.batch.items : i.guid = g
  IN  /\ x.pc = "stage" /\ x.batch.entity = e
      /\ stage' = [stage EXCEPT ![x.s] = Over([g \in {i.guid : i \in x.batch.items} |->
                                                 [item |-> item(g), status |-> "PENDING"]], @)]
      /\ request' = [request EXCEPT ![r] = IF x.implicit THEN [pc |-> "complete", s |-> x.s] ELSE Idle]
      /\ disturbed' = IF Running(x.s) \/ session[x.s].status # "ACCEPTING"
                     THEN disturbed \cup {x.s} ELSE disturbed
      /\ UNCHANGED <<db, catalog, session, batches, completes, syncCrashes, unannounced>>

stageNomenclatureBatch(r) == StageBatch(r, "nomenclature")
stageWarehousesBatch(r) == StageBatch(r, "warehouses")
stageOrganizationsBatch(r) == StageBatch(r, "organizations")
stageCounterpartiesBatch(r) == StageBatch(r, "counterparties")
stageContractsBatch(r) == StageBatch(r, "contracts")
stageAgreementsBatch(r) == StageBatch(r, "agreements")
stageProductPricesBatch(r) == StageBatch(r, "product-prices")
stageSpecialPricesBatch(r) == StageBatch(r, "special-prices")
stageStockBatch(r) == StageBatch(r, "stock")

\* completeOnecSyncSession: POST /sync-session/complete, or the end of an
\* implicit session's batch.
StartCompletion(r, s) ==
  /\ session[s] # None /\ completes < MaxCompletes /\ completes' = completes + 1
  /\ request[r] \in {Idle, [pc |-> "complete", s |-> s]}
  /\ request' = [request EXCEPT ![r] = [pc |-> "promote", s |-> s, replace |-> session[s].replace,
                                        entities |-> ToPromote(session[s].selected)]]
  /\ session' = [session EXCEPT ![s].status = "COMPLETING"]
  /\ disturbed' = IF Running(s) THEN disturbed \cup {s} ELSE disturbed \ {s}
  /\ UNCHANGED <<db, catalog, stage, batches, syncCrashes, unannounced>>

ToStage(s, E) == {g \in DOMAIN stage[s] : stage[s][g].item.entity \in E}

\* The transaction.  An order holding on to a row it deletes aborts it before
\* anything is applied.
PromoteTo(x, done) ==
  LET cleared == IF x.replace THEN ClearAll(db, x.entities) ELSE db
      reset == x.replace /\ "nomenclature" \in x.entities
  IN  ApplyAll([db |-> cleared, catalog |-> IF reset THEN ResetCatalog(catalog) ELSE catalog,
                blocked |-> {}], x.s, x.entities, done)

Held(x) == x.replace /\ \E g \in Ordered \cap DOMAIN db : g \notin DOMAIN ClearAll(db, x.entities)

\* A replacing session that leaves a row blocked is rolled back.
Refused(x, p) == x.replace /\ p.blocked # {}

Settling(x, resolved, blocked, notes) ==
  [pc |-> "settle", s |-> x.s, replace |-> x.replace, resolved |-> resolved, blocked |-> blocked,
   notes |-> notes]

Promote(r) ==
  LET x == request[r]
      p == PromoteTo(x, x.entities)
      applied == ~Held(x) /\ ~Refused(x, p)
  IN  /\ x.pc = "promote"
      /\ request' = [request EXCEPT ![r] =
           IF Held(x) THEN Settling(x, {}, {}, TRUE)
           ELSE Settling(x, ToStage(x.s, x.entities) \ p.blocked, p.blocked, ~applied)]
      /\ IF applied
         THEN /\ db' = p.db /\ catalog' = p.catalog
              /\ session' = [s \in Sessions |-> IF session[s] = None THEN None
                                                ELSE [session[s] EXCEPT !.latest = (s = x.s)]]
         ELSE UNCHANGED <<db, catalog, session>>
      /\ UNCHANGED <<stage, batches, completes, syncCrashes, unannounced, disturbed>>

\* The transaction expires: the entities done so far keep their summaries.
PromoteExpires(r, n) ==
  LET x == request[r]
      done == {RECONCILE_ORDER[i] : i \in 1..n} \cap x.entities
      p == PromoteTo(x, done)
  IN  /\ x.pc = "promote" /\ ~Held(x)
      /\ syncCrashes < MaxCrashes /\ syncCrashes' = syncCrashes + 1
      /\ request' = [request EXCEPT ![r] = Settling(x, ToStage(x.s, done) \ p.blocked, p.blocked, TRUE)]
      /\ disturbed' = disturbed \cup {x.s}
      /\ UNCHANGED <<db, catalog, session, stage, batches, completes, unannounced>>

\* Mutant of Outcome: only a session without any resolved row is PARTIAL.
MutSomeResolved(x) == IF x.blocked # {} /\ x.resolved = {} THEN "PARTIAL" ELSE "COMPLETED"

\* The status completeOnecSyncSession ends with.
Outcome(x) ==
  CASE x.notes /\ x.replace -> IF x.blocked # {} \/ x.resolved # {} THEN "PARTIAL" ELSE "FAILED"
    [] ~(x.notes /\ x.replace) /\ x.blocked # {} -> "PARTIAL"
    [] OTHER -> "COMPLETED"

\* updateStageStatuses and the outcome.
Settle(r) ==
  LET x == request[r]
      rows == stage[x.s]
      status(g) == CASE g \in x.blocked -> "BLOCKED"
                     [] g \in x.resolved -> "RESOLVED"
                     [] OTHER -> rows[g].status
  IN
  /\ x.pc = "settle"
  /\ stage' = [stage EXCEPT ![x.s] = [g \in DOMAIN rows |-> [item |-> rows[g].item, status |-> status(g)]]]
  /\ session' = [session EXCEPT ![x.s].status = Outcome(x), ![x.s].notes = x.notes]
  /\ request' = [request EXCEPT ![r] = Idle]
  /\ UNCHANGED <<db, catalog, batches, completes, syncCrashes, unannounced, disturbed>>

\* POST /clear/:entity (clearOnecEntity): as clearEntityInTx, but products are
\* deleted, unless an order holds on to one, and the change feed is left alone.
clearOnecEntity(e) ==
  LET cleared == clearEntityInTx(db, e)
      without == IF e = "nomenclature" THEN Delete(cleared, Rows(cleared, "product")) ELSE cleared
  IN  /\ batches < MaxBatches /\ batches' = batches + 1
      /\ Ordered \cap DOMAIN db \subseteq DOMAIN without
      /\ db' = without
      /\ unannounced' = (unannounced \/ (e = "nomenclature" /\ Rows(db, "product") # {}))
      /\ session' = [s \in Sessions |-> IF session[s] = None THEN None
                                        ELSE [session[s] EXCEPT !.latest = FALSE]]
      /\ UNCHANGED <<catalog, stage, request, completes, syncCrashes, disturbed>>

SyncCrash ==
  /\ syncCrashes < MaxCrashes /\ syncCrashes' = syncCrashes + 1
  /\ \E r \in Requests : request[r] # Idle
  /\ request' = [r \in Requests |-> Idle]
  /\ disturbed' = disturbed \cup {s \in Sessions : Running(s)}
  /\ UNCHANGED <<db, catalog, session, stage, batches, completes, unannounced>>

SyncNext ==
  \/ \E s \in Sessions, replace \in BOOLEAN, selected \in Selections :
       startOnecSyncSession(s, replace, selected)
  \/ \E r \in Requests :
       \/ /\ request[r] = Idle /\ batches < MaxBatches
          /\ \E s \in Sessions, b \in Batches : TouchSession(r, s, b) \/ ImplicitSession(r, s, b)
       \/ stageNomenclatureBatch(r) \/ stageWarehousesBatch(r) \/ stageOrganizationsBatch(r)
       \/ stageCounterpartiesBatch(r) \/ stageContractsBatch(r) \/ stageAgreementsBatch(r)
       \/ stageProductPricesBatch(r) \/ stageSpecialPricesBatch(r) \/ stageStockBatch(r)
       \/ \E s \in Sessions : StartCompletion(r, s)
       \/ Promote(r)
       \/ \E n \in 0..Len(RECONCILE_ORDER) : PromoteExpires(r, n)
       \/ Settle(r)
  \/ \E e \in Entities : clearOnecEntity(e)
  \/ SyncCrash

SyncSpec == SyncInit /\ [][SyncNext]_sync

-----------------------------------------------------------------------------
(* A promote that replaces leaves in the tables of its entities the rows of  *)
(* the session and nothing else; products it does not bring are inactive.    *)
ReplaceIsExact ==
  \A r \in Requests :
    request[r].pc = "promote" /\ request'[r].pc = "settle" /\ request[r].replace /\ db' # db =>
      \A e \in request[r].entities : \A g \in DOMAIN db' :
        TableOf(g) \in TablesOf[e] \ {"priceType"} =>
          \/ g \in DOMAIN stage[request[r].s]
             /\ db'[g].ver = stage[request[r].s][g].item.ver
          \/ TableOf(g) = "product" /\ ~db'[g].active

(* RECONCILE_ORDER respects the references: a session whose items name only  *)
(* rows it brings itself, and whose groups have no circle of parents, blocks *)
(* nothing, whatever it replaces.                                            *)
IsClosed(I) ==
  /\ \A i \in I : i.needs \cup i.late \cup i.links \subseteq UNION {{j.guid} \cup j.creates : j \in I}
  /\ \A S \in SUBSET {i \in I : i.table = "group"} \ {{}} : \E i \in S : \A j \in S : j.guid \notin i.needs
ClosedSessionIsNotBlocked ==
  \A r \in Requests :
    request[r].pc = "promote" =>
      LET x == request[r]
      IN  IsClosed({stage[x.s][g].item : g \in ToStage(x.s, x.entities)})
            => PromoteTo(x, x.entities).blocked = {}

(* While no later promote or clear has changed the catalogue, a session that *)
(* ended COMPLETED has every staged row of its entities in it, as staged,    *)
(* unless its completion was disturbed.                                      *)
CompletedMeansApplied ==
  \A s \in Sessions :
    session[s] # None /\ session[s].latest /\ session[s].status = "COMPLETED"
      /\ s \notin disturbed /\ ~Running(s) =>
      \A g \in ToStage(s, ToPromote(session[s].selected)) :
        /\ stage[s][g].status = "RESOLVED"
        /\ g \in DOMAIN db /\ db[g].ver = stage[s][g].item.ver
        /\ stage[s][g].item.links \subseteq db[g].refs

(* What 1C was told has been applied is in the catalogue, and nothing more   *)
(* than that after a replacement.                                            *)
PromoteIsExact == [][CompletedMeansApplied' /\ ReplaceIsExact]_sync
=============================================================================
