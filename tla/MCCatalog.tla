----------------------------- MODULE MCCatalog ------------------------------
(***************************************************************************)
(* The exchange of the catalogue in three scenarios: any part of it is     *)
(* promoted, two requests of one session meet, a client follows products.  *)
(***************************************************************************)
EXTENDS CatalogFeed

----------------------------------------------------------------------------
(* One or two items of every table, two versions of the products.          *)

It(g, t, e, v, n) == [guid |-> g, table |-> t, entity |-> e, ver |-> v, active |-> TRUE, needs |-> n,
                      late |-> {}, creates |-> {}, links |-> {}]
G1 == It("g1", "group", "nomenclature", 1, {})
G2 == It("g2", "group", "nomenclature", 1, {"g1"})
P1 == It("p1", "product", "nomenclature", 1, {"g1"})
P1b == [P1 EXCEPT !.ver = 2]
P2 == It("p2", "product", "nomenclature", 1, {})
P2b == [P2 EXCEPT !.ver = 2, !.active = FALSE]
Org == It("o", "organization", "organizations", 1, {})
Wh == It("w", "warehouse", "warehouses", 1, {})
Cp == [It("c", "counterparty", "counterparties", 1, {}) EXCEPT !.links = {"a", "k"}]
Con == It("k", "contract", "contracts", 1, {"c", "o"})
Agr == [It("a", "agreement", "agreements", 1, {"c", "o"}) EXCEPT !.late = {"k", "w"}, !.creates = {"t"}]
Pp == It("pp", "productPrice", "product-prices", 1, {"p1", "t"})
Sp == It("sp", "specialPrice", "special-prices", 1, {"p1", "c", "a", "t"})
St == It("st", "stock", "stock", 1, {"p1", "w", "o"})
All == {G1, G2, P1, P2, Org, Wh, Cp, Con, Agr, Pp, Sp, St}
ItemsDef == All \cup {P1b, P2b}
Batch(I) == [entity |-> (CHOOSE i \in I : TRUE).entity, items |-> I]
Contested == {Batch({P1b}), Batch({Con}), Batch({Agr})}
BatchesDef == Contested \cup {Batch({G1, G2, P2}), Batch({P2b})} \cup {Batch({i}) : i \in {Org, Wh, Cp, Pp, Sp, St}}
SelectionsDef == {{}, {"nomenclature"}, {"warehouses", "agreements", "special-prices"},
                  {"counterparties", "contracts", "agreements"}}
ProductsDef == <<"p1", "p2">>
----------------------------------------------------------------------------
VARIABLE scenario   \* which of the three it is

Used(rep, sel) == Session("ACCEPTING", rep, sel)
Stage(I) == [g \in {i.guid : i \in I} |-> [item |-> CHOOSE i \in I : i.guid = g, status |-> "PENDING"]]

\* 1C replaces and changes products while a client follows them.
Feeding ==
  /\ scenario = "feed" /\ db = Imported /\ catalog = NewCatalog
  /\ session = [s \in Sessions |-> IF s = "s1" THEN Used(TRUE, {"nomenclature"}) ELSE None]
  /\ \E I \in {{G1, P1b}, {P2}} : stage = [s \in Sessions |-> IF s = "s1" THEN Stage(I) ELSE <<>>]
  /\ request = [r \in Requests |-> Idle]
  /\ batches = MaxBatches - 1 /\ completes = 0 /\ syncCrashes = MaxCrashes
  /\ unannounced = FALSE /\ disturbed = {}
  /\ client \in {NoProducts, [epoch |-> 0, revision |-> 0, cursor |-> Done,
                              products |-> [g \in {"p1", "p2"} |-> 1]]}
  /\ call = None /\ reads = MaxReads /\ prunes = 0 /\ pruned = FALSE /\ slipped = FALSE

\* Two requests of one session meet, with crashes.
Racing ==
  /\ scenario = "race" /\ FeedInit /\ reads = 0

\* Any part of an exchange is staged and completed, over an empty or a full catalogue.
Promoting ==
  /\ scenario = "promote"
  /\ db \in {<<>>, Imported} /\ catalog = NewCatalog
  /\ \E rep \in BOOLEAN, sel \in Selections : session = [s \in Sessions |-> Used(rep, sel)]
  /\ \E I \in SUBSET (All \ {P2, G2, Pp}) :
       stage = [s \in Sessions |-> IF s = "s1" THEN Stage(I) ELSE <<>>]
  /\ request = [r \in Requests |-> Idle]
  /\ batches = (IF stage["s1"] = <<>> THEN MaxBatches - 1 ELSE MaxBatches)
  /\ completes = MaxCompletes - 1 /\ syncCrashes = MaxCrashes
  /\ unannounced = FALSE /\ disturbed = {}
  /\ client = NoProducts /\ call = None /\ reads = 0 /\ prunes = MaxPrunes
  /\ pruned = FALSE /\ slipped = FALSE

MCInit == Feeding \/ Racing \/ Promoting

\* A request that stays idle; a session that stays as it is.
Alone(r) == request'[r] = Idle
Only(s) == session'[s] = session[s]
MCNext ==
  /\ FeedNext /\ UNCHANGED scenario
  /\ scenario = "feed" => /\ Alone("r2") /\ (db' # db => request' # request)
                          /\ request'["r1"].pc = "stage" => request'["r1"].batch.entity = "nomenclature"
                          /\ \A s \in Sessions : session'[s] # None => session'[s].selected = {"nomenclature"}
  /\ scenario = "race" => /\ Only("s2")
                          /\ \A r \in Requests : request'[r].pc = "stage" => request'[r].batch \in Contested
                          /\ (session'["s1"] # None => session'["s1"].selected # {})
  /\ scenario = "promote" => Alone("r2") /\ Only("s2")

MCSpec == MCInit /\ [][MCNext]_<<sync, feed, scenario>>
=============================================================================
