------------------------------- MODULE Pricing -------------------------------
(***************************************************************************)
(* The prices of one product and the two ways the server reads them: the   *)
(* marketplace's resolveEffectivePrice, over special and list prices, and  *)
(* loadProductPriceInfoByProductAndPriceTypeId, over list prices only, for *)
(* the lines of a manager's order.                                         *)
(*                                                                         *)
(* A special price is bound to an agreement, a counterparty and a price    *)
(* type, a list price to a price type; NoRef stands for an empty binding.  *)
(* Dates are days 1, 2, ...; 0 is a date that is not set.                  *)
(***************************************************************************)
EXTENDS Naturals

CONSTANTS
  NoRef,       \* an empty reference
  Specials,    \* special prices 1C can send: [agr, cp, pt, start, end, minQty]
  Listed,      \* list prices 1C can send: [pt, start, end, price, minQty]
  Today        \* the day on which prices are asked for

VARIABLES
  offers,      \* the active special prices
  priceList    \* the active list prices

prices == <<offers, priceList>>

PricesInit == offers = {} /\ priceList = {}

\* A session of 1C brings a price, or brings it again as inactive.
LoadSpecial(row) ==
  /\ offers' = IF row \in offers THEN offers \ {row} ELSE offers \cup {row}
  /\ UNCHANGED priceList

LoadListed(row) ==
  /\ priceList' = IF row \in priceList THEN priceList \ {row} ELSE priceList \cup {row}
  /\ UNCHANGED offers

LoadPrice == (\E row \in Specials : LoadSpecial(row)) \/ (\E row \in Listed : LoadListed(row))

----------------------------------------------------------------------------
(* The marketplace.  terms is [agr, cp, pt], what the query resolved to.   *)

IsWithinRange(row) == row.start <= Today /\ (row.end # 0 => row.end >= Today)

ComputeMatchLevel(terms, row) ==
  IF terms.agr # NoRef /\ row.agr = terms.agr THEN 4
  ELSE IF terms.cp # NoRef /\ row.cp = terms.cp THEN 3
  ELSE IF terms.pt # NoRef /\ row.pt = terms.pt THEN 2 ELSE 1

Candidates(terms) ==
  {row \in offers :
     /\ IsWithinRange(row)
     /\ row.agr = terms.agr
     /\ row.cp \in {NoRef, terms.cp}
     /\ row.pt \in {NoRef, terms.pt}}

ListLevel(terms, row) == IF terms.pt # NoRef /\ row.pt = terms.pt THEN 2 ELSE 1

ListCandidates(terms) ==
  {row \in priceList : IsWithinRange(row) /\ row.pt \in {NoRef, terms.pt}}

\* The rows that can come first: a higher level, then a later start; rows that
\* tie on both come in the order the database returned them.
First(rows, Level(_)) ==
  {row \in rows : \A other \in rows :
     \/ Level(other) < Level(row)
     \/ Level(other) = Level(row) /\ other.start <= row.start}

\* The answers resolveEffectivePrice can give; none is its 404.
ResolveEffectivePrice(terms) ==
  IF Candidates(terms) # {}
  THEN {[source |-> "SPECIAL_PRICE", row |-> row] :
          row \in First(Candidates(terms), LAMBDA r : ComputeMatchLevel(terms, r))}
  ELSE {[source |-> "PRODUCT_PRICE", row |-> row] :
          row \in First(ListCandidates(terms), LAMBDA r : ListLevel(terms, r))}

----------------------------------------------------------------------------
(* A manager's order.                                                      *)

\* ORDER BY startDate DESC: the database puts a missing date first.
Sooner(row, other) == row.start = 0 \/ (other.start # 0 /\ other.start <= row.start)

ProductPriceInfo(pt) ==
  LET rows == {row \in priceList : IsWithinRange(row) /\ row.pt = pt}
  IN  {row \in rows : \A other \in rows : Sooner(row, other)}

=============================================================================
