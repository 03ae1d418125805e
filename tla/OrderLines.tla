----------------------------- MODULE OrderLines ------------------------------
(***************************************************************************)
(* The lines and the amounts of a manager's order: what prepareOrderItems  *)
(* computes from a request, what a copy keeps of them, and what a submit   *)
(* asks for.  Each handler is one transaction here; how transactions of    *)
(* one order overlap is the subject of ClientOrderExport.                  *)
(*                                                                         *)
(* A line is sold by the base unit.  Prices are whole units, percents are  *)
(* out of 100, and final prices and amounts are kept in hundredths.        *)
(***************************************************************************)
EXTENDS Pricing, FiniteSetsExt

CONSTANTS
  OrderIds,      \* orders that can exist
  Requests,      \* the lines a request can carry, functions to
                 \* [manual, fixed, pct, qty, cancelled]; NoRef: not given
  GeneralPcts,   \* general discounts of a request, NoRef: none
  OrderPt,       \* the price type of every request
  MaxSaves       \* bound on saves, copies and price loads

VARIABLES
  orderOf,       \* id |-> order, NoRef while it does not exist
  saves

lines == <<offers, priceList, orderOf, saves>>

LinesInit == PricesInit /\ orderOf = [o \in OrderIds |-> NoRef] /\ saves = 0

----------------------------------------------------------------------------
(* prepareOrderItems                                                       *)

Or(value, default) == IF value = NoRef THEN default ELSE value

\* The price of the list, NoRef when there is none.
Quote == IF ProductPriceInfo(OrderPt) = {} THEN NoRef
         ELSE (CHOOSE row \in ProductPriceInfo(OrderPt) : TRUE)

BasePrice(body) ==
  LET listed == IF Quote = NoRef THEN NoRef ELSE Quote.price
  IN  Or(body.manual, Or(body.fixed, Or(listed, IF body.cancelled THEN 0 ELSE NoRef)))

EnoughOf(body) ==
  (~body.cancelled /\ body.qty > 0 /\ body.manual = NoRef /\ Quote # NoRef) => body.qty >= Quote.minQty

\* A line without a price, or below the least quantity, refuses the request.
Acceptable(body) == BasePrice(body) # NoRef /\ EnoughOf(body)

\* The general discount is for lines priced by the list that carry none of
\* their own.
TakesGeneral(body) == body.manual = NoRef /\ body.pct = NoRef

AppliedPct(body, general) == IF TakesGeneral(body) THEN general ELSE body.pct

FinalPrice(body, general) == BasePrice(body) * (100 - Or(AppliedPct(body, general), 0))

PreparedLine(body, general) ==
  [isManual |-> body.manual # NoRef, base |-> BasePrice(body),
   price |-> FinalPrice(body, general), amount |-> FinalPrice(body, general) * body.qty,
   qty |-> body.qty, cancelled |-> body.cancelled, pct |-> body.pct]

Total(ls) == MapThenSumSet(LAMBDA i : ls[i].amount, {i \in DOMAIN ls : ~ls[i].cancelled})

Prepared(bodies, general) ==
  LET ls == [i \in DOMAIN bodies |-> PreparedLine(bodies[i], general)]
  IN  [lines |-> ls, total |-> Total(ls), general |-> general]

----------------------------------------------------------------------------
(* The handlers.                                                           *)

Save(o, bodies, general, queued) ==
  /\ saves < MaxSaves /\ saves' = saves + 1
  /\ \A i \in DOMAIN bodies : Acceptable(bodies[i])
  /\ orderOf' = [orderOf EXCEPT ![o] = [order |-> Prepared(bodies, general), queued |-> queued,
                                      copied |-> FALSE]]
  /\ UNCHANGED prices

CreateLines(o) ==
  /\ orderOf[o] = NoRef
  /\ \E bodies \in Requests, general \in GeneralPcts : Save(o, bodies, general, FALSE)

\* An order that waits for the export stays in the queue, checked or not.
UpdateLines(o) ==
  /\ orderOf[o] # NoRef
  /\ \E bodies \in Requests, general \in GeneralPcts : Save(o, bodies, general, orderOf[o].queued)

\* buildStoredClientOrderCopyItemData
CopiedLine(l) ==
  IF l.isManual THEN [l EXCEPT !.cancelled = FALSE]
  ELSE [l EXCEPT !.base = NoRef, !.price = 0, !.amount = 0, !.cancelled = FALSE]

CopyLines(o, new) ==
  /\ saves < MaxSaves /\ saves' = saves + 1
  /\ orderOf[o] # NoRef /\ orderOf[new] = NoRef
  /\ orderOf' =
       [orderOf EXCEPT ![new] =
          [order |-> [lines |-> [i \in DOMAIN orderOf[o].order.lines |->
                                   CopiedLine(orderOf[o].order.lines[i])],
                      total |-> 0, general |-> orderOf[o].order.general],
           queued |-> FALSE, copied |-> TRUE]]
  /\ UNCHANGED prices

\* Mutant of Submittable: the price is not asked for.
MutQuantityOnly(ls) ==
  LET active == {i \in DOMAIN ls : ~ls[i].cancelled}
  IN  active # {} /\ \A i \in active : ls[i].qty > 0

Submittable(ls) ==
  LET active == {i \in DOMAIN ls : ~ls[i].cancelled}
  IN  active # {} /\ \A i \in active : ls[i].qty > 0 /\ Or(ls[i].base, 0) > 0

SubmitLines(o) ==
  /\ orderOf[o] # NoRef /\ Submittable(orderOf[o].order.lines)
  /\ orderOf' = [orderOf EXCEPT ![o].queued = TRUE]
  /\ UNCHANGED <<offers, priceList, saves>>

UnqueueLines(o) ==
  /\ orderOf[o] # NoRef /\ orderOf[o].queued
  /\ orderOf' = [orderOf EXCEPT ![o].queued = FALSE]
  /\ UNCHANGED <<offers, priceList, saves>>

LoadPrices ==
  /\ saves < MaxSaves /\ saves' = saves + 1
  /\ LoadPrice
  /\ UNCHANGED orderOf

LinesNext ==
  \/ \E o \in OrderIds :
       CreateLines(o) \/ UpdateLines(o) \/ SubmitLines(o) \/ UnqueueLines(o)
       \/ \E new \in OrderIds : CopyLines(o, new)
  \/ LoadPrices

LinesSpec == LinesInit /\ [][LinesNext]_lines

----------------------------------------------------------------------------
\* No order waits for the export with a line whose price a copy took away
\* (submitClientOrder after copyStoredClientOrder), and but for a copy that
\* nobody has saved since, the total is the sum of the lines that are not
\* cancelled, whatever was copied, submitted, taken back and saved before.
QueuedOrdersArePriced ==
  \A o \in OrderIds : orderOf[o] # NoRef =>
    LET ls == orderOf[o].order.lines
    IN  /\ orderOf[o].queued => \A i \in DOMAIN ls : ls[i].base # NoRef
        /\ ~orderOf[o].copied => orderOf[o].order.total = Total(ls)

=============================================================================
