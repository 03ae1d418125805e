----------------------------- MODULE Marketplace -----------------------------
(***************************************************************************)
(* The terms of orders: those a client of the marketplace has chosen in    *)
(* the profile (updateClientContext) and orders on (createOrder), and      *)
(* those a manager names in the request (resolveManagerOrderContext).      *)
(*                                                                         *)
(* A handler reads the profile and the references it names, checks them,   *)
(* and only then writes: between the two another request of the client may *)
(* write the profile, and 1C may close a reference or change the prices.   *)
(* One product and one line per order; what an agreement names is fixed.   *)
(***************************************************************************)
EXTENDS Pricing

CONSTANTS
  Counterparties, Agreements, Contracts, Warehouses, PriceTypes, Addresses,
  AgreementTerms,   \* agreement |-> [cp, con, wh, pt], each possibly NoRef
  OwnerOf,          \* contract or address |-> its counterparty
  ContextBodies,    \* bodies of PUT /me/context
  OrderBodies,      \* bodies of POST /orders, with a quantity
  ManagerBodies,    \* the terms a manager's order names
  Closable,         \* the references 1C closes and reopens
  Sessions,         \* requests in flight
  Absent,           \* a field the body does not carry
  MaxClosings,      \* bound on what 1C does: closings, reopenings, new prices
  MaxRequests       \* bound on requests of the client

\* An agreement may name any contract, also one of another counterparty: onec.sync.ts looks the
\* contract up by its GUID and does not compare.
ASSUME MarketAssumption ==
  /\ \A body \in ContextBodies \cup OrderBodies : body.agr \in Agreements \cup {NoRef, Absent}
  /\ \A t \in ManagerBodies : t.agr \in Agreements \cup {NoRef}

VARIABLES
  terms,            \* the profile: [cp, agr, con, wh, pt, addr]
  closed,           \* the references with isActive = false
  waiting,          \* session |-> what it will write, NoRef when idle
  placed,           \* the orders
  closings, requests

market == <<offers, priceList, terms, closed, waiting, placed, closings, requests>>

Fields == {"cp", "agr", "con", "wh", "pt", "addr"}

Kinds ==
  [cp |-> Counterparties, agr |-> Agreements, con |-> Contracts,
   wh |-> Warehouses, pt |-> PriceTypes, addr |-> Addresses]

MarketInit ==
  /\ PricesInit
  /\ terms = [f \in Fields |-> NoRef]
  /\ closed = {}
  /\ waiting = [s \in Sessions |-> NoRef]
  /\ placed = {}
  /\ closings = 0 /\ requests = 0

----------------------------------------------------------------------------
(* The context a body asks for.                                            *)

\* A closed reference of the profile counts as not chosen.
Kept(f) == IF terms[f] \in closed THEN NoRef ELSE terms[f]

Asked(body) == [f \in Fields |-> IF body[f] = Absent THEN Kept(f) ELSE body[f]]

\* ensureActive, for the references the body names.
NamesActive(body) == \A f \in Fields : body[f] \notin closed

\* Another counterparty: what belongs to the old one is dropped.
CounterpartyChanged(body) == body.cp # Absent /\ terms.cp # body.cp

Chosen(body) ==
  [f \in Fields |->
     IF CounterpartyChanged(body) /\ body[f] = Absent /\ f \in {"agr", "con", "addr"}
     THEN NoRef ELSE Asked(body)[f]]

\* The counterparties that agreement, contract and address belong to.
Owners(t) ==
  (IF t.agr = NoRef THEN {} ELSE {AgreementTerms[t.agr].cp} \ {NoRef})
  \cup {OwnerOf[t[f]] : f \in {g \in {"con", "addr"} : t[g] # NoRef}}

\* Mutant of CheckOwner: the address is not compared with the counterparty.
MutAddressUnchecked(t) ==
  LET owners == Owners([t EXCEPT !.addr = NoRef])
  IN  owners \cap closed = {} /\ \A a, b \in owners \cup ({t.cp} \ {NoRef}) : a = b

\* The three comparisons and loadCounterpartyById.
CheckOwner(t) ==
  /\ Owners(t) \cap closed = {}
  /\ \A a, b \in Owners(t) \cup ({t.cp} \ {NoRef}) : a = b

\* What the agreement names must be what was chosen beside it.
CheckAgreement(t, fields) ==
  t.agr # NoRef =>
    \A f \in fields :
      t[f] # NoRef /\ AgreementTerms[t.agr][f] # NoRef => t[f] = AgreementTerms[t.agr][f]

WithOwner(t) ==
  IF Owners(t) = {} THEN t ELSE [t EXCEPT !.cp = CHOOSE c \in Owners(t) : TRUE]

----------------------------------------------------------------------------
(* PUT /me/context                                                         *)

ReadContext(s, body) ==
  LET t == Chosen(body)
  IN  /\ waiting[s] = NoRef /\ requests < MaxRequests
      /\ NamesActive(body) /\ CheckOwner(t) /\ CheckAgreement(t, {"con", "wh", "pt"})
      /\ waiting' = [waiting EXCEPT ![s] = [do |-> "context", terms |-> WithOwner(t)]]
      /\ requests' = requests + 1
      /\ UNCHANGED <<offers, priceList, terms, closed, placed, closings>>

WriteContext(s) ==
  /\ waiting[s] # NoRef /\ waiting[s].do = "context"
  /\ terms' = waiting[s].terms
  /\ waiting' = [waiting EXCEPT ![s] = NoRef]
  /\ UNCHANGED <<offers, priceList, closed, placed, closings, requests>>

----------------------------------------------------------------------------
(* POST /orders                                                            *)

\* resolveOrderContext: the same choice, for an order, of a client who has a
\* counterparty; the body cannot name another one.
ResolveOrderContext(s, body) ==
  LET t == Asked(body)
  IN  /\ waiting[s] = NoRef /\ requests < MaxRequests
      /\ NamesActive(body) /\ CheckOwner(t) /\ CheckAgreement(t, {"con", "wh", "pt"})
      /\ WithOwner(t).cp # NoRef
      /\ waiting' = [waiting EXCEPT ![s] = [do |-> "order", terms |-> WithOwner(t), qty |-> body.qty]]
      /\ requests' = requests + 1
      /\ UNCHANGED <<offers, priceList, terms, closed, placed, closings>>

\* The references resolveEffectivePrice reads again, and what it resolves them to.
PriceTerms(t) ==
  [agr |-> t.agr, cp |-> t.cp,
   pt |-> IF t.pt # NoRef THEN t.pt
          ELSE IF t.agr # NoRef THEN AgreementTerms[t.agr].pt ELSE NoRef]

\* A term left open is the agreement's.
OrElseAgreement(t, f) ==
  IF t[f] = NoRef /\ t.agr # NoRef THEN AgreementTerms[t.agr][f] ELSE t[f]

OrderOf(t, price) ==
  [cp |-> t.cp, agr |-> t.agr, con |-> OrElseAgreement(t, "con"),
   wh |-> OrElseAgreement(t, "wh"), addr |-> t.addr,
   pt |-> PriceTerms(t).pt, source |-> price.source, row |-> price.row]

\* None when a reference was closed meanwhile.
Quotes(t) ==
  IF {t.cp, t.agr, t.pt} \cap closed = {} THEN ResolveEffectivePrice(PriceTerms(t)) ELSE {}

CreateOrder(s) ==
  LET t == waiting[s].terms
  IN  /\ waiting[s] # NoRef /\ waiting[s].do = "order"
      /\ waiting' = [waiting EXCEPT ![s] = NoRef]
      /\ \/ \E price \in Quotes(t) :
              placed' = IF waiting[s].qty < price.row.minQty THEN placed
                        ELSE placed \cup {OrderOf(t, price)}
         \/ Quotes(t) = {} /\ placed' = placed
      /\ UNCHANGED <<offers, priceList, terms, closed, closings, requests>>

----------------------------------------------------------------------------
(* A manager's order, in one transaction.                                  *)

\* loadOrganizationByGuid and its siblings: what the request names is active,
\* and so is the agreement's price type, whether it is used or not.
LoadsReferences(t) ==
  /\ \A f \in Fields : t[f] \notin closed
  /\ t.agr # NoRef => AgreementTerms[t.agr].pt \notin closed

ManagerTermsAgree(t) == Owners(t) \subseteq {t.cp} /\ CheckAgreement(t, {"con", "wh"})

\* What the request leaves open is the agreement's; it is not looked at.
ManagerOrder(t) ==
  [cp |-> t.cp, agr |-> t.agr, con |-> OrElseAgreement(t, "con"),
   wh |-> OrElseAgreement(t, "wh"), addr |-> t.addr,
   pt |-> OrElseAgreement(t, "pt"), source |-> "MANAGER", row |-> NoRef]

ResolveManagerOrderContext(t) ==
  /\ requests < MaxRequests
  /\ LoadsReferences(t) /\ ManagerTermsAgree(t)
  /\ placed' = placed \cup {ManagerOrder(t)}
  /\ requests' = requests + 1
  /\ UNCHANGED <<offers, priceList, terms, closed, waiting, closings>>

----------------------------------------------------------------------------
(* 1C                                                                      *)

CloseOrReopen(ref) ==
  /\ closings < MaxClosings
  /\ closed' = IF ref \in closed THEN closed \ {ref} ELSE closed \cup {ref}
  /\ closings' = closings + 1
  /\ UNCHANGED <<offers, priceList, terms, waiting, placed, requests>>

NewPrices ==
  /\ closings < MaxClosings
  /\ LoadPrice
  /\ closings' = closings + 1
  /\ UNCHANGED <<terms, closed, waiting, placed, requests>>

MarketNext ==
  \/ \E s \in Sessions :
       \/ \E body \in ContextBodies : ReadContext(s, body)
       \/ WriteContext(s)
       \/ \E body \in OrderBodies : ResolveOrderContext(s, body)
       \/ CreateOrder(s)
  \/ \E t \in ManagerBodies : ResolveManagerOrderContext(t)
  \/ \E ref \in Closable : CloseOrReopen(ref)
  \/ NewPrices

MarketSpec == MarketInit /\ [][MarketNext]_market

----------------------------------------------------------------------------
\* Agreement and address of an order are those of its counterparty, and so is the contract, unless
\* it is the one the agreement names, whoever has that.
OfCounterparty(o) ==
  /\ o.agr # NoRef => AgreementTerms[o.agr].cp \in {NoRef, o.cp}
  /\ o.addr # NoRef => OwnerOf[o.addr] = o.cp
  /\ o.con # NoRef => \/ OwnerOf[o.con] = o.cp
                      \/ o.agr # NoRef /\ o.con = AgreementTerms[o.agr].con

\* The profile's terms agree after every update, also when two updates of one
\* client overlap, 1C closes references meanwhile and a closed counterparty is
\* dropped on the way (updateClientContext, resolveOrderContext).  An order,
\* of the marketplace or of a manager, is placed for one counterparty, on that
\* counterparty's agreement and address, on a contract of that counterparty or
\* the agreement's own, and on the warehouse and contract its agreement names,
\* and a marketplace order is priced by a row that was made for these terms or
\* for everybody.
TermsStayTogether ==
  /\ Owners(terms) \subseteq {terms.cp} /\ CheckAgreement(terms, {"con", "wh", "pt"})
  /\ \A o \in placed :
       /\ OfCounterparty(o) /\ CheckAgreement(o, {"con", "wh"})
       /\ o.source = "SPECIAL_PRICE" =>
            o.row.agr = o.agr /\ o.row.cp \in {NoRef, o.cp} /\ o.row.pt \in {NoRef, o.pt}

=============================================================================
