--------------------------- MODULE ShippingQuotes ---------------------------
(***************************************************************************)
(* What shipping costs.  A request rates a parcel with the carriers, or    *)
(* from the cache of their answers, and adds the fee of the brand.  Four   *)
(* kinds of request do so: the quote the order drawer shows, the order     *)
(* placed from it, the rates a checkout of the brand's store shows, which  *)
(* are kept, and the import of the order that checkout led to, which       *)
(* prefers what was kept.                                                  *)
(***************************************************************************)
EXTENDS Naturals, Sequences, FiniteSets, FiniteSetsExt

CONSTANTS
    Carts,          \* what is shipped where: records [items, dest]
    Parcel,         \* items -> the parcel they are packed in
    Tariffs,        \* <<parcel, dest>> -> the offers the carriers may make for it: what each service costs
    Estimate,       \* the offer of the computed rater, when no carrier answers
    Ground,         \* the service of the flat fallback
    FlatCents,      \* and its price, all included
    Pricings,       \* the pricings of the brand: records [fee, services]
    Requests,       \* requests the server handles at a time
    MaxRatings,     \* bound on the requests that begin
    MaxRevisions,   \* bound on the changes of tariffs and pricing, and on what expires
    Blank           \* no cart, quote, price or request

\* No carrier answered.
NoOffers == <<>>

ASSUME QuotesAssumption ==
    /\ Blank \notin Carts /\ Blank \notin Requests
    /\ \A c \in Carts : c = [items |-> c.items, dest |-> c.dest] /\ <<Parcel[c.items], c.dest>> \in DOMAIN Tariffs
    /\ \A k \in DOMAIN Tariffs : Tariffs[k] # {} /\ \A t \in Tariffs[k] : \A s \in DOMAIN t : t[s] \in Nat
    /\ Estimate # NoOffers /\ (\A s \in DOMAIN Estimate : Estimate[s] \in Nat)
    /\ FlatCents \in Nat /\ \A p \in Pricings : p.fee \in Nat

VARIABLES
    tariff,     \* what the carriers ask now, per <<parcel, dest>>
    cache,      \* the answers kept in memory
    pricing,    \* what the brand pays on top, and the services it offers
    request,    \* the requests in flight
    drawer,     \* the order drawer
    kept,       \* the live rows of rate_quote, per cart: one batch per checkout, oldest first
    offered,    \* per cart, what its last checkout was shown, if nothing crossed it
    priced,     \* the order this step priced, if any: its shipping, and the shipping promised
    used        \* requests begun, revisions made

quoteVars == <<tariff, cache, pricing, request, drawer, kept, offered, priced, used>>

AllOffers == UNION {Tariffs[k] : k \in DOMAIN Tariffs}
Services == {Ground} \cup UNION {DOMAIN t : t \in AllOffers \cup {Estimate}}

\* What the carriers are asked, and where their answer is cached.
RatedAs(cart) == <<Parcel[cart.items], cart.dest>>
KeyOfDest(cart) == CHOOSE k \in DOMAIN Tariffs : k[2] = cart.dest
Key(cart) == RatedAs(cart)

HashOfItems(cart) == cart.items
Hash(cart) == <<cart.items, cart.dest>>

FlatOption == [carrier |-> FlatCents, cents |-> FlatCents]

\* The services the rules and the brand let through, with the fee on each.
Curated(raw, p) == {s \in DOMAIN raw : p.services = {} \/ s \in p.services}
Options(raw, p) ==
    IF Curated(raw, p) = {} THEN [s \in {Ground} |-> FlatOption]
    ELSE [s \in Curated(raw, p) |-> [carrier |-> raw[s], cents |-> raw[s] + p.fee]]

\* The cheapest comes first, and the first is taken where none, or an unknown one, is asked for.
First(options) == CHOOSE s \in DOMAIN options : \A o \in DOMAIN options : options[s].cents <= options[o].cents
Chosen(options, service) == options[IF service \in DOMAIN options THEN service ELSE First(options)]
Selected(shown, service) == shown[IF service \in DOMAIN shown THEN service ELSE First(shown)]

NoRequest == [kind |-> "none", pc |-> "idle", cart |-> Blank, service |-> Blank, pricing |-> Blank, raw |-> NoOffers, seen |-> Blank, alone |-> TRUE]
NoDrawer == [open |-> FALSE, cart |-> Blank, service |-> Blank, quote |-> Blank, quoting |-> FALSE, waits |-> Blank,
           sent |-> Blank, exported |-> FALSE, confirm |-> FALSE]

QuotesInit ==
    /\ tariff \in {t \in [DOMAIN Tariffs -> AllOffers] : \A k \in DOMAIN t : t[k] \in Tariffs[k]}
    /\ cache = [k \in DOMAIN Tariffs |-> Blank]
    /\ pricing \in Pricings
    /\ request = [r \in Requests |-> NoRequest]
    /\ drawer = NoDrawer
    /\ kept = [h \in {Hash(c) : c \in Carts} |-> <<>>]
    /\ offered = [c \in Carts |-> Blank]
    /\ priced = Blank
    /\ used = [ratings |-> 0, revisions |-> 0]

NonePriced == priced' = Blank

-----------------------------------------------------------------------------

(* Rating, the same for every request. *)

\* The pricing is read first, the rates after it: a live entry of the cache is used at once.
Rating(kind, cart, service, seen, alone) ==
    LET raw == IF cache[Key(cart)] = Blank THEN NoOffers ELSE cache[Key(cart)]
    IN [kind |-> kind, pc |-> IF raw = NoOffers THEN "asked" ELSE "rated", cart |-> cart, service |-> service,
        pricing |-> pricing, raw |-> raw, seen |-> seen, alone |-> alone]

Begin(r, kind, cart, service, seen) ==
    /\ request[r] = NoRequest /\ used.ratings < MaxRatings
    /\ used' = [used EXCEPT !.ratings = @ + 1]
    /\ request' = [request EXCEPT ![r] = Rating(kind, cart, service, seen, TRUE)]

\* The carriers answer, or the computed rater does for them; whoever answered, it is cached.
Carrier(r) ==
    /\ request[r].pc = "asked"
    /\ \E raw \in {tariff[RatedAs(request[r].cart)], Estimate} \ {NoOffers} :
           /\ cache' = [cache EXCEPT ![Key(request[r].cart)] = raw]
           /\ request' = [request EXCEPT ![r].pc = "rated", ![r].raw = raw]
    /\ NonePriced /\ UNCHANGED <<tariff, pricing, drawer, kept, offered, used>>

\* An entry outlives its time, or goes with all the others when there are too many.
CacheExpires(k) ==
    /\ cache[k] # Blank /\ used.revisions < MaxRevisions
    /\ cache' = [cache EXCEPT ![k] = Blank]
    /\ used' = [used EXCEPT !.revisions = @ + 1]
    /\ NonePriced /\ UNCHANGED <<tariff, pricing, request, drawer, kept, offered>>

TariffChanges(k) ==
    /\ used.revisions < MaxRevisions
    /\ \E t \in Tariffs[k] \ {tariff[k]} : tariff' = [tariff EXCEPT ![k] = t]
    /\ used' = [used EXCEPT !.revisions = @ + 1]
    /\ NonePriced /\ UNCHANGED <<cache, pricing, request, drawer, kept, offered>>

PricingChanges(p) ==
    /\ used.revisions < MaxRevisions
    /\ pricing' = p
    /\ used' = [used EXCEPT !.revisions = @ + 1]
    /\ NonePriced /\ UNCHANGED <<tariff, cache, request, drawer, kept, offered>>

\* An administrator changes the fee of the brand, or the rules that let services through.
FeeChanges == \E p \in Pricings : p.fee # pricing.fee /\ p.services = pricing.services /\ PricingChanges(p)
RulesChange == \E p \in Pricings : p.services # pricing.services /\ p.fee = pricing.fee /\ PricingChanges(p)

OptionsOf(r) == Options(request[r].raw, request[r].pricing)

-----------------------------------------------------------------------------

(* The order drawer. *)

\* A cart that can be quoted is: the answer of every earlier request is ignored from now on.
\* Without one the quote goes, and the hint that one is fetched stays as it was.
Requote(r, cart, d) ==
    IF cart = Blank
    THEN /\ drawer' = [d EXCEPT !.cart = Blank, !.quote = Blank, !.waits = Blank]
         /\ UNCHANGED <<request, used>>
    ELSE /\ drawer' = [d EXCEPT !.cart = cart, !.quoting = TRUE, !.waits = r]
         /\ Begin(r, "quote", cart, Blank, Blank)

\* A new order, or an order to a known address, starts without products; an edited one has all,
\* with the service it was placed for.
OpenOrder(r) ==
    /\ ~drawer.open
    /\ \/ Requote(r, Blank, [NoDrawer EXCEPT !.open = TRUE])
       \/ \E cart \in Carts, exported \in BOOLEAN :
              Requote(r, cart, [NoDrawer EXCEPT !.open = TRUE, !.service = Ground, !.exported = exported])
    /\ NonePriced /\ UNCHANGED <<tariff, cache, pricing, kept, offered>>

\* The products, the address, or an address of the book.
EditOrder(r) ==
    /\ drawer.open
    /\ \E cart \in (Carts \cup {Blank}) \ {drawer.cart} : Requote(r, cart, drawer)
    /\ NonePriced /\ UNCHANGED <<tariff, cache, pricing, kept, offered>>

AnyAnswer(r) == drawer.open
Awaited(r) == drawer.waits = r

\* The quote is answered, or fails.
Quoted(r) ==
    /\ request[r].kind = "quote"
    /\ \E quote \in {Blank} \cup (IF request[r].pc = "rated" THEN {[cart |-> request[r].cart, options |-> OptionsOf(r)]} ELSE {}) :
           drawer' = IF ~Awaited(r) THEN drawer
                     ELSE [drawer EXCEPT !.quote = quote, !.quoting = FALSE, !.waits = Blank,
                               !.service = IF quote # Blank /\ @ = Blank THEN First(quote.options) ELSE @]
    /\ request' = [request EXCEPT ![r] = NoRequest]
    /\ NonePriced /\ UNCHANGED <<tariff, cache, pricing, kept, offered, used>>

PickService(service) ==
    /\ drawer.open /\ drawer.quote # Blank /\ drawer.service # service
    /\ service \in DOMAIN drawer.quote.options
    /\ drawer' = [drawer EXCEPT !.service = service]
    /\ NonePriced /\ UNCHANGED <<tariff, cache, pricing, request, kept, offered, used>>

\* The button asks for a quote only, be it of this cart or not.  An exported order is asked about once.
PressPlace(r) ==
    /\ drawer.open /\ drawer.quote # Blank /\ drawer.cart # Blank /\ drawer.sent = Blank
    /\ IF drawer.exported /\ ~drawer.confirm
       THEN drawer' = [drawer EXCEPT !.confirm = TRUE] /\ UNCHANGED <<request, used>>
       ELSE /\ drawer' = [drawer EXCEPT !.sent = r]
            /\ Begin(r, "place", drawer.cart, drawer.service, drawer.quote.options)
    /\ NonePriced /\ UNCHANGED <<tariff, cache, pricing, kept, offered>>

Dismiss ==
    /\ drawer.confirm
    /\ drawer' = [drawer EXCEPT !.confirm = FALSE]
    /\ NonePriced /\ UNCHANGED <<tariff, cache, pricing, request, kept, offered, used>>

CloseOrder ==
    /\ drawer.open
    /\ drawer' = NoDrawer
    /\ NonePriced /\ UNCHANGED <<tariff, cache, pricing, request, kept, offered, used>>

\* The order is placed at what the server rates now, and whatever drawer is open closes.
Placed(r) ==
    LET options == OptionsOf(r)
        seen == request[r].seen
    IN /\ request[r].kind = "place" /\ request[r].pc = "rated"
       /\ priced' = [cents |-> Chosen(options, request[r].service).cents,
                     promised |-> IF options = seen THEN Selected(seen, request[r].service).cents ELSE Blank]
       /\ drawer' = NoDrawer
       /\ request' = [request EXCEPT ![r] = NoRequest]
       /\ UNCHANGED <<tariff, cache, pricing, kept, offered, used>>

PlaceFails(r) ==
    /\ request[r].kind = "place"
    /\ drawer' = IF drawer.sent = r THEN [drawer EXCEPT !.sent = Blank, !.confirm = FALSE] ELSE drawer
    /\ request' = [request EXCEPT ![r] = NoRequest]
    /\ NonePriced /\ UNCHANGED <<tariff, cache, pricing, kept, offered, used>>

DrawerNext ==
    \/ \E r \in Requests : OpenOrder(r) \/ EditOrder(r) \/ Quoted(r) \/ PressPlace(r) \/ Placed(r) \/ PlaceFails(r)
    \/ \E service \in Services : PickService(service)
    \/ Dismiss \/ CloseOrder

-----------------------------------------------------------------------------

(* The checkout of the store, and the import of its order. *)

Checkouts(cart) == {r \in Requests : request[r].kind = "checkout" /\ request[r].cart = cart}

\* Checkouts of one cart that overlap may cross.
Checkout(r, cart) ==
    /\ request[r] = NoRequest /\ used.ratings < MaxRatings
    /\ used' = [used EXCEPT !.ratings = @ + 1]
    /\ request' = [q \in Requests |->
           IF q = r THEN Rating("checkout", cart, Blank, Blank, Checkouts(cart) = {})
           ELSE IF q \in Checkouts(cart) THEN [request[q] EXCEPT !.alone = FALSE] ELSE request[q]]
    /\ offered' = [offered EXCEPT ![cart] = Blank]
    /\ NonePriced /\ UNCHANGED <<tariff, cache, pricing, drawer, kept>>

\* A product is not listed, or a step fails: the flat rate is shown, and what was kept stays.
FallBack(r) ==
    /\ request[r].kind = "checkout"
    /\ request' = [request EXCEPT ![r] = NoRequest]
    /\ NonePriced /\ UNCHANGED <<tariff, cache, pricing, drawer, kept, offered, used>>

\* A quote replaces those of the same cart, in two statements.
Supersede(r) ==
    /\ request[r].kind = "checkout" /\ request[r].pc = "rated"
    /\ kept' = [kept EXCEPT ![Hash(request[r].cart)] = <<>>]
    /\ request' = [request EXCEPT ![r].pc = "cleared"]
    /\ NonePriced /\ UNCHANGED <<tariff, cache, pricing, drawer, offered, used>>

\* The fee of a row is that of its option: the flat rate has none.
QuoteRowOfPricing(o, p) == [carrier |-> o.carrier, fee |-> p.fee]
QuoteRow(o, p) == [carrier |-> o.carrier, fee |-> o.cents - o.carrier]
QuoteRows(options, p) == [s \in DOMAIN options |-> QuoteRow(options[s], p)]

KeepQuote(r) ==
    /\ request[r].kind = "checkout" /\ request[r].pc = "cleared"
    /\ kept' = [kept EXCEPT ![Hash(request[r].cart)] = Append(@, QuoteRows(OptionsOf(r), request[r].pricing))]
    /\ offered' = [offered EXCEPT ![request[r].cart] = IF request[r].alone THEN OptionsOf(r) ELSE Blank]
    /\ request' = [request EXCEPT ![r] = NoRequest]
    /\ NonePriced /\ UNCHANGED <<tariff, cache, pricing, drawer, used>>

\* The oldest quote of a cart outlives its time; it is swept later.
RowsExpire ==
    /\ used.revisions < MaxRevisions
    /\ \E h \in DOMAIN kept : kept[h] # <<>> /\ kept' = [kept EXCEPT ![h] = Tail(@)]
    /\ used' = [used EXCEPT !.revisions = @ + 1]
    /\ NonePriced /\ UNCHANGED <<tariff, cache, pricing, request, drawer, offered>>

\* The live batches of a cart that have the service.
Matches(cart, service) == {i \in DOMAIN kept[Hash(cart)] : service \in DOMAIN kept[Hash(cart)][i]}
Newest(cart, service) == kept[Hash(cart)][Max(Matches(cart, service))][service]

\* What the last checkout of the cart showed for a service.
Shown(cart, service) ==
    IF offered[cart] # Blank /\ service \in DOMAIN offered[cart] THEN offered[cart][service].cents ELSE Blank

\* The newest row is what the order reserves, and without one it is rated again.
Import(r, cart, service) ==
    LET row == Newest(cart, service)
    IN IF Matches(cart, service) = {}
       THEN /\ Begin(r, "import", cart, service, Blank)
            /\ NonePriced /\ UNCHANGED <<tariff, cache, pricing, drawer, kept, offered>>
       ELSE /\ priced' = [cents |-> row.carrier + row.fee, promised |-> Shown(cart, service)]
            /\ UNCHANGED <<tariff, cache, pricing, request, drawer, kept, offered, used>>

Imported(r) ==
    /\ request[r].kind = "import" /\ request[r].pc = "rated"
    /\ priced' = [cents |-> Chosen(OptionsOf(r), request[r].service).cents, promised |-> Blank]
    /\ request' = [request EXCEPT ![r] = NoRequest]
    /\ UNCHANGED <<tariff, cache, pricing, drawer, kept, offered, used>>

StoreNext ==
    \/ \E r \in Requests, cart \in Carts : Checkout(r, cart) \/ \E service \in Services \cup {Blank} : Import(r, cart, service)
    \/ \E r \in Requests : FallBack(r) \/ Supersede(r) \/ KeepQuote(r) \/ Imported(r)
    \/ RowsExpire

RatesNext ==
    \/ \E r \in Requests : Carrier(r)
    \/ \E k \in DOMAIN Tariffs : CacheExpires(k) \/ TariffChanges(k)
    \/ FeeChanges \/ RulesChange

-----------------------------------------------------------------------------

QuotesTypeOK ==
    /\ \A k \in DOMAIN Tariffs : tariff[k] \in Tariffs[k] /\ (cache[k] = Blank \/ cache[k] \in AllOffers \cup {Estimate})
    /\ pricing \in Pricings
    /\ \A r \in Requests : request[r] = NoRequest \/
           /\ request[r].kind \in {"quote", "place", "checkout", "import"} /\ request[r].cart \in Carts
           /\ request[r].pc \in {"asked", "rated", "cleared"}
           /\ request[r].raw = NoOffers <=> request[r].pc = "asked"
    /\ drawer.waits \in Requests => drawer.quoting /\ request[drawer.waits].kind = "quote"
    /\ drawer.sent \in Requests => request[drawer.sent].kind = "place"
    /\ ~drawer.open => drawer = NoDrawer
    /\ \A h \in DOMAIN kept : \A i \in DOMAIN kept[h] : DOMAIN kept[h][i] # {}

\* Without the hint that rates are being fetched, the drawer shows the price of what its form
\* holds, in whatever order the answers come (Orders.tsx:360, :498).
DrawerIsCurrent == ~drawer.quoting /\ drawer.quote # Blank => drawer.quote.cart = drawer.cart

\* An order costs the shipping that was shown for it: the drawer's if the server still rates as
\* it did, and the checkout's if that was the last one of the cart and no other crossed it
\* ("EXACT quoted shipping", rate-quote.ts:10; a fallback shown since is not quoted).
ChargedAsQuoted == priced # Blank => priced.promised \in {Blank, priced.cents}

\* A parcel is never priced with the rates of another one (rate-cache.ts:20-25).
RatesOfTheParcel ==
    \A r \in Requests : request[r].raw # NoOffers => request[r].raw \in Tariffs[RatedAs(request[r].cart)] \cup {Estimate}
=============================================================================
