----------------------------- MODULE MCAccounts -----------------------------
(***************************************************************************)
(* What happens to the account of a brand besides its orders: claims on    *)
(* shipped orders, events of Stripe and of the store, the membership, and  *)
(* what shipping is quoted and charged.                                    *)
(* A behaviour follows a scenario, chosen at its start, that says which of *)
(* them moves and how its requests meet.                                   *)
(***************************************************************************)
EXTENDS Claims, Webhooks, Subscription, ShippingQuotes, TLC

CONSTANT Scenarios

VARIABLE scenario

At(s) == scenario \in s

TopUpAndOrder == <<"topup", "order">>
TwoSubscriptions == <<"subscription", "subscription">>
WithFailures == {"fail"}
NoFailures == {}

\* What is shipped: small or large things, to one of two places.
Parcels == [small |-> "light", large |-> "heavy"]
Destined == {[items |-> "small", dest |-> "near"], [items |-> "small", dest |-> "far"], [items |-> "large", dest |-> "near"]}
Rates ==
    <<"light", "near">> :> {[ground |-> 1, fast |-> 3], <<>>}
 @@ <<"light", "far">> :> {[ground |-> 4]}
 @@ <<"heavy", "near">> :> {[fast |-> 5]}
Computed == [ground |-> 7]
Fees == {[fee |-> 1, services |-> {}], [fee |-> 2, services |-> {}], [fee |-> 1, services |-> {"fast"}]}

\* "resolutions": claims, and no triage meets a resolution; "queue": one request of claims at
\* a time; "triage": they meet in any way; "events": deliveries and runs of the worker meet, and
\* those after a restart come one at a time; "membership": on two days, where every date but the
\* first lies beyond the end.
Follows ==
    /\ At({"resolutions"}) => \A p \in Clerks : clerks[p].pc # "triage"
    /\ At({"membership"}) => today <= 1 /\ \A p \in Writers : writers[p].update.end \in {0, Never, Keep}
    /\ At({"events"}) /\ restarts > 0 => Cardinality({h \in DOMAIN runs : runs[h].pc # "idle"}) <= 1
    /\ At({"queue"}) => Cardinality({p \in Clerks : clerks[p] # AtRest}) <= 1

\* "drawer": orders to one place, with one change of prices; "checkout": orders of the small
\* things, with two ratings and two changes.
QuotesFollow ==
    /\ IF At({"drawer"}) THEN used.revisions <= 1 ELSE used.ratings <= 2
    /\ \A r \in Requests : request[r].cart # Blank => IF At({"drawer"}) THEN request[r].cart.dest = "near"
                                                      ELSE request[r].cart.items = "small"

MCInit ==
    /\ ClaimsInit /\ WebhooksInit /\ SubscriptionInit /\ QuotesInit /\ scenario \in Scenarios
    /\ pricing = [fee |-> 1, services |-> {}] /\ \A k \in DOMAIN Rates : tariff[k] # NoOffers

claimTables == <<claims, reships, clerks>>
eventTables == <<sub, imported, conn, rows, arrived, aged, runs, todo, answer, restarts>>

MCNext ==
    /\ UNCHANGED scenario
    /\ \/ At({"resolutions", "queue", "triage"}) /\ ClaimsNext /\ Follows'
          /\ UNCHANGED <<eventTables, subscriptionVars, quoteVars>>
       \/ At({"events"}) /\ WebhooksNext /\ Follows' /\ UNCHANGED <<claimTables, subscriptionVars, quoteVars>>
       \/ At({"membership"}) /\ SubscriptionNext /\ Follows'
          /\ UNCHANGED <<ledger, claimTables, eventTables, quoteVars>>
       \/ At({"drawer", "checkout"})
          /\ (RatesNext \/ (At({"drawer"}) /\ DrawerNext) \/ (At({"checkout"}) /\ StoreNext)) /\ QuotesFollow'
          /\ UNCHANGED <<ledger, claimTables, eventTables, subscriptionVars>>

MCSpec == MCInit /\ [][MCNext]_<<ledger, claimTables, eventTables, subscriptionVars, quoteVars, scenario>>

Symmetry == Permutations(Handlers) \cup Permutations(Writers)

-----------------------------------------------------------------------------

TypeOK ==
    /\ At({"resolutions", "queue", "triage"}) => ClaimsTypeOK
    /\ At({"events"}) => WebhooksTypeOK
    /\ At({"membership"}) => SubscriptionTypeOK
    /\ At({"drawer", "checkout"}) => QuotesTypeOK

\* A claim is credited and a top-up is booked at most once, however many administrators,
\* deliveries and runs of the worker try, at once or again (claims.ts:26, webhook.ts:89).
PaidOnce == CreditOnce /\ DepositOnce

\* A resolved claim has the remedy that it says, and no remedy is without its claim
\* (claims.ts:58 "no orphan reship").
RemedyGiven == CreditedIsBooked /\ NoOrphanReship

\* As long as one request is at work at a time, what the second shipments reserve is in the
\* wallet (wallet.ts:13).
QueueIsBacked == At({"queue"}) => ReshipBacked

\* Whichever of its four writers wrote last, the mirror and the dates agree with the status.
MembershipAgrees == MirrorAgrees /\ RecoveryClears

\* What shipping costs is what was shown, and for this very parcel (rate-quote.ts:10, rate-cache.ts:20).
PriceIsHonoured == DrawerIsCurrent /\ ChargedAsQuoted /\ RatesOfTheParcel
=============================================================================
