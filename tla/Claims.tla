------------------------------- MODULE Claims -------------------------------
(***************************************************************************)
(* Claims on shipped orders of one brand (services/claims.ts,              *)
(* routes/brand-claims.ts, routes/admin-claims.ts).  A claim is opened,    *)
(* triaged, and resolved by a wallet credit, a second shipment (a copy of  *)
(* the order, free or charged to the wallet) or a denial.  The credit is   *)
(* appended to the ledger, and the money of the second shipment is looked  *)
(* up, before the transaction that resolves the claim; a request may be    *)
(* lost at each of these awaits, and the administrator tries again.        *)
(***************************************************************************)
EXTENDS Wallet, FiniteSets, FiniteSetsExt

CONSTANTS
    ClaimIds,       \* ids of claims that may be opened
    Clerks,          \* requests that can be in flight at once
    Charges,        \* what the order of a claim has cost
    Amounts,        \* amounts an administrator credits
    TopUps,         \* payment ids of top-ups
    TopUpAmount,    \* amount of a top-up
    MaxReships      \* bound on the second shipments of a behaviour

ASSUME ClaimAmountsAssumption ==
    Charges \subseteq Nat /\ Amounts \subseteq Nat \ {0} /\ TopUpAmount \in Nat \ {0}
ASSUME ClaimKeysAssumption ==
    /\ \A c \in ClaimIds : CreditKey(c) # NoKey
    /\ \A t \in TopUps : TopUpKey(t) # NoKey
ASSUME BoundAssumption == MaxReships \in Nat

VARIABLES
    claims,     \* the claim table
    reships,    \* orders created to replace a shipment, in order
    clerks       \* what each request is doing

claimVars == <<ledger, claims, reships, clerks>>

-----------------------------------------------------------------------------

Unresolved == {"open", "investigating", "carrier_filed"}
Resolutions == {"credited", "reshipped", "denied"}

\* A row of the claim table, with the charge of its order.  reship is the
\* index of the second shipment, 0 for none.
Claim ==
    [status: Unresolved \cup {"absent", "resolved"},
     resolution: Resolutions \cup {"none"},
     charge: Charges \cup {0}, amount: Amounts \cup {0}, reship: Nat]

NoClaim ==
    [status |-> "absent", resolution |-> "none", charge |-> 0, amount |-> 0,
     reship |-> 0]

Reship ==
    [claim: ClaimIds, charge: Charges \cup {0}, blocker: {"none", "awaiting_funds"}]

AtRest ==
    [pc |-> "idle", claim |-> "none", resolution |-> "none", amount |-> 0,
     charge |-> 0, blocker |-> "none", to |-> "none"]

ClaimsTypeOK ==
    /\ ledger \in Seq(Entry({CreditKey(c) : c \in ClaimIds}
                            \cup {TopUpKey(t) : t \in TopUps}))
    /\ claims \in [ClaimIds -> Claim]
    /\ reships \in Seq(Reship)
    /\ \A p \in Clerks :
          /\ clerks[p].pc \in {"idle", "credit", "price", "gate", "triage"}
          /\ clerks[p] # AtRest => clerks[p].claim \in ClaimIds

ClaimsInit ==
    /\ ledger = <<>>
    /\ claims = [c \in ClaimIds |-> NoClaim]
    /\ reships = <<>>
    /\ clerks = [p \in Clerks |-> AtRest]

-----------------------------------------------------------------------------

Leave(p) == clerks' = [clerks EXCEPT ![p] = AtRest]

\* What the second shipments hold of the wallet (they are open orders).
Held ==
    MapThenSumSet(LAMBDA i : reships[i].charge,
                  {i \in DOMAIN reships : reships[i].blocker = "none"})

\* POST .../orders/:id/claims, by the brand or on its behalf, for a shipped
\* order that cost `charge`.  Nothing limits an order to one claim.
Open(c, charge) ==
    /\ claims[c].status = "absent"
    /\ claims' = [claims EXCEPT ![c] =
                    [NoClaim EXCEPT !.status = "open", !.charge = charge]]
    /\ UNCHANGED <<ledger, reships, clerks>>

\* A triage that does not refuse a resolved claim.
TriageReadUnchecked(p, c, to) ==
    /\ clerks[p] = AtRest
    /\ claims[c].status # "absent"
    /\ clerks' = [clerks EXCEPT ![p] = [AtRest EXCEPT !.pc = "triage", !.claim = c, !.to = to]]
    /\ UNCHANGED <<ledger, claims, reships>>

\* The status of a triage that names none is written too.
TriageWriteAlways(p) ==
    /\ clerks[p].pc = "triage"
    /\ claims' = [claims EXCEPT ![clerks[p].claim].status = clerks[p].to]
    /\ Leave(p)
    /\ UNCHANGED <<ledger, reships>>

\* PATCH /api/admin/claims/:id reads the claim and refuses a resolved one ...
TriageRead(p, c, to) ==
    /\ clerks[p] = AtRest
    /\ claims[c].status \in Unresolved
    /\ clerks' = [clerks EXCEPT ![p] = [AtRest EXCEPT !.pc = "triage", !.claim = c, !.to = to]]
    /\ UNCHANGED <<ledger, claims, reships>>

\* ... and then updates its status, if the triage names one (it may only
\* record the carrier's claim id), whatever it is by now.
TriageWrite(p) ==
    /\ clerks[p].pc = "triage"
    /\ claims' = IF clerks[p].to = "none" THEN claims
                 ELSE [claims EXCEPT ![clerks[p].claim].status = clerks[p].to]
    /\ Leave(p)
    /\ UNCHANGED <<ledger, reships>>

-----------------------------------------------------------------------------

\* resolveClaim reads the claim and refuses a resolved one.  A credit names an
\* amount; a second shipment is free (comp) or costs what the order cost.
ResolveRead(p, c, resolution, amount, comp) ==
    /\ clerks[p] = AtRest
    /\ claims[c].status \in Unresolved
    /\ amount # 0 <=> resolution = "credited"
    /\ comp => resolution = "reshipped"
    /\ LET charge == IF resolution = "reshipped" /\ ~comp THEN claims[c].charge ELSE 0 IN
       clerks' = [clerks EXCEPT ![p] =
         [AtRest EXCEPT !.pc = IF resolution = "credited" THEN "credit"
                             ELSE IF charge > 0 THEN "price" ELSE "gate",
                      !.claim = c, !.resolution = resolution,
                      !.amount = amount, !.charge = charge]]
    /\ UNCHANGED <<ledger, claims, reships>>

\* A credit whose append may fail without stopping the request.
CreditSwallowed(p) ==
    /\ clerks[p].pc = "credit"
    /\ \/ AppendEntry("refund_credit", clerks[p].amount, CreditKey(clerks[p].claim))
       \/ UNCHANGED ledger
    /\ clerks' = [clerks EXCEPT ![p].pc = "gate"]
    /\ UNCHANGED <<claims, reships>>

\* The credit is appended in a transaction of its own, before the gate; a
\* replay for the same claim returns the row that is there.
Credit(p) ==
    /\ clerks[p].pc = "credit"
    /\ AppendEntry("refund_credit", clerks[p].amount, CreditKey(clerks[p].claim))
    /\ clerks' = [clerks EXCEPT ![p].pc = "gate"]
    /\ UNCHANGED <<claims, reships>>

\* The money is not looked at.
PriceUnchecked(p) ==
    /\ clerks[p].pc = "price"
    /\ clerks' = [clerks EXCEPT ![p].pc = "gate"]
    /\ UNCHANGED <<ledger, claims, reships>>

\* The blocker of a charged second shipment is decided outside the
\* transaction and without the brand's lock (getWalletSummary).
Price(p) ==
    /\ clerks[p].pc = "price"
    /\ clerks' = [clerks EXCEPT ![p].pc = "gate",
         ![p].blocker = IF GetBalance - Held < clerks[p].charge
                        THEN "awaiting_funds" ELSE "none"]
    /\ UNCHANGED <<ledger, claims, reships>>

\* What the resolving transaction writes once it is past the gate.
Resolve(p) ==
    LET r == clerks[p]
        reshipped == r.resolution = "reshipped" IN
    /\ reshipped => Len(reships) < MaxReships
    /\ reships' = IF reshipped
                  THEN Append(reships, [claim |-> r.claim, charge |-> r.charge,
                                        blocker |-> r.blocker])
                  ELSE reships
    /\ claims' = [claims EXCEPT
         ![r.claim].status = "resolved",
         ![r.claim].resolution = r.resolution,
         ![r.claim].amount = r.amount,
         ![r.claim].reship = IF reshipped THEN Len(reships') ELSE 0]

\* The transaction without its gate.
GateUngated(p) ==
    /\ clerks[p].pc = "gate"
    /\ Resolve(p)
    /\ Leave(p)
    /\ UNCHANGED ledger

\* The resolving transaction: it flips a claim that is not resolved, or
\* answers 409 and changes nothing.
Gate(p) ==
    /\ clerks[p].pc = "gate"
    /\ \/ /\ claims[clerks[p].claim].status # "resolved"
          /\ Resolve(p)
       \/ /\ claims[clerks[p].claim].status = "resolved"
          /\ UNCHANGED <<claims, reships>>
    /\ Leave(p)
    /\ UNCHANGED ledger

-----------------------------------------------------------------------------

\* A request is lost between two awaits: the process dies, or the next
\* statement fails and rolls its transaction back.
LoseRequest(p) ==
    /\ clerks[p] # AtRest
    /\ Leave(p)
    /\ UNCHANGED <<ledger, claims, reships>>

\* The brand tops its wallet up.
Deposit(t) ==
    /\ ~Booked(TopUpKey(t))
    /\ AppendEntry("deposit", TopUpAmount, TopUpKey(t))
    /\ UNCHANGED <<claims, reships, clerks>>

ClaimsNext ==
    \/ \E c \in ClaimIds, charge \in Charges : Open(c, charge)
    \/ \E p \in Clerks, c \in ClaimIds, to \in Unresolved \cup {"none"} :
          TriageRead(p, c, to)
    \/ \E p \in Clerks, c \in ClaimIds, resolution \in Resolutions,
          amount \in Amounts \cup {0}, comp \in BOOLEAN :
          ResolveRead(p, c, resolution, amount, comp)
    \/ \E p \in Clerks :
          TriageWrite(p) \/ Credit(p) \/ Price(p) \/ Gate(p) \/ LoseRequest(p)
    \/ \E t \in TopUps : Deposit(t)

-----------------------------------------------------------------------------

\* A claim is credited at most once, however many administrators resolve it
\* at once, with whatever amounts, and however often one tries again after
\* the append went through and the rest did not (claims.ts:26).
CreditOnce ==
    \A c \in ClaimIds :
        Cardinality({i \in DOMAIN ledger : ledger[i].key = CreditKey(c)}) <= 1

\* A claim that says it was credited has its credit in the ledger: the gate is
\* not passed before the append.
CreditedIsBooked ==
    \A c \in ClaimIds :
        claims[c].status = "resolved" /\ claims[c].resolution = "credited"
            => Booked(CreditKey(c))

\* Every second shipment is the one its claim records: a request that lost
\* the race, or that died, leaves none behind (claims.ts:58, "no orphan
\* reship").
NoOrphanReship ==
    \A i \in DOMAIN reships :
        LET c == claims[reships[i].claim] IN
        c.status = "resolved" /\ c.resolution = "reshipped" /\ c.reship = i

\* A resolved claim stays as it was resolved: of two administrators with two
\* different remedies one decides, and the other leaves no trace on it.
ResolvedIsFinal ==
    [][\A c \in ClaimIds :
          claims[c].status = "resolved" => claims'[c] = claims[c]]_claimVars

\* A claim is shipped again at most once (claims.ts:57).
OneReship ==
    \A i, j \in DOMAIN reships : reships[i].claim = reships[j].claim => i = j

\* What the second shipments reserve is in the wallet (wallet.ts:13).
ReshipBacked == Held <= GetBalance

=============================================================================
