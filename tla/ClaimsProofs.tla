---------------------------- MODULE ClaimsProofs ----------------------------
(***************************************************************************)
(* Proofs about Claims, for any number of claims, administrators, amounts  *)
(* and top-ups: a claim is credited at most once, and no later than it     *)
(* says so; and, as long as no triage meets a resolution, a resolved claim *)
(* stays as it is and every second shipment is the one its claim records;  *)
(* and, as long as one request is at work at a time, the wallet covers     *)
(* what the second shipments hold.                                         *)
(***************************************************************************)
EXTENDS Claims, WalletProofs

ClaimsSpec == ClaimsInit /\ [][ClaimsNext]_claimVars

\* A triage is at work while no other request is.
TriageAlone ==
    \A p \in Clerks : clerks[p].pc = "triage"
                        => \A q \in Clerks : q # p => clerks[q] = AtRest

-----------------------------------------------------------------------------

ClaimKeys == {CreditKey(c) : c \in ClaimIds} \cup {TopUpKey(t) : t \in TopUps}

Clerk ==
    [pc: {"idle", "credit", "price", "gate", "triage"},
     claim: ClaimIds \cup {"none"}, resolution: Resolutions \cup {"none"},
     amount: Amounts \cup {0}, charge: Charges \cup {0},
     blocker: {"none", "awaiting_funds"}, to: Unresolved \cup {"none"}]

ClaimsShape ==
    /\ ledger \in Seq(Entry(ClaimKeys))
    /\ claims \in [ClaimIds -> Claim]
    /\ reships \in Seq(Reship)
    /\ clerks \in [Clerks -> Clerk]
    /\ \A p \in Clerks : clerks[p] # AtRest => clerks[p].claim \in ClaimIds

\* A request comes to the gate with a credit only after the append.
BookedAtGate ==
    \A p \in Clerks :
        /\ clerks[p].pc = "gate" /\ clerks[p].resolution = "credited"
              => Booked(CreditKey(clerks[p].claim))
        /\ clerks[p].pc = "price" => clerks[p].resolution # "credited"

\* The inductive invariant of claims, however their requests meet.
ClaimsInv == ClaimsShape /\ UniqueKeys /\ BookedAtGate /\ CreditedIsBooked

\* What a triage has read is still so.
TriageIsFresh ==
    \A p \in Clerks : clerks[p].pc = "triage"
                        => claims[clerks[p].claim].status \in Unresolved

\* The inductive invariant of claims when no triage meets another request.
SerialInv == ClaimsInv /\ TriageAlone /\ TriageIsFresh /\ NoOrphanReship

-----------------------------------------------------------------------------

LEMMA RestShape == AtRest \in Clerk /\ AtRest.pc = "idle" /\ NoClaim \in Claim
BY DEF AtRest, Clerk, NoClaim, Claim

\* The request that a read leaves behind.
LEMMA ReadEffect ==
    ASSUME ClaimsShape, NEW p \in Clerks, NEW c \in ClaimIds,
           \/ \E to \in Unresolved \cup {"none"} : TriageRead(p, c, to)
           \/ \E resolution \in Resolutions, amount \in Amounts \cup {0},
                 comp \in BOOLEAN : ResolveRead(p, c, resolution, amount, comp)
    PROVE  /\ clerks[p] = AtRest /\ claims[c].status \in Unresolved
           /\ UNCHANGED <<ledger, claims, reships>>
           /\ \E r \in Clerk :
                /\ clerks' = [clerks EXCEPT ![p] = r]
                /\ r.claim = c /\ r.pc # "idle"
                /\ r.pc \in {"gate", "price"} => r.resolution # "credited"
                /\ r.pc = "credit" => r.resolution = "credited"
                /\ r.pc = "gate" => r.charge = 0
<1>1. ASSUME NEW to \in Unresolved \cup {"none"}, TriageRead(p, c, to)
      PROVE  \E r \in Clerk :
               /\ clerks' = [clerks EXCEPT ![p] = r]
               /\ r.claim = c /\ r.pc = "triage"
  <2>1. PICK r : r = [AtRest EXCEPT !.pc = "triage", !.claim = c, !.to = to]
    OBVIOUS
  <2>2. r \in Clerk /\ r.claim = c /\ r.pc = "triage"
    BY <2>1 DEF AtRest, Clerk
  <2>3. QED
    BY <1>1, <2>1, <2>2 DEF TriageRead
<1>2. ASSUME NEW resolution \in Resolutions, NEW amount \in Amounts \cup {0},
             NEW comp \in BOOLEAN, ResolveRead(p, c, resolution, amount, comp)
      PROVE  \E r \in Clerk :
               /\ clerks' = [clerks EXCEPT ![p] = r]
               /\ r.claim = c /\ r.pc # "idle"
               /\ r.pc \in {"gate", "price"} => r.resolution # "credited"
               /\ r.pc = "credit" => r.resolution = "credited"
               /\ r.pc = "gate" => r.charge = 0
  <2>1. PICK charge \in Charges \cup {0} :
           charge = IF resolution = "reshipped" /\ ~comp THEN claims[c].charge ELSE 0
    BY DEF ClaimsShape, Claim
  <2>2. PICK pc \in {"credit", "price", "gate"} :
           pc = IF resolution = "credited" THEN "credit"
                ELSE IF charge > 0 THEN "price" ELSE "gate"
    OBVIOUS
  <2>3. PICK r : r = [AtRest EXCEPT !.pc = pc, !.claim = c, !.resolution = resolution,
                                    !.amount = amount, !.charge = charge]
    OBVIOUS
  <2>4. r \in Clerk /\ r.claim = c /\ r.pc = pc /\ r.resolution = resolution /\ r.charge = charge
    BY <2>3 DEF AtRest, Clerk
  <2>5. clerks' = [clerks EXCEPT ![p] = r]
    BY <1>2, <2>1, <2>2, <2>3 DEF ResolveRead
  <2>6. pc = "gate" => charge = 0
    <3>1. \A x \in Charges \cup {0} : x > 0 \/ x = 0
      BY ClaimAmountsAssumption
    <3>2. QED
      BY <2>2, <3>1
  <2>7. QED
    BY <2>2, <2>4, <2>5, <2>6
<1>3. QED
  BY <1>1, <1>2 DEF TriageRead, ResolveRead

\* What the wallet is asked to append, if anything.
LEMMA ClaimAppends ==
    ASSUME ClaimsShape, ClaimsNext
    PROVE  \/ ledger' = ledger
           \/ \E type \in EntryTypes, amount \in Int, k \in ClaimKeys :
                AppendEntry(type, amount, k)
<1>1. ASSUME NEW p \in Clerks, Credit(p)
      PROVE  /\ clerks[p].amount \in Int /\ CreditKey(clerks[p].claim) \in ClaimKeys
             /\ AppendEntry("refund_credit", clerks[p].amount, CreditKey(clerks[p].claim))
  <2>1. clerks[p] \in Clerk /\ clerks[p].claim \in ClaimIds
    BY <1>1, RestShape DEF Credit, ClaimsShape
  <2>2. clerks[p].amount \in Amounts \cup {0}
    BY <2>1 DEF Clerk
  <2>3. QED
    BY <1>1, <2>1, <2>2, ClaimAmountsAssumption DEF Credit, ClaimKeys
<1>2. ASSUME NEW t \in TopUps, Deposit(t)
      PROVE  /\ TopUpAmount \in Int /\ TopUpKey(t) \in ClaimKeys
             /\ AppendEntry("deposit", TopUpAmount, TopUpKey(t))
  BY <1>2, ClaimAmountsAssumption DEF Deposit, ClaimKeys
<1>3. {"refund_credit", "deposit"} \subseteq EntryTypes
  BY DEF EntryTypes
<1>4. QED
  BY <1>1, <1>2, <1>3
     DEF ClaimsNext, Open, TriageRead, ResolveRead, TriageWrite, Price, Gate, LoseRequest

LEMMA ClaimLedgerStep ==
    ASSUME ClaimsShape, ClaimsNext
    PROVE  /\ ledger' \in Seq(Entry(ClaimKeys))
           /\ UniqueKeys => UniqueKeys'
           /\ \A x : Booked(x) => Booked(x)'
<1>0. ledger \in Seq(Entry(ClaimKeys))
  BY DEF ClaimsShape
<1>1. CASE ledger' = ledger
  BY <1>0, <1>1 DEF UniqueKeys, Booked
<1>2. ASSUME NEW type \in EntryTypes, NEW amount \in Int, NEW k \in ClaimKeys,
             AppendEntry(type, amount, k)
      PROVE  /\ ledger' \in Seq(Entry(ClaimKeys))
             /\ UniqueKeys => UniqueKeys'
             /\ \A x : Booked(x) => Booked(x)'
  BY <1>0, <1>2, AppendEffect, AppendKeepsUnique, AppendIsBooked
<1>3. QED
  BY <1>1, <1>2, ClaimAppends

-----------------------------------------------------------------------------

\* What the gate does: nothing, or it resolves a claim that was not resolved
\* with the request's remedy, and adds its second shipment, if that is one.
LEMMA GateEffect ==
    ASSUME ClaimsShape, NEW p \in Clerks, Gate(p)
    PROVE  /\ clerks[p].pc = "gate" /\ clerks[p].claim \in ClaimIds
           /\ clerks' = [clerks EXCEPT ![p] = AtRest] /\ UNCHANGED ledger
           /\ \/ UNCHANGED <<claims, reships>>
              \/ /\ claims[clerks[p].claim].status # "resolved"
                 /\ \E row \in Claim :
                      /\ claims' = [claims EXCEPT ![clerks[p].claim] = row]
                      /\ row.status = "resolved"
                      /\ row.resolution = clerks[p].resolution
                      /\ row.reship = IF clerks[p].resolution = "reshipped"
                                      THEN Len(reships) + 1 ELSE 0
                 /\ \/ clerks[p].resolution # "reshipped" /\ UNCHANGED reships
                    \/ /\ clerks[p].resolution = "reshipped"
                       /\ \E s \in Reship : /\ reships' = Append(reships, s)
                                            /\ s.claim = clerks[p].claim
                                            /\ s.charge = clerks[p].charge
                                            /\ s.blocker = clerks[p].blocker
<1>. DEFINE r == clerks[p]
            c == clerks[p].claim
<1>0. clerks[p].pc = "gate" /\ clerks' = [clerks EXCEPT ![p] = AtRest] /\ UNCHANGED ledger
  BY DEF Gate, Leave
<1>1. clerks[p] \in Clerk /\ clerks[p].claim \in ClaimIds
  BY <1>0, RestShape DEF ClaimsShape
<1>2. claims[c] \in Claim /\ claims \in [ClaimIds -> Claim] /\ Len(reships) \in Nat
  BY <1>1 DEF ClaimsShape
<1>3. CASE claims[c].status # "resolved" /\ Resolve(p)
  <2>1. CASE r.resolution = "reshipped"
    <3>1. PICK s : /\ s = [claim |-> r.claim, charge |-> r.charge, blocker |-> r.blocker]
                   /\ reships' = Append(reships, s)
      BY <1>3, <2>1 DEF Resolve
    <3>2. s \in Reship /\ s.claim = c /\ s.charge = r.charge /\ s.blocker = r.blocker
      BY <1>1, <3>1 DEF Reship, Clerk
    <3>3. PICK n \in Nat : n = Len(reships') /\ n = Len(reships) + 1
      BY <3>1, <3>2 DEF ClaimsShape
    <3>4. PICK row : row = [claims[c] EXCEPT !.status = "resolved",
               !.resolution = r.resolution, !.amount = r.amount, !.reship = n]
      OBVIOUS
    <3>5. claims' = [claims EXCEPT ![c] = row]
      BY <1>2, <1>3, <2>1, <3>3, <3>4 DEF Resolve
    <3>6. row \in Claim /\ row.status = "resolved" /\ row.resolution = r.resolution
            /\ row.reship = n
      BY <1>1, <1>2, <3>4 DEF Claim, Clerk, Resolutions
    <3>7. QED
      BY <1>0, <1>1, <1>3, <2>1, <3>1, <3>2, <3>3, <3>5, <3>6
  <2>2. CASE r.resolution # "reshipped"
    <3>1. PICK row : row = [claims[c] EXCEPT !.status = "resolved",
               !.resolution = r.resolution, !.amount = r.amount, !.reship = 0]
      OBVIOUS
    <3>2. claims' = [claims EXCEPT ![c] = row] /\ reships' = reships
      BY <1>2, <1>3, <2>2, <3>1 DEF Resolve
    <3>3. row \in Claim /\ row.status = "resolved" /\ row.resolution = r.resolution
            /\ row.reship = 0
      BY <1>1, <1>2, <3>1 DEF Claim, Clerk, Resolutions
    <3>4. QED
      BY <1>0, <1>1, <1>3, <2>2, <3>2, <3>3
  <2>3. QED
    BY <2>1, <2>2
<1>4. QED
  BY <1>0, <1>1, <1>3 DEF Gate

\* How a row of the claim table can change in one step.
LEMMA ClaimMoves ==
    ASSUME ClaimsShape, ClaimsNext, NEW c \in ClaimIds
    PROVE  \/ claims'[c] = claims[c]
           \/ claims[c].status = "absent" /\ claims'[c].status = "open"
           \/ \E p \in Clerks :
                /\ clerks[p].pc = "triage" /\ clerks[p].claim = c
                /\ claims'[c].status \in Unresolved
           \/ \E p \in Clerks :
                /\ clerks[p].pc = "gate" /\ clerks[p].claim = c
                /\ claims[c].status # "resolved"
                /\ claims'[c].status = "resolved"
                /\ claims'[c].resolution = clerks[p].resolution
                /\ claims'[c].reship = IF clerks[p].resolution = "reshipped"
                                       THEN Len(reships) + 1 ELSE 0
<1>0. claims \in [ClaimIds -> Claim] /\ clerks \in [Clerks -> Clerk]
  BY DEF ClaimsShape
<1>1. ASSUME NEW d \in ClaimIds, NEW charge \in Charges, Open(d, charge)
      PROVE  claims'[c] = claims[c] \/ (claims[c].status = "absent" /\ claims'[c].status = "open")
  BY <1>0, <1>1 DEF Open, NoClaim
<1>2. ASSUME NEW p \in Clerks, TriageWrite(p), claims'[c] # claims[c]
      PROVE  /\ clerks[p].pc = "triage" /\ clerks[p].claim = c
             /\ claims'[c].status \in Unresolved
  <2>1. clerks[p].to \in Unresolved \cup {"none"} /\ clerks[p].to # "none"
    BY <1>0, <1>2 DEF TriageWrite, Clerk
  <2>2. claims' = [claims EXCEPT ![clerks[p].claim].status = clerks[p].to]
    BY <1>2, <2>1 DEF TriageWrite
  <2>3. clerks[p].claim = c /\ claims'[c].status = clerks[p].to
    BY <1>0, <1>2, <2>2 DEF Claim
  <2>4. QED
    BY <1>2, <2>1, <2>3 DEF TriageWrite
<1>3. ASSUME NEW p \in Clerks, Gate(p), claims'[c] # claims[c]
      PROVE  /\ clerks[p].pc = "gate" /\ clerks[p].claim = c
             /\ claims[c].status # "resolved"
             /\ claims'[c].status = "resolved"
             /\ claims'[c].resolution = clerks[p].resolution
             /\ claims'[c].reship = IF clerks[p].resolution = "reshipped"
                                    THEN Len(reships) + 1 ELSE 0
  BY <1>0, <1>3, GateEffect
<1>4. QED
  BY <1>1, <1>2, <1>3
     DEF ClaimsNext, TriageRead, ResolveRead, Credit, Price, LoseRequest, Deposit

\* How a request can change in one step.
LEMMA ClerkMoves ==
    ASSUME ClaimsShape, ClaimsNext, NEW q \in Clerks
    PROVE  /\ clerks'[q] \in Clerk
           /\ \/ clerks'[q] = clerks[q]
              \/ clerks'[q] = AtRest
              \/ /\ clerks[q] = AtRest /\ UNCHANGED <<claims, reships>>
                 /\ clerks'[q].claim \in ClaimIds
                 /\ claims[clerks'[q].claim].status \in Unresolved
                 /\ clerks'[q].pc \in {"gate", "price"} => clerks'[q].resolution # "credited"
              \/ /\ clerks[q].pc \in {"credit", "price"} /\ clerks'[q].pc = "gate"
                 /\ UNCHANGED <<claims, reships>>
                 /\ clerks'[q].claim = clerks[q].claim
                 /\ clerks'[q].resolution = clerks[q].resolution
                 /\ clerks[q].pc = "credit" => Booked(CreditKey(clerks[q].claim))'
<1>0. clerks \in [Clerks -> Clerk] /\ ledger \in Seq(Entry(ClaimKeys))
  BY DEF ClaimsShape
<1>. USE RestShape
<1>. DEFINE Good ==
           /\ clerks'[q] \in Clerk
           /\ \/ clerks'[q] = clerks[q]
              \/ clerks'[q] = AtRest
              \/ /\ clerks[q] = AtRest /\ UNCHANGED <<claims, reships>>
                 /\ clerks'[q].claim \in ClaimIds
                 /\ claims[clerks'[q].claim].status \in Unresolved
                 /\ clerks'[q].pc \in {"gate", "price"} => clerks'[q].resolution # "credited"
              \/ /\ clerks[q].pc \in {"credit", "price"} /\ clerks'[q].pc = "gate"
                 /\ UNCHANGED <<claims, reships>>
                 /\ clerks'[q].claim = clerks[q].claim
                 /\ clerks'[q].resolution = clerks[q].resolution
                 /\ clerks[q].pc = "credit" => Booked(CreditKey(clerks[q].claim))'
<1>1. UNCHANGED clerks => Good
  BY <1>0
<1>2. ASSUME NEW p \in Clerks, clerks' = [clerks EXCEPT ![p] = AtRest] PROVE Good
  BY <1>0, <1>2
<1>3. ASSUME NEW p \in Clerks, NEW c \in ClaimIds,
             \/ \E to \in Unresolved \cup {"none"} : TriageRead(p, c, to)
             \/ \E resolution \in Resolutions, amount \in Amounts \cup {0},
                   comp \in BOOLEAN : ResolveRead(p, c, resolution, amount, comp)
      PROVE  Good
  <2>1. PICK r \in Clerk : /\ clerks' = [clerks EXCEPT ![p] = r]
                           /\ r.claim = c /\ r.pc # "idle"
                           /\ r.pc \in {"gate", "price"} => r.resolution # "credited"
    BY <1>3, ReadEffect
  <2>2. clerks[p] = AtRest /\ claims[c].status \in Unresolved
          /\ UNCHANGED <<ledger, claims, reships>>
    BY <1>3, ReadEffect
  <2>3. CASE q = p
    BY <1>0, <2>1, <2>2, <2>3
  <2>4. CASE q # p
    BY <1>0, <2>1, <2>4
  <2>5. QED
    BY <2>3, <2>4
<1>4. ASSUME NEW p \in Clerks, Credit(p) PROVE Good
  <2>1. PICK r : r = [clerks[p] EXCEPT !.pc = "gate"]
    OBVIOUS
  <2>2. r \in Clerk /\ r.pc = "gate" /\ r.claim = clerks[p].claim
          /\ r.resolution = clerks[p].resolution
    BY <1>0, <2>1 DEF Clerk
  <2>3. clerks' = [clerks EXCEPT ![p] = r] /\ clerks[p].pc = "credit"
          /\ UNCHANGED <<claims, reships>>
    BY <1>0, <1>4, <2>1 DEF Credit
  <2>4. Booked(CreditKey(clerks[p].claim))'
    <3>1. clerks[p].claim \in ClaimIds /\ clerks[p].amount \in Amounts \cup {0}
      BY <1>0, <2>3 DEF ClaimsShape, Clerk
    <3>2. CreditKey(clerks[p].claim) \in ClaimKeys /\ clerks[p].amount \in Int
      BY <3>1, ClaimAmountsAssumption DEF ClaimKeys
    <3>3. AppendEntry("refund_credit", clerks[p].amount, CreditKey(clerks[p].claim))
      BY <1>4 DEF Credit
    <3>4. PICK k : k = CreditKey(clerks[p].claim)
      OBVIOUS
    <3>5. Booked(k)'
      BY <1>0, <3>2, <3>3, <3>4, AppendIsBooked DEF EntryTypes
    <3>6. clerks'[p].claim = clerks[p].claim
      BY <1>0, <2>2, <2>3
    <3>7. QED
      BY <3>4, <3>5, <3>6 DEF Booked, CreditKey
  <2>5. QED
    BY <1>0, <2>2, <2>3, <2>4
<1>5. ASSUME NEW p \in Clerks, Price(p) PROVE Good
  <2>1. PICK b \in {"none", "awaiting_funds"} :
           b = IF GetBalance - Held < clerks[p].charge THEN "awaiting_funds" ELSE "none"
    OBVIOUS
  <2>2. PICK r : r = [clerks[p] EXCEPT !.pc = "gate", !.blocker = b]
    OBVIOUS
  <2>3. r \in Clerk /\ r.pc = "gate" /\ r.claim = clerks[p].claim
          /\ r.resolution = clerks[p].resolution
    BY <1>0, <2>2 DEF Clerk
  <2>4. clerks' = [clerks EXCEPT ![p] = r] /\ clerks[p].pc = "price"
          /\ UNCHANGED <<claims, reships>>
    BY <1>0, <1>5, <2>1, <2>2 DEF Price
  <2>5. QED
    BY <1>0, <2>3, <2>4
<1>6. QED
  BY <1>1, <1>2, <1>3, <1>4, <1>5, GateEffect
     DEF ClaimsNext, Open, TriageWrite, Leave, LoseRequest, Deposit

\* How the second shipments can change in one step.
LEMMA ReshipMoves ==
    ASSUME ClaimsShape, ClaimsNext
    PROVE  \/ UNCHANGED reships
           \/ \E p \in Clerks, s \in Reship :
                /\ clerks[p].pc = "gate" /\ clerks[p].claim \in ClaimIds
                /\ clerks[p].resolution = "reshipped"
                /\ claims[clerks[p].claim].status # "resolved"
                /\ reships' = Append(reships, s) /\ s.claim = clerks[p].claim
                /\ claims'[s.claim].status = "resolved"
                /\ claims'[s.claim].resolution = "reshipped"
                /\ claims'[s.claim].reship = Len(reships) + 1
<1>0. claims \in [ClaimIds -> Claim]
  BY DEF ClaimsShape
<1>1. ASSUME NEW p \in Clerks, Gate(p), reships' # reships
      PROVE  \E s \in Reship :
                /\ clerks[p].pc = "gate" /\ clerks[p].claim \in ClaimIds
                /\ clerks[p].resolution = "reshipped"
                /\ claims[clerks[p].claim].status # "resolved"
                /\ reships' = Append(reships, s) /\ s.claim = clerks[p].claim
                /\ claims'[s.claim].status = "resolved"
                /\ claims'[s.claim].resolution = "reshipped"
                /\ claims'[s.claim].reship = Len(reships) + 1
  BY <1>0, <1>1, GateEffect
<1>2. QED
  BY <1>1
     DEF ClaimsNext, Open, TriageRead, ResolveRead, TriageWrite, Credit, Price, LoseRequest,
         Deposit

LEMMA ClaimsShapeStep ==
    ASSUME ClaimsShape, ClaimsNext
    PROVE  ClaimsShape'
<1>0. claims \in [ClaimIds -> Claim] /\ reships \in Seq(Reship) /\ clerks \in [Clerks -> Clerk]
  BY DEF ClaimsShape
<1>1. claims' \in [ClaimIds -> Claim]
  <2>1. ASSUME NEW c \in ClaimIds, NEW charge \in Charges, Open(c, charge)
        PROVE  claims' \in [ClaimIds -> Claim]
    <3>1. PICK row : row = [NoClaim EXCEPT !.status = "open", !.charge = charge]
      OBVIOUS
    <3>2. row \in Claim
      BY <3>1 DEF NoClaim, Claim, Unresolved
    <3>3. QED
      BY <1>0, <2>1, <3>1, <3>2 DEF Open
  <2>2. ASSUME NEW p \in Clerks, TriageWrite(p)
        PROVE  claims' \in [ClaimIds -> Claim]
    <3>1. CASE clerks[p].to = "none"
      BY <1>0, <2>2, <3>1 DEF TriageWrite
    <3>2. CASE clerks[p].to # "none"
      <4>1. clerks[p].claim \in ClaimIds /\ clerks[p].to \in Unresolved
        BY <1>0, <2>2, <3>2, RestShape DEF ClaimsShape, TriageWrite, Clerk
      <4>2. PICK row : row = [claims[clerks[p].claim] EXCEPT !.status = clerks[p].to]
        OBVIOUS
      <4>3. row \in Claim
        BY <1>0, <4>1, <4>2, ZenonT(40) DEF Claim
      <4>4. claims' = [claims EXCEPT ![clerks[p].claim] = row]
        BY <1>0, <2>2, <3>2, <4>1, <4>2 DEF TriageWrite
      <4>5. QED
        BY <1>0, <4>1, <4>3, <4>4
    <3>3. QED
      BY <3>1, <3>2
  <2>3. ASSUME NEW p \in Clerks, Gate(p)
        PROVE  claims' \in [ClaimIds -> Claim]
    BY <1>0, <2>3, GateEffect
  <2>4. QED
    BY <1>0, <2>1, <2>2, <2>3
       DEF ClaimsNext, TriageRead, ResolveRead, Credit, Price, LoseRequest, Deposit
<1>2. reships' \in Seq(Reship)
  BY <1>0, ReshipMoves
<1>3. clerks' \in [Clerks -> Clerk]
  <2>1. DOMAIN clerks' = Clerks /\ clerks' = [q \in Clerks |-> clerks'[q]]
    BY <1>0, ZenonT(40)
       DEF ClaimsNext, Open, TriageRead, ResolveRead, TriageWrite, Credit, Price, Gate,
           LoseRequest, Leave, Deposit
  <2>2. \A q \in Clerks : clerks'[q] \in Clerk
    BY ClerkMoves
  <2>3. QED
    BY <2>1, <2>2
<1>4. ASSUME NEW q \in Clerks, clerks'[q] # AtRest PROVE clerks'[q].claim \in ClaimIds
  BY <1>4, ClerkMoves, RestShape DEF ClaimsShape
<1>5. QED
  BY <1>1, <1>2, <1>3, <1>4, ClaimLedgerStep DEF ClaimsShape

-----------------------------------------------------------------------------

LEMMA BookedAtGateStep ==
    ASSUME ClaimsShape, BookedAtGate, ClaimsNext
    PROVE  BookedAtGate'
<1> SUFFICES ASSUME NEW q \in Clerks
             PROVE  /\ clerks'[q].pc = "gate" /\ clerks'[q].resolution = "credited"
                         => Booked(CreditKey(clerks[q].claim))'
                    /\ clerks'[q].pc = "price" => clerks'[q].resolution # "credited"
  BY DEF BookedAtGate
<1>1. CASE clerks'[q] = clerks[q]
  <2>1. PICK k : k = CreditKey(clerks[q].claim)
    OBVIOUS
  <2>2. Booked(k) => Booked(k)'
    BY ClaimLedgerStep
  <2>3. QED
    BY <1>1, <2>1, <2>2 DEF BookedAtGate, Booked, CreditKey
<1>2. CASE clerks'[q] = AtRest
  BY <1>2, RestShape
<1>3. CASE /\ clerks[q].pc \in {"credit", "price"} /\ clerks'[q].pc = "gate"
           /\ clerks'[q].claim = clerks[q].claim
           /\ clerks'[q].resolution = clerks[q].resolution
           /\ clerks[q].pc = "credit" => Booked(CreditKey(clerks[q].claim))'
  BY <1>3 DEF BookedAtGate
<1>4. QED
  BY <1>1, <1>2, <1>3, ClerkMoves

LEMMA CreditedIsBookedStep ==
    ASSUME ClaimsShape, BookedAtGate, CreditedIsBooked, ClaimsNext
    PROVE  CreditedIsBooked'
<1> SUFFICES ASSUME NEW c \in ClaimIds,
                    claims'[c].status = "resolved", claims'[c].resolution = "credited"
             PROVE  Booked(CreditKey(c))'
  BY DEF CreditedIsBooked
<1>1. Booked(CreditKey(c)) => Booked(CreditKey(c))'
  BY ClaimLedgerStep
<1>2. CASE claims'[c] = claims[c]
  BY <1>1, <1>2 DEF CreditedIsBooked
<1>3. ASSUME NEW p \in Clerks, clerks[p].pc = "gate", clerks[p].claim = c,
             claims'[c].resolution = clerks[p].resolution
      PROVE  Booked(CreditKey(c))'
  BY <1>1, <1>3 DEF BookedAtGate
<1>4. "resolved" \notin Unresolved
  BY DEF Unresolved
<1>5. QED
  BY <1>2, <1>3, <1>4, ClaimMoves

LEMMA ClaimsInvInit == ClaimsInit => ClaimsInv
<1> SUFFICES ASSUME ClaimsInit PROVE ClaimsInv
  OBVIOUS
<1>1. ClaimsShape
  BY RestShape DEF ClaimsInit, ClaimsShape
<1>2. UniqueKeys
  BY DEF ClaimsInit, UniqueKeys
<1>3. BookedAtGate /\ CreditedIsBooked
  BY RestShape DEF ClaimsInit, BookedAtGate, CreditedIsBooked, NoClaim
<1>4. QED
  BY <1>1, <1>2, <1>3 DEF ClaimsInv

LEMMA ClaimsInvStep ==
    ASSUME ClaimsInv, ClaimsNext
    PROVE  ClaimsInv'
BY ClaimsShapeStep, ClaimLedgerStep, BookedAtGateStep, CreditedIsBookedStep DEF ClaimsInv

LEMMA UniqueKeysCreditOnce ==
    ASSUME NEW S, ledger \in Seq(S), UniqueKeys
    PROVE  CreditOnce
BY OneRow, ClaimKeysAssumption DEF CreditOnce

\* A claim is credited at most once, and a claim that says it was credited
\* has its credit in the ledger, however administrators and triages meet and
\* wherever their requests are lost (resolveClaim: the credit is appended,
\* under the claim's id, before the transaction that resolves the claim).
THEOREM CreditsAreSafe == ClaimsSpec => [](CreditOnce /\ CreditedIsBooked)
<1>1. ClaimsInit => ClaimsInv
  BY ClaimsInvInit
<1>2. ClaimsInv /\ [ClaimsNext]_claimVars => ClaimsInv'
  <2>1. ASSUME ClaimsInv, UNCHANGED claimVars PROVE ClaimsInv'
    BY <2>1
       DEF claimVars, ClaimsInv, ClaimsShape, UniqueKeys, BookedAtGate, CreditedIsBooked, Booked
  <2>2. QED
    BY <2>1, ClaimsInvStep
<1>3. ClaimsInv => CreditOnce /\ CreditedIsBooked
  BY UniqueKeysCreditOnce DEF ClaimsInv, ClaimsShape
<1>4. QED
  BY <1>1, <1>2, <1>3, PTL DEF ClaimsSpec

-----------------------------------------------------------------------------

\* A resolved claim is not touched, unless by a triage that read it before.
LEMMA ResolvedStays ==
    ASSUME ClaimsShape, TriageIsFresh, ClaimsNext, NEW c \in ClaimIds,
           claims[c].status = "resolved"
    PROVE  claims'[c] = claims[c]
BY ClaimMoves DEF TriageIsFresh, Unresolved

\* A request that reads a claim while a triage is at work would meet it: so
\* what the triage read is still so when it writes.
LEMMA TriageIsFreshStep ==
    ASSUME ClaimsShape, TriageAlone, TriageIsFresh, ClaimsNext
    PROVE  TriageIsFresh'
<1> SUFFICES ASSUME NEW q \in Clerks, clerks'[q].pc = "triage"
             PROVE  claims'[clerks'[q].claim].status \in Unresolved
  BY DEF TriageIsFresh
<1>1. CASE clerks'[q] = clerks[q]
  <2>1. PICK c \in ClaimIds : c = clerks[q].claim
    BY <1>1, RestShape DEF ClaimsShape
  <2>2. claims[c].status \in Unresolved /\ clerks[q].pc = "triage"
    BY <1>1, <2>1 DEF TriageIsFresh
  <2>3. CASE claims'[c] = claims[c]
    BY <1>1, <2>1, <2>2, <2>3
  <2>4. CASE claims[c].status = "absent"
    BY <2>2, <2>4 DEF Unresolved
  <2>5. CASE claims'[c].status \in Unresolved
    BY <1>1, <2>1, <2>5
  <2>6. ASSUME NEW p \in Clerks, clerks[p].pc = "gate" PROVE FALSE
    <3>1. p # q /\ clerks[p] # AtRest
      BY <2>2, <2>6, RestShape
    <3>2. QED
      BY <2>2, <3>1 DEF TriageAlone
  <2>7. QED
    BY <2>3, <2>4, <2>5, <2>6, ClaimMoves
<1>2. CASE clerks'[q] = AtRest
  BY <1>2, RestShape
<1>3. CASE /\ UNCHANGED <<claims, reships>>
           /\ claims[clerks'[q].claim].status \in Unresolved
  BY <1>3
<1>4. QED
  BY <1>1, <1>2, <1>3, ClerkMoves

LEMMA NoOrphanReshipStep ==
    ASSUME ClaimsShape, TriageIsFresh, NoOrphanReship, ClaimsNext
    PROVE  NoOrphanReship'
<1>0. reships \in Seq(Reship) /\ Len(reships) \in Nat
  BY DEF ClaimsShape
<1>1. ASSUME NEW i \in 1..Len(reships)
      PROVE  /\ reships[i].claim \in ClaimIds
             /\ claims[reships[i].claim].status = "resolved"
             /\ claims'[reships[i].claim] = claims[reships[i].claim]
             /\ claims[reships[i].claim].resolution = "reshipped"
             /\ claims[reships[i].claim].reship = i
  <2>1. i \in DOMAIN reships /\ reships[i] \in Reship
    BY <1>0
  <2>2. reships[i].claim \in ClaimIds
    BY <2>1 DEF Reship
  <2>3. claims[reships[i].claim].status = "resolved"
          /\ claims[reships[i].claim].resolution = "reshipped"
          /\ claims[reships[i].claim].reship = i
    BY <2>1 DEF NoOrphanReship
  <2>4. QED
    BY <2>2, <2>3, ResolvedStays
<1>2. CASE UNCHANGED reships
  BY <1>0, <1>1, <1>2 DEF NoOrphanReship
<1>3. ASSUME NEW s \in Reship, reships' = Append(reships, s),
             claims'[s.claim].status = "resolved",
             claims'[s.claim].resolution = "reshipped",
             claims'[s.claim].reship = Len(reships) + 1
      PROVE  NoOrphanReship'
  <2> SUFFICES ASSUME NEW i \in 1..(Len(reships) + 1)
               PROVE  /\ claims'[reships'[i].claim].status = "resolved"
                      /\ claims'[reships'[i].claim].resolution = "reshipped"
                      /\ claims'[reships'[i].claim].reship = i
    BY <1>0, <1>3 DEF NoOrphanReship
  <2>1. CASE i \in 1..Len(reships)
    <3>1. reships'[i] = reships[i]
      BY <1>0, <1>3, <2>1
    <3>2. QED
      BY <1>1, <2>1, <3>1
  <2>2. CASE i = Len(reships) + 1
    <3>1. reships'[i] = s
      BY <1>0, <1>3, <2>2
    <3>2. QED
      BY <1>3, <2>2, <3>1
  <2>3. QED
    BY <1>0, <2>1, <2>2
<1>4. QED
  BY <1>2, <1>3, ReshipMoves

LEMMA SerialInvInit == ClaimsInit => SerialInv
<1> SUFFICES ASSUME ClaimsInit PROVE SerialInv
  OBVIOUS
<1>1. TriageAlone /\ TriageIsFresh
  BY RestShape DEF ClaimsInit, TriageAlone, TriageIsFresh
<1>2. NoOrphanReship
  BY DEF ClaimsInit, NoOrphanReship
<1>3. QED
  BY <1>1, <1>2, ClaimsInvInit DEF SerialInv

LEMMA SerialInvStep ==
    ASSUME SerialInv, ClaimsNext, TriageAlone'
    PROVE  SerialInv'
BY ClaimsInvStep, TriageIsFreshStep, NoOrphanReshipStep DEF SerialInv, ClaimsInv

\* Claims when no triage meets another request, as an administrator alone at
\* the desk works on them.
SerialSpec == ClaimsInit /\ [][ClaimsNext /\ TriageAlone']_claimVars

LEMMA SerialInvHolds == SerialSpec => []SerialInv
<1>1. ClaimsInit => SerialInv
  BY SerialInvInit
<1>2. SerialInv /\ [ClaimsNext /\ TriageAlone']_claimVars => SerialInv'
  <2>1. ASSUME SerialInv, UNCHANGED claimVars PROVE SerialInv'
    BY <2>1
       DEF claimVars, SerialInv, ClaimsInv, ClaimsShape, UniqueKeys, BookedAtGate,
           CreditedIsBooked, Booked, TriageAlone, TriageIsFresh, NoOrphanReship
  <2>2. QED
    BY <2>1, SerialInvStep
<1>3. QED
  BY <1>1, <1>2, PTL DEF SerialSpec

\* Of two administrators with two remedies one decides: a resolved claim
\* stays as it was resolved, and every second shipment is the one its claim
\* records (the transaction of resolveClaim is gated on the claim's status).
THEOREM OneRemedy == SerialSpec => []NoOrphanReship /\ ResolvedIsFinal
<1>1. SerialInv => NoOrphanReship
  BY DEF SerialInv
<1>2. SerialInv /\ [ClaimsNext /\ TriageAlone']_claimVars
        => [\A c \in ClaimIds :
              claims[c].status = "resolved" => claims'[c] = claims[c]]_claimVars
  BY ResolvedStays DEF SerialInv, ClaimsInv
<1>3. QED
  BY <1>1, <1>2, SerialInvHolds, PTL DEF SerialSpec, ResolvedIsFinal

-----------------------------------------------------------------------------

\* The second shipments that hold money.
Holding(f) == {i \in DOMAIN f : f[i].blocker = "none"}

LEMMA ReshipsHeld ==
    Held = ChargeSum(reships, Holding(reships)) /\ Held' = ChargeSum(reships', Holding(reships'))
BY Zenon DEF Held, ChargeSum, Holding, MapThenSumSet, MapThenFoldSet

LEMMA HoldingFinite ==
    ASSUME NEW f \in Seq(Reship)
    PROVE  /\ IsFiniteSet(Holding(f))
           /\ \A i \in DOMAIN f : f[i] \in Reship /\ f[i].charge \in Nat
<1>1. IsFiniteSet(1..Len(f))
  BY FS_Interval
<1>2. Holding(f) \subseteq 1..Len(f)
  BY DEF Holding
<1>3. \A x \in Charges \cup {0} : x \in Nat
  BY ClaimAmountsAssumption
<1>4. ASSUME NEW i \in DOMAIN f PROVE f[i] \in Reship /\ f[i].charge \in Nat
  <2>1. f[i] \in Reship
    OBVIOUS
  <2>2. f[i].charge \in Charges \cup {0}
    BY <2>1 DEF Reship
  <2>3. QED
    BY <1>3, <2>1, <2>2
<1>5. QED
  BY <1>1, <1>2, <1>4, FS_Subset

LEMMA HoldingNat ==
    ASSUME NEW f \in Seq(Reship)
    PROVE  ChargeSum(f, Holding(f)) \in Nat
<1>1. \A i \in Holding(f) : f[i].charge \in Nat
  BY HoldingFinite DEF Holding
<1>2. QED
  BY <1>1, HoldingFinite, ChargeSumNat

\* One more second shipment holds its charge, unless it waits for funds.
LEMMA HoldingAdds ==
    ASSUME NEW f \in Seq(Reship), NEW s \in Reship
    PROVE  ChargeSum(Append(f, s), Holding(Append(f, s)))
             = ChargeSum(f, Holding(f)) + (IF s.blocker = "none" THEN s.charge ELSE 0)
<1>1. PICK n \in Nat : n = Len(f)
  OBVIOUS
<1>2. PICK g : g = Append(f, s)
  OBVIOUS
<1>3. /\ g \in Seq(Reship) /\ g = Append(f, s) /\ DOMAIN g = 1..(n + 1) /\ g[n + 1] = s
      /\ DOMAIN f = 1..n /\ \A i \in 1..n : g[i] = f[i]
  BY <1>1, <1>2
<1>4. n + 1 \notin Holding(f) /\ \A i \in Holding(f) : g[i] = f[i] /\ i \in 1..n
  BY <1>3 DEF Holding
<1>5. Holding(g) = IF s.blocker = "none" THEN Holding(f) \cup {n + 1} ELSE Holding(f)
  BY <1>3 DEF Holding
<1>6. ChargeSum(g, Holding(f)) = ChargeSum(f, Holding(f))
  BY <1>4, HoldingFinite, ChargeSumAgree
<1>7. CASE s.blocker = "none"
  <2>1. Holding(g) \ {n + 1} = Holding(f) /\ n + 1 \in Holding(g)
    BY <1>4, <1>5, <1>7
  <2>2. \A i \in Holding(g) : g[i].charge \in Nat
    BY <1>3, HoldingFinite DEF Holding
  <2>3. PICK H : H = Holding(g) /\ IsFiniteSet(H)
    BY <1>3, HoldingFinite
  <2>4. (\A i \in H : g[i].charge \in Nat) /\ n + 1 \in H /\ H \ {n + 1} = Holding(f)
    BY <2>1, <2>2, <2>3
  <2>5. ChargeSum(g, H) = g[n + 1].charge + ChargeSum(g, H \ {n + 1})
    BY <2>3, <2>4, ChargeSumSplit
  <2>6. ChargeSum(g, Holding(g)) = g[n + 1].charge + ChargeSum(g, Holding(f))
    BY <2>3, <2>4, <2>5
  <2>7. s.charge \in Nat
    BY <1>3, HoldingFinite
  <2>8. QED
    BY <1>3, <1>6, <1>7, <2>6, <2>7, HoldingNat
<1>8. CASE s.blocker # "none"
  BY <1>3, <1>5, <1>6, <1>8, HoldingNat
<1>9. QED
  BY <1>7, <1>8

\* One request is at work at a time.
ClerkAlone == \A p, q \in Clerks : clerks[p] # AtRest /\ clerks[q] # AtRest => p = q

\* A charged second shipment that is past the look at the money finds it still there.
CoveredAtGate ==
    \A p \in Clerks :
        /\ clerks[p].pc = "credit" => clerks[p].resolution = "credited"
        /\ clerks[p].pc = "gate" /\ clerks[p].resolution = "reshipped" /\ clerks[p].blocker = "none"
             => Held + clerks[p].charge <= GetBalance

\* An append of the claims takes nothing out of the wallet.
LEMMA ClaimBalance ==
    ASSUME ClaimsShape
    PROVE  /\ GetBalance \in Int /\ Held \in Nat
           /\ UNCHANGED ledger => UNCHANGED GetBalance
           /\ UNCHANGED reships => UNCHANGED Held
           /\ \A p \in Clerks : Credit(p) => GetBalance' \in Int /\ GetBalance' >= GetBalance
           /\ \A t \in TopUps : Deposit(t) => GetBalance' \in Int /\ GetBalance' >= GetBalance
<1>0. /\ ledger \in Seq(Entry(ClaimKeys)) /\ clerks \in [Clerks -> Clerk] /\ reships \in Seq(Reship)
      /\ "deposit" \in EntryTypes /\ "refund_credit" \in EntryTypes
  BY DEF ClaimsShape, EntryTypes
<1>1. GetBalance \in Int
  BY <1>0, BalanceTyped
<1>2. Held \in Nat
  BY <1>0, ReshipsHeld, HoldingNat
<1>3. UNCHANGED ledger => UNCHANGED GetBalance
  BY DEF GetBalance
<1>4. UNCHANGED reships => UNCHANGED Held
  BY ReshipsHeld
<1>5. ASSUME NEW type \in EntryTypes, NEW amount \in Nat, NEW k \in ClaimKeys, AppendEntry(type, amount, k)
      PROVE  GetBalance' \in Int /\ GetBalance' >= GetBalance
  BY <1>0, <1>1, <1>5, AppendBalance
<1>6. ASSUME NEW p \in Clerks, Credit(p) PROVE GetBalance' \in Int /\ GetBalance' >= GetBalance
  <2>1. clerks[p] \in Clerk /\ clerks[p].claim \in ClaimIds
    BY <1>0, <1>6, RestShape DEF Credit, ClaimsShape
  <2>2. \A x \in Amounts \cup {0} : x \in Nat
    BY ClaimAmountsAssumption
  <2>3. clerks[p].amount \in Nat /\ CreditKey(clerks[p].claim) \in ClaimKeys
    BY <2>1, <2>2 DEF Clerk, ClaimKeys
  <2>4. QED
    BY <1>0, <1>5, <1>6, <2>3 DEF Credit
<1>7. ASSUME NEW t \in TopUps, Deposit(t) PROVE GetBalance' \in Int /\ GetBalance' >= GetBalance
  BY <1>0, <1>5, <1>7, ClaimAmountsAssumption DEF Deposit, ClaimKeys
<1>8. QED
  BY <1>1, <1>2, <1>3, <1>4, <1>6, <1>7

LEMMA CoveredStep ==
    ASSUME ClaimsShape, ClerkAlone, ClerkAlone', CoveredAtGate, ReshipBacked, ClaimsNext
    PROVE  CoveredAtGate' /\ ReshipBacked'
<1>0. /\ clerks \in [Clerks -> Clerk] /\ reships \in Seq(Reship) /\ AtRest.pc = "idle"
      /\ GetBalance \in Int /\ Held \in Nat /\ Held <= GetBalance
      /\ \A x \in Charges \cup {0} : x \in Nat
  BY ClaimBalance, RestShape, ClaimAmountsAssumption DEF ClaimsShape, ReshipBacked
<1>1. \A p \in Clerks : clerks[p].charge \in Nat
  BY <1>0 DEF Clerk
<1> DEFINE Fine(q) ==
             /\ clerks'[q].pc = "credit" => clerks'[q].resolution = "credited"
             /\ clerks'[q].pc = "gate" /\ clerks'[q].resolution = "reshipped" /\ clerks'[q].blocker = "none"
                  => Held' + clerks'[q].charge <= GetBalance'
<1>2. ASSUME NEW p \in Clerks, \A q \in Clerks : q # p => clerks'[q] = clerks[q],
             clerks[p] # AtRest \/ clerks'[p] # AtRest, Fine(p)
      PROVE  CoveredAtGate'
  <2>1. ASSUME NEW q \in Clerks PROVE Fine(q)
    <3>1. CASE q = p
      BY <1>2, <3>1
    <3>2. CASE q # p
      <4>1. clerks'[q] = AtRest
        BY <1>2, <3>2 DEF ClerkAlone
      <4>2. QED
        BY <1>0, <4>1
    <3>3. QED
      BY <3>1, <3>2
  <2>2. QED
    BY <2>1 DEF CoveredAtGate
<1>3. ASSUME UNCHANGED <<reships, clerks>>, GetBalance' \in Int, GetBalance' >= GetBalance
      PROVE  CoveredAtGate' /\ ReshipBacked'
  <2>1. Held' = Held
    BY <1>3, ClaimBalance
  <2>2. ReshipBacked'
    BY <1>0, <1>3, <2>1 DEF ReshipBacked
  <2>3. ASSUME NEW q \in Clerks PROVE Fine(q)
    BY <1>0, <1>1, <1>3, <2>1 DEF CoveredAtGate
  <2>4. QED
    BY <2>2, <2>3 DEF CoveredAtGate
<1>4. ASSUME NEW c \in ClaimIds, NEW charge \in Charges, Open(c, charge)
      PROVE  CoveredAtGate' /\ ReshipBacked'
  BY <1>0, <1>3, <1>4, ClaimBalance DEF Open
<1>5. ASSUME NEW t \in TopUps, Deposit(t) PROVE CoveredAtGate' /\ ReshipBacked'
  BY <1>3, <1>5, ClaimBalance DEF Deposit
<1>6. ASSUME NEW p \in Clerks, NEW c \in ClaimIds,
             \/ \E to \in Unresolved \cup {"none"} : TriageRead(p, c, to)
             \/ \E resolution \in Resolutions, amount \in Amounts \cup {0},
                   comp \in BOOLEAN : ResolveRead(p, c, resolution, amount, comp)
      PROVE  CoveredAtGate' /\ ReshipBacked'
  <2>1. PICK r \in Clerk : /\ clerks' = [clerks EXCEPT ![p] = r]
                           /\ r.pc # "idle"
                           /\ r.pc = "credit" => r.resolution = "credited"
                           /\ r.pc = "gate" => r.charge = 0
    BY <1>6, ReadEffect
  <2>2. UNCHANGED <<ledger, reships>>
    BY <1>6, ReadEffect
  <2>3. Held' = Held /\ GetBalance' = GetBalance
    BY <2>2, ClaimBalance
  <2>4. clerks'[p] = r /\ \A q \in Clerks : q # p => clerks'[q] = clerks[q]
    BY <1>0, <2>1
  <2>5. CoveredAtGate'
    BY <1>0, <1>2, <2>1, <2>3, <2>4
  <2>6. QED
    BY <1>0, <2>3, <2>5 DEF ReshipBacked
<1>7. ASSUME NEW p \in Clerks, TriageWrite(p) \/ LoseRequest(p) PROVE CoveredAtGate' /\ ReshipBacked'
  <2>1. /\ clerks[p] # AtRest /\ clerks'[p] = AtRest
        /\ \A q \in Clerks : q # p => clerks'[q] = clerks[q]
        /\ UNCHANGED <<ledger, reships>>
    BY <1>0, <1>7 DEF TriageWrite, LoseRequest, Leave
  <2>2. Held' = Held /\ GetBalance' = GetBalance
    BY <2>1, ClaimBalance
  <2>3. CoveredAtGate'
    BY <1>0, <1>2, <2>1
  <2>4. QED
    BY <1>0, <2>2, <2>3 DEF ReshipBacked
<1>8. ASSUME NEW p \in Clerks, Credit(p) PROVE CoveredAtGate' /\ ReshipBacked'
  <2>1. clerks[p].pc = "credit" /\ clerks[p] # AtRest /\ UNCHANGED reships
    BY <1>0, <1>8 DEF Credit
  <2>2. clerks[p].resolution = "credited"
    BY <2>1 DEF CoveredAtGate
  <2>3. PICK r : r = [clerks[p] EXCEPT !.pc = "gate"]
    OBVIOUS
  <2>4. r.pc = "gate" /\ r.resolution = "credited"
    BY <1>0, <2>2, <2>3 DEF Clerk
  <2>5. clerks'[p] = r /\ \A q \in Clerks : q # p => clerks'[q] = clerks[q]
    BY <1>0, <1>8, <2>3 DEF Credit
  <2>6. CoveredAtGate'
    BY <1>2, <2>1, <2>4, <2>5
  <2>7. Held' = Held /\ GetBalance' \in Int /\ GetBalance' >= GetBalance
    BY <1>8, <2>1, ClaimBalance
  <2>8. QED
    BY <1>0, <2>6, <2>7 DEF ReshipBacked
<1>9. ASSUME NEW p \in Clerks, Price(p) PROVE CoveredAtGate' /\ ReshipBacked'
  <2>1. clerks[p].pc = "price" /\ clerks[p] # AtRest /\ UNCHANGED <<ledger, reships>>
    BY <1>0, <1>9 DEF Price
  <2>2. PICK b : b = IF GetBalance - Held < clerks[p].charge THEN "awaiting_funds" ELSE "none"
    OBVIOUS
  <2>3. PICK r : r = [clerks[p] EXCEPT !.pc = "gate", !.blocker = b]
    OBVIOUS
  <2>4. r.pc = "gate" /\ r.charge = clerks[p].charge /\ r.blocker = b
    BY <1>0, <2>3 DEF Clerk
  <2>5. clerks'[p] = r /\ \A q \in Clerks : q # p => clerks'[q] = clerks[q]
    BY <1>0, <1>9, <2>2, <2>3 DEF Price
  <2>6. Held' = Held /\ GetBalance' = GetBalance
    BY <2>1, ClaimBalance
  <2>7. b = "none" => Held + clerks[p].charge <= GetBalance
    BY <1>0, <1>1, <2>2
  <2>8. CoveredAtGate'
    BY <1>2, <2>1, <2>4, <2>5, <2>6, <2>7
  <2>9. QED
    BY <1>0, <2>6, <2>8 DEF ReshipBacked
<1>10. ASSUME NEW p \in Clerks, Gate(p) PROVE CoveredAtGate' /\ ReshipBacked'
  <2>1. /\ clerks[p].pc = "gate" /\ clerks' = [clerks EXCEPT ![p] = AtRest] /\ UNCHANGED ledger
        /\ \/ UNCHANGED reships
           \/ /\ clerks[p].resolution = "reshipped"
              /\ \E s \in Reship : /\ reships' = Append(reships, s)
                                   /\ s.charge = clerks[p].charge /\ s.blocker = clerks[p].blocker
    BY <1>10, GateEffect
  <2>2. /\ clerks[p] # AtRest /\ clerks'[p] = AtRest
        /\ \A q \in Clerks : q # p => clerks'[q] = clerks[q]
    BY <1>0, <2>1
  <2>3. CoveredAtGate'
    BY <1>0, <1>2, <2>2
  <2>4. GetBalance' = GetBalance
    BY <2>1, ClaimBalance
  <2>5. CASE UNCHANGED reships
    BY <1>0, <2>3, <2>4, <2>5, ClaimBalance DEF ReshipBacked
  <2>6. ASSUME NEW s \in Reship, reships' = Append(reships, s), clerks[p].resolution = "reshipped",
               s.charge = clerks[p].charge, s.blocker = clerks[p].blocker
        PROVE  ReshipBacked'
    <3>1. Held' = Held + (IF s.blocker = "none" THEN s.charge ELSE 0)
      BY <1>0, <2>6, ReshipsHeld, HoldingAdds
    <3>2. s.blocker = "none" => Held + s.charge <= GetBalance
      BY <2>1, <2>6 DEF CoveredAtGate
    <3>3. QED
      BY <1>0, <2>4, <3>1, <3>2 DEF ReshipBacked
  <2>7. QED
    BY <2>1, <2>3, <2>5, <2>6
<1>11. QED
  BY <1>4, <1>5, <1>6, <1>7, <1>8, <1>9, <1>10 DEF ClaimsNext

LEMMA CoveredInit == ClaimsInit => ClerkAlone /\ CoveredAtGate /\ ReshipBacked
<1> SUFFICES ASSUME ClaimsInit PROVE ClerkAlone /\ CoveredAtGate /\ ReshipBacked
  OBVIOUS
<1>1. ClerkAlone /\ CoveredAtGate
  BY RestShape DEF ClaimsInit, ClerkAlone, CoveredAtGate
<1>2. Holding(reships) = {}
  BY DEF ClaimsInit, Holding
<1>3. Held = 0 /\ GetBalance = 0
  BY <1>2, ReshipsHeld, ChargeSumEmpty DEF ClaimsInit, GetBalance
<1>4. QED
  BY <1>1, <1>3 DEF ReshipBacked

\* As long as one request of claims is at work at a time, what the second shipments hold is
\* in the wallet: the look at the money, outside the transaction that creates the order, is
\* still true when it does (resolveClaim, wallet.ts:13).
THEOREM ReshipsAreBacked ==
    ClaimsInit /\ [][ClaimsNext /\ ClerkAlone']_claimVars => []ReshipBacked
<1> DEFINE I == ClaimsInv /\ ClerkAlone /\ CoveredAtGate /\ ReshipBacked
<1>1. ClaimsInit => I
  BY ClaimsInvInit, CoveredInit
<1>2. I /\ [ClaimsNext /\ ClerkAlone']_claimVars => I'
  <2>1. ASSUME I, UNCHANGED claimVars PROVE I'
    <3>1. ClaimsInv'
      BY <2>1
         DEF claimVars, ClaimsInv, ClaimsShape, UniqueKeys, BookedAtGate, CreditedIsBooked, Booked
    <3>2. Held' = Held /\ GetBalance' = GetBalance
      BY <2>1, ClaimBalance DEF claimVars, ClaimsInv
    <3>3. QED
      BY <2>1, <3>1, <3>2 DEF claimVars, ClerkAlone, CoveredAtGate, ReshipBacked
  <2>2. QED
    BY <2>1, ClaimsInvStep, CoveredStep DEF ClaimsInv
<1>3. I => ReshipBacked
  OBVIOUS
<1> HIDE DEF I
<1>4. QED
  BY <1>1, <1>2, <1>3, PTL

=============================================================================
