---------------------------- MODULE LedgerAppend ----------------------------
(***************************************************************************)
(* appendEntry of apps/api/src/services/wallet.ts, statement by statement: *)
(* every movement of wallet money (a top-up, a capture on ship, a claim's  *)
(* credit, an administrator's adjustment) is one transaction that takes    *)
(* the brand's advisory lock, looks the external id up, reads the running  *)
(* balance, refuses to overdraw and inserts a row.                         *)
(*                                                                         *)
(* The lock is per brand and the unique index on external_id is global, so *)
(* two brands never wait for each other and still cannot share an id.      *)
(***************************************************************************)
EXTENDS Integers, Sequences

CONSTANTS
    Brands,     \* brands with a wallet
    Procs,      \* API requests and workers that append
    Requests,   \* what they append: records [brand, amount, key]
    NoKey,      \* external id of an append that has none
    NoProc,     \* holder of a free lock
    NoRequest   \* the request of an idle process

ASSUME RequestsAssumption ==
    Requests \subseteq [brand: Brands, amount: Int, key: {r.key : r \in Requests}]
ASSUME NoProcAssumption == NoProc \notin Procs

VARIABLES
    ledger,     \* committed rows of each brand, in seq order
    lock,       \* holder of each brand's advisory lock
    procs       \* what each process is doing

vars == <<ledger, lock, procs>>

Keys == {r.key : r \in Requests}
Amounts == {r.amount : r \in Requests}

Row == [amount: Int, balanceAfter: Int, key: Keys]
Idle == [pc |-> "idle", req |-> NoRequest, bal |-> 0]

TypeOK ==
    /\ ledger \in [Brands -> Seq(Row)]
    /\ lock \in [Brands -> Procs \cup {NoProc}]
    /\ procs \in [Procs -> {Idle} \cup
                           [pc: {"lock", "check", "read", "insert"},
                            req: Requests, bal: Int]]

Init ==
    /\ ledger = [b \in Brands |-> <<>>]
    /\ lock = [b \in Brands |-> NoProc]
    /\ procs = [p \in Procs |-> Idle]

-----------------------------------------------------------------------------

\* The running balance of the row with the greatest seq, 0 without rows.
BalanceOf(b) ==
    IF ledger[b] = <<>> THEN 0 ELSE ledger[b][Len(ledger[b])].balanceAfter

\* The external id is in the (global) unique index.
Booked(k) ==
    k # NoKey /\ \E b \in Brands : \E i \in 1..Len(ledger[b]) : ledger[b][i].key = k

Goto(p, pc) == procs' = [procs EXCEPT ![p].pc = pc]

\* The transaction ends, by commit or by rollback, and frees its lock.
EndTransaction(p) ==
    /\ procs' = [procs EXCEPT ![p] = Idle]
    /\ lock' = [b \in Brands |-> IF lock[b] = p THEN NoProc ELSE lock[b]]

Begin(p, r) ==
    /\ procs[p] = Idle
    /\ procs' = [procs EXCEPT ![p] = [pc |-> "lock", req |-> r, bal |-> 0]]
    /\ UNCHANGED <<ledger, lock>>

\* An append that does not wait for the lock.
TakeLockUnlocked(p) ==
    /\ procs[p].pc = "lock"
    /\ lock' = [lock EXCEPT ![procs[p].req.brand] = p]
    /\ Goto(p, "check")
    /\ UNCHANGED ledger

\* pg_advisory_xact_lock waits until nobody holds the brand's lock.
TakeLock(p) ==
    /\ procs[p].pc = "lock"
    /\ lock[procs[p].req.brand] = NoProc
    /\ lock' = [lock EXCEPT ![procs[p].req.brand] = p]
    /\ Goto(p, "check")
    /\ UNCHANGED ledger

\* The early return on a duplicate leaves the transaction open.
FindDuplicateHolds(p) ==
    /\ procs[p].pc = "check"
    /\ Goto(p, IF Booked(procs[p].req.key) THEN "returned" ELSE "read")
    /\ UNCHANGED <<ledger, lock>>

\* An external id already booked returns its row and appends nothing.
FindDuplicate(p) ==
    /\ procs[p].pc = "check"
    /\ IF Booked(procs[p].req.key)
       THEN EndTransaction(p)
       ELSE Goto(p, "read") /\ UNCHANGED lock
    /\ UNCHANGED ledger

\* The balance is read; an append that would overdraw it throws.
ReadBalance(p) ==
    /\ procs[p].pc = "read"
    /\ IF BalanceOf(procs[p].req.brand) + procs[p].req.amount < 0
       THEN EndTransaction(p)
       ELSE /\ procs' = [procs EXCEPT ![p].pc = "insert",
                                      ![p].bal = BalanceOf(procs[p].req.brand)]
            /\ UNCHANGED lock
    /\ UNCHANGED ledger

\* The insert without the unique index.
InsertUnindexed(p) ==
    LET r == procs[p].req IN
    /\ procs[p].pc = "insert"
    /\ ledger' = [ledger EXCEPT ![r.brand] =
                     Append(@, [amount |-> r.amount,
                                balanceAfter |-> procs[p].bal + r.amount,
                                key |-> r.key])]
    /\ EndTransaction(p)

\* The row is inserted and committed, unless the unique index refuses it: an
\* append of another brand, which holds another lock, took the id first.
Insert(p) ==
    LET r == procs[p].req IN
    /\ procs[p].pc = "insert"
    /\ ledger' =
         IF Booked(r.key)
         THEN ledger
         ELSE [ledger EXCEPT ![r.brand] =
                 Append(@, [amount |-> r.amount,
                            balanceAfter |-> procs[p].bal + r.amount,
                            key |-> r.key])]
    /\ EndTransaction(p)

\* The process or its connection dies: Postgres rolls the transaction back.
Crash(p) ==
    /\ procs[p] # Idle
    /\ EndTransaction(p)
    /\ UNCHANGED ledger

Step(p) ==
    TakeLock(p) \/ FindDuplicate(p) \/ ReadBalance(p) \/ Insert(p)

Next ==
    \E p \in Procs :
        \/ \E r \in Requests : Begin(p, r)
        \/ Step(p)
        \/ Crash(p)

Spec == Init /\ [][Next]_vars

\* Postgres grants a contended advisory lock in turn, and a transaction that
\* holds it runs to its end.
FairSpec ==
    /\ Spec
    /\ \A p \in Procs : WF_vars(Step(p)) /\ SF_vars(TakeLock(p))

-----------------------------------------------------------------------------

\* Every row's running balance is the balance of the row before it plus its
\* own amount, and none is negative: no two appends of a brand start from the
\* same balance, whatever the interleaving and wherever a process dies
\* (wallet.ts: "recomputing the running balance under a per-brand advisory
\* lock so concurrent writes can't interleave").
LedgerSound ==
    \A b \in Brands : \A i \in 1..Len(ledger[b]) :
        /\ ledger[b][i].balanceAfter >= 0
        /\ ledger[b][i].balanceAfter =
               ledger[b][i].amount
                 + (IF i = 1 THEN 0 ELSE ledger[b][i - 1].balanceAfter)

\* An external id is booked once, even by two brands that race for it: a
\* replayed event never credits a second time (wallet.ts: "Idempotent on
\* `externalId`").
BookedOnce ==
    \A b, c \in Brands :
        \A i \in 1..Len(ledger[b]), j \in 1..Len(ledger[c]) :
            /\ ledger[b][i].key = ledger[c][j].key
            /\ ledger[b][i].key # NoKey
            => b = c /\ i = j

\* A process that waits for the lock or holds it gets to the end of its
\* transaction: the lock is not kept by a request that returned early on a
\* duplicate or threw on an overdraft.
AppendsFinish == \A p \in Procs : procs[p] # Idle ~> procs[p] = Idle

\* The wallets implement the abstract accounts.
Promise ==
    INSTANCE Account WITH
        Keys <- Keys \ {NoKey},
        Adjustments <- {r.amount : r \in {q \in Requests : q.key = NoKey}},
        balance <- [b \in Brands |-> BalanceOf(b)],
        booked <- {k \in Keys : Booked(k)}

\* The refinement: every step of the append protocol is one booking, one
\* adjustment, or nothing at all for the accounts.
ImplementsAccount == Promise!Spec

-----------------------------------------------------------------------------

\* The invariant behind them.  A process past "lock" holds its brand's lock,
\* so at most one process per brand is there, and the balance that it read is
\* still the brand's balance when it inserts.
HoldsLock ==
    \A p \in Procs : procs[p].pc \in {"check", "read", "insert"}
                        => lock[procs[p].req.brand] = p

ReadIsCurrent ==
    \A p \in Procs : procs[p].pc = "insert" =>
        /\ procs[p].bal = BalanceOf(procs[p].req.brand)
        /\ procs[p].bal + procs[p].req.amount >= 0

IInv == TypeOK /\ HoldsLock /\ ReadIsCurrent /\ LedgerSound /\ BookedOnce

=============================================================================
