------------------------------- MODULE Wallet -------------------------------
(***************************************************************************)
(* The wallet ledger of one brand (apps/api/src/services/wallet.ts): rows  *)
(* appended under the brand's advisory lock, each with the running balance *)
(* after it and, for everything but a manual adjustment, an external id    *)
(* that makes the append idempotent.  Brands share nothing (the lock, the  *)
(* balance and the holds are all per brand), so one brand is modelled.     *)
(***************************************************************************)
EXTENDS Integers, Sequences

CONSTANTS
    NoKey       \* the external id of a row that has none

VARIABLES
    ledger      \* rows of wallet_ledger for the brand, in seq order

\* Row kinds the code writes.
EntryTypes == {"deposit", "capture", "refund_credit", "manual_adjustment"}

\* An external id `<kind>:<id>`: `order:<id>:capture`, a processor's payment
\* id, `claim:<id>:credit`.
CaptureKey(o) == <<"capture", o>>
TopUpKey(t) == <<"topup", t>>
CreditKey(c) == <<"credit", c>>

Entry(K) ==
    [type: EntryTypes, amount: Int, balanceAfter: Int, key: K]

\* The balance is the running balance of the row with the greatest seq.
GetBalance ==
    IF ledger = <<>> THEN 0 ELSE ledger[Len(ledger)].balanceAfter

Booked(k) == \E i \in 1..Len(ledger) : ledger[i].key = k

\* Without the lookup that makes an append idempotent.
DuplicateIgnored(k) == FALSE

Duplicate(k) == k # NoKey /\ Booked(k)

\* The append throws: the row is new and would overdraw the wallet.
AppendThrows(amount, k) == ~Duplicate(k) /\ GetBalance + amount < 0

\* The append without the refusal to overdraw.
AppendEntryUnchecked(type, amount, k) ==
    ~Duplicate(k) /\ ledger' = Append(ledger,
        [type |-> type, amount |-> amount,
         balanceAfter |-> GetBalance + amount, key |-> k])

\* The append transaction commits: a replayed key returns the existing row,
\* a new row carries the balance after it.
AppendEntry(type, amount, k) ==
    IF Duplicate(k)
    THEN UNCHANGED ledger
    ELSE /\ GetBalance + amount >= 0
         /\ ledger' = Append(ledger,
                             [type |-> type,
                              amount |-> amount,
                              balanceAfter |-> GetBalance + amount,
                              key |-> k])

=============================================================================
