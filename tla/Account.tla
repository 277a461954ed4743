------------------------------ MODULE Account ------------------------------
(***************************************************************************)
(* What the prepaid wallets promise, without saying how: money moves in    *)
(* bookings, one wallet at a time.  A booking with a key (a processor's    *)
(* payment, an order's capture, a claim's credit) happens at most once in  *)
(* the whole platform, a booking without a key is an administrator's       *)
(* adjustment, and no booking overdraws a wallet.                          *)
(*                                                                         *)
(* LedgerAppend keeps locks and rows with running balances, and implements *)
(* this specification: see its Promise instance.                           *)
(***************************************************************************)
EXTENDS Integers

CONSTANTS
    Brands,     \* owners of a wallet
    Keys,       \* idempotency keys of bookings
    Amounts,    \* the signed amounts a booking can move, in cents
    Adjustments \* those that an administrator may move by hand

VARIABLES
    balance,    \* what each brand's wallet holds
    booked      \* keys that have been used, by any brand

accountVars == <<balance, booked>>

Init ==
    /\ balance = [b \in Brands |-> 0]
    /\ booked = {}

Move(b, a) ==
    /\ balance[b] + a >= 0
    /\ balance' = [balance EXCEPT ![b] = @ + a]

\* A keyed booking: the first use of the key moves the amount, and any
\* repetition is a stutter.
Book(b, k, a) ==
    /\ k \notin booked
    /\ Move(b, a)
    /\ booked' = booked \cup {k}

\* An adjustment by hand has no key and can be repeated.
Adjust(b, a) ==
    /\ Move(b, a)
    /\ UNCHANGED booked

Next ==
    \E b \in Brands :
        \/ \E a \in Amounts, k \in Keys : Book(b, k, a)
        \/ \E a \in Adjustments : Adjust(b, a)

Spec == Init /\ [][Next]_accountVars

=============================================================================
