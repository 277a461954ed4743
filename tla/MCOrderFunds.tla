---------------------------- MODULE MCOrderFunds ----------------------------
(***************************************************************************)
(* OrderFunds on a few orders and requests.  A behaviour follows a         *)
(* scenario, chosen at its start, that says how its requests meet: what    *)
(* the holds answer for depends on that.                                   *)
(***************************************************************************)
EXTENDS OrderFunds, TLC

CONSTANT Scenarios     \* the scenarios of a run

VARIABLE scenario

Everything ==
    {"create", "import", "edit", "remap", "cancel", "notify", "admin",
     "deliver", "heal", "deposit", "adjust", "fail"}

\* "any": one order, and whatever may happen to it.
OneOrder == \A o, r \in Orders : orders[o] # Absent /\ orders[r] # Absent => o = r

\* Otherwise an administrator's adjustment and a heal may take money that is reserved, and a
\* request that is lost may leave a shipment unpaid and unflagged.
OrderlyNext ==
    \E p \in Procs :
        \/ (\E o \in Orders : Arrive(p, o)) /\ procs'[p].via # "heal"
        \/ Continue(p) /\ (CaptureThrows(p) => Capture(p) \/ AppendThrows(-procs[p].charge, CaptureKey(procs[p].order)))
        \/ \E t \in TopUps : Deposit(p, t)

\* "queue": while a request is at work, the step is its own.
Queue == \A p \in Procs : procs[p] # Idle => Continue(p)

\* "shipnotify": the orders are shipped by ShipStation alone.
Shipnotify == \A p \in Procs : procs'[p].via \notin {"edit", "remap", "admin", "deliver"}

MCInit == Init /\ scenario \in Scenarios

MCNext ==
    /\ UNCHANGED scenario
    /\ \/ scenario = "any" /\ Next /\ OneOrder'
       \/ scenario = "queue" /\ OrderlyNext /\ Queue
       \/ scenario = "shipnotify" /\ OrderlyNext /\ Shipnotify

MCSpec == MCInit /\ [][MCNext]_<<vars, scenario>>

Symmetry ==
    Permutations(Orders) \cup Permutations(Procs) \cup Permutations(TopUps)

-----------------------------------------------------------------------------

\* As long as requests come one after the other, what the open orders reserve
\* is in the wallet: no two of them count on the same money (wallet.ts:13,
\* order-edit.ts:94).
QueueIsBacked == scenario = "queue" => ReservedBacked

\* As long as ShipStation and the brand are the only ones to ship and to pay, a shipped order
\* says whether it was paid (handleShipnotify): in "any", a request that was lost before it
\* raised the flag, or a heal that left the flag up, is no surprise.
FlagIsTrue == scenario # "any" => FlagTellsPayment

\* As long as no adjustment and no heal takes money that is reserved, no order loses its
\* reservation for nothing (order-edit.ts:94).
KeepsReservation == [][scenario # "any" => ReservationKept]_vars

=============================================================================
