--------------------------- MODULE MCLedgerAppend ---------------------------
(***************************************************************************)
(* LedgerAppend on two brands and two or three processes: a top-up that is *)
(* delivered under one key to either brand, a capture of part of it, and   *)
(* (for one brand) an adjustment without a key.                            *)
(***************************************************************************)
EXTENDS LedgerAppend, TLC

CONSTANTS b1, b2

Req(b, a, k) == [brand |-> b, amount |-> a, key |-> k]

MCRequests ==
    {Req(b1, 2, "topup"), Req(b2, 2, "topup"),
     Req(b1, -2, "capture"), Req(b1, -1, NoKey)}

MCBrands == {b1, b2}

=============================================================================
