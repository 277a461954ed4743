------------------------- MODULE LedgerAppendProofs -------------------------
(***************************************************************************)
(* Proofs about the append protocol of the wallet ledger, for any brands,  *)
(* processes and requests.  The argument: a process past "lock" holds the  *)
(* lock of its brand (HoldsLock), so no row of that brand can be inserted  *)
(* between its read of the balance and its own insert (ReadIsCurrent); the *)
(* unique index alone keeps the ids of different brands apart.             *)
(***************************************************************************)
EXTENDS LedgerAppend, TLAPS

USE RequestsAssumption, NoProcAssumption

\* The state of a process that is inside an append.
LEMMA ActiveProc ==
    ASSUME TypeOK, NEW p \in Procs, procs[p] # Idle
    PROVE  /\ procs[p] \in [pc: {"lock", "check", "read", "insert"},
                            req: Requests, bal: Int]
           /\ procs[p].pc \in {"lock", "check", "read", "insert"}
           /\ procs[p].req \in Requests
           /\ procs[p].req.brand \in Brands
           /\ procs[p].req.amount \in Int
           /\ procs[p].req.key \in Keys
           /\ procs[p].bal \in Int
BY DEF TypeOK, Keys

LEMMA IdlePc == ASSUME NEW p \in Procs, procs[p] = Idle PROVE procs[p].pc = "idle"
BY DEF Idle

\* Balances are integers.
LEMMA BalanceType ==
    ASSUME TypeOK, NEW b \in Brands
    PROVE  BalanceOf(b) \in Int
<1>1. CASE ledger[b] = <<>>
  BY <1>1 DEF BalanceOf
<1>2. CASE ledger[b] # <<>>
  <2>1. ledger[b] \in Seq(Row) /\ Len(ledger[b]) \in 1..Len(ledger[b])
    BY <1>2 DEF TypeOK
  <2>2. ledger[b][Len(ledger[b])] \in Row
    BY <2>1
  <2>3. ledger[b][Len(ledger[b])].balanceAfter \in Int
    BY <2>2 DEF Row
  <2>4. QED
    BY <2>3, <1>2 DEF BalanceOf
<1>3. QED
  BY <1>1, <1>2

\* The row that an insert adds.
NewRow(p) ==
    [amount |-> procs[p].req.amount,
     balanceAfter |-> procs[p].bal + procs[p].req.amount,
     key |-> procs[p].req.key]

\* What a committed insert does to the rows: it extends the ledger of the
\* request's brand by one row and leaves the other ledgers alone.
LEMMA InsertRow ==
    ASSUME TypeOK, NEW p \in Procs, Insert(p), ~Booked(procs[p].req.key)
    PROVE  LET b == procs[p].req.brand IN
           /\ b \in Brands
           /\ NewRow(p) \in Row
           /\ ledger'[b] \in Seq(Row)
           /\ Len(ledger'[b]) = Len(ledger[b]) + 1
           /\ ledger'[b][Len(ledger[b]) + 1] = NewRow(p)
           /\ \A i \in 1..Len(ledger[b]) : ledger'[b][i] = ledger[b][i]
           /\ \A c \in Brands : c # b => ledger'[c] = ledger[c]
           /\ ledger' \in [Brands -> Seq(Row)]
<1> DEFINE b == procs[p].req.brand
<1>1. procs[p] # Idle
  BY IdlePc DEF Insert
<1>2. /\ b \in Brands
      /\ procs[p].bal \in Int
      /\ procs[p].req.amount \in Int
      /\ procs[p].req.key \in Keys
  BY <1>1, ActiveProc
<1>3. NewRow(p) \in Row
  BY <1>2 DEF NewRow, Row
<1>4. ledger' = [ledger EXCEPT ![b] = Append(@, NewRow(p))]
  BY DEF Insert, NewRow
<1>5. ledger \in [Brands -> Seq(Row)]
  BY DEF TypeOK
<1>6. ledger'[b] = Append(ledger[b], NewRow(p))
  BY <1>2, <1>4, <1>5
<1> HIDE DEF b
<1>7. /\ ledger'[b] \in Seq(Row)
      /\ Len(ledger'[b]) = Len(ledger[b]) + 1
      /\ ledger'[b][Len(ledger[b]) + 1] = NewRow(p)
      /\ \A i \in 1..Len(ledger[b]) : ledger'[b][i] = ledger[b][i]
  BY <1>2, <1>3, <1>5, <1>6
<1>8. ledger' \in [Brands -> Seq(Row)] /\ \A c \in Brands : c # b => ledger'[c] = ledger[c]
  BY <1>2, <1>3, <1>4, <1>5
<1>9. QED
  BY <1>2, <1>3, <1>7, <1>8 DEF b

\* A step of one process leaves the others where they are.
LEMMA OthersUnchanged ==
    ASSUME TypeOK, NEW p \in Procs, NEW q \in Procs, q # p,
           \/ \E r \in Requests : Begin(p, r)
           \/ Step(p) \/ Crash(p)
    PROVE  /\ procs'[q] = procs[q]
           /\ \A b \in Brands : lock[b] = q => lock'[b] = q
BY DEF TypeOK, Begin, Step, Crash, TakeLock, FindDuplicate, ReadBalance,
       Insert, EndTransaction, Goto

\* Types are preserved.
THEOREM AppendTypes == Spec => []TypeOK
<1>1. Init => TypeOK
  BY DEF Init, TypeOK, Idle
<1>2. TypeOK /\ [Next]_vars => TypeOK'
  <2> SUFFICES ASSUME TypeOK, [Next]_vars PROVE TypeOK'
    OBVIOUS
  <2>1. ASSUME NEW p \in Procs, EndTransaction(p), UNCHANGED ledger PROVE TypeOK'
    BY <2>1 DEF EndTransaction, TypeOK
  <2>2. ASSUME NEW p \in Procs, NEW r \in Requests, Begin(p, r) PROVE TypeOK'
    BY <2>2 DEF Begin, TypeOK, Idle
  <2>3. ASSUME NEW p \in Procs, TakeLock(p) PROVE TypeOK'
    <3>1. procs[p] # Idle
      BY <2>3, IdlePc DEF TakeLock
    <3>2. QED
      BY <2>3, <3>1, ActiveProc DEF TakeLock, Goto, TypeOK
  <2>4. ASSUME NEW p \in Procs, FindDuplicate(p) PROVE TypeOK'
    <3>1. procs[p] # Idle
      BY <2>4, IdlePc DEF FindDuplicate
    <3>2. CASE Booked(procs[p].req.key)
      BY <2>4, <3>2, <2>1 DEF FindDuplicate
    <3>3. CASE ~Booked(procs[p].req.key)
      <4>1. procs' = [procs EXCEPT ![p] = [@ EXCEPT !.pc = "read"]]
        BY <2>4, <3>3 DEF FindDuplicate, Goto
      <4>2. [procs[p] EXCEPT !.pc = "read"]
              \in [pc: {"lock", "check", "read", "insert"}, req: Requests, bal: Int]
        BY <3>1, ActiveProc
      <4>3. UNCHANGED <<ledger, lock>>
        BY <2>4, <3>3 DEF FindDuplicate
      <4>4. QED
        BY <4>1, <4>2, <4>3 DEF TypeOK
    <3>4. QED
      BY <3>2, <3>3
  <2>5. ASSUME NEW p \in Procs, ReadBalance(p) PROVE TypeOK'
    <3>1. procs[p] # Idle
      BY <2>5, IdlePc DEF ReadBalance
    <3>2. CASE BalanceOf(procs[p].req.brand) + procs[p].req.amount < 0
      BY <2>5, <3>2, <2>1 DEF ReadBalance
    <3>3. CASE ~(BalanceOf(procs[p].req.brand) + procs[p].req.amount < 0)
      <4>1. BalanceOf(procs[p].req.brand) \in Int
        BY <3>1, ActiveProc, BalanceType
      <4>2. procs' = [procs EXCEPT ![p] =
                        [@ EXCEPT !.pc = "insert",
                                  !.bal = BalanceOf(procs[p].req.brand)]]
        BY <2>5, <3>3 DEF ReadBalance
      <4>3. [procs[p] EXCEPT !.pc = "insert",
                             !.bal = BalanceOf(procs[p].req.brand)]
              \in [pc: {"lock", "check", "read", "insert"}, req: Requests, bal: Int]
        BY <3>1, <4>1, ActiveProc
      <4>4. UNCHANGED <<ledger, lock>>
        BY <2>5, <3>3 DEF ReadBalance
      <4>5. QED
        BY <4>2, <4>3, <4>4 DEF TypeOK
    <3>4. QED
      BY <3>2, <3>3
  <2>6. ASSUME NEW p \in Procs, Insert(p) PROVE TypeOK'
    <3>1. CASE Booked(procs[p].req.key)
      BY <2>6, <3>1, <2>1 DEF Insert
    <3>2. CASE ~Booked(procs[p].req.key)
      <4>1. ledger' \in [Brands -> Seq(Row)]
        BY <2>6, <3>2, InsertRow
      <4>2. QED
        BY <2>6, <4>1 DEF Insert, EndTransaction, TypeOK
    <3>3. QED
      BY <3>1, <3>2
  <2>7. ASSUME NEW p \in Procs, Crash(p) PROVE TypeOK'
    BY <2>7, <2>1 DEF Crash
  <2>8. CASE UNCHANGED vars
    BY <2>8 DEF vars, TypeOK
  <2>9. QED
    BY <2>2, <2>3, <2>4, <2>5, <2>6, <2>7, <2>8 DEF Next, Step
<1>3. QED
  BY <1>1, <1>2, PTL DEF Spec

\* The brand of the process that acts keeps its lock until the process ends;
\* a process past "lock" therefore holds it.
LEMMA LockStep ==
    ASSUME TypeOK, HoldsLock, [Next]_vars
    PROVE  HoldsLock'
<1>1. CASE UNCHANGED vars
  BY <1>1 DEF vars, HoldsLock
<1>2. ASSUME NEW p \in Procs,
             \/ \E r \in Requests : Begin(p, r)
             \/ Step(p) \/ Crash(p)
      PROVE  HoldsLock'
  <2> SUFFICES ASSUME NEW q \in Procs,
                      procs'[q].pc \in {"check", "read", "insert"}
               PROVE  lock'[procs'[q].req.brand] = q
    BY DEF HoldsLock
  <2>1. CASE q # p
    <3>1. procs'[q] = procs[q] /\ procs[q] # Idle
      BY <1>2, <2>1, OthersUnchanged, IdlePc
    <3>2. lock[procs[q].req.brand] = q /\ procs[q].req.brand \in Brands
      BY <3>1, ActiveProc DEF HoldsLock
    <3>3. QED
      BY <1>2, <2>1, <3>1, <3>2, OthersUnchanged
  <2>2. CASE q = p
    <3>1. ASSUME procs' = [procs EXCEPT ![p] = Idle] PROVE FALSE
      BY <2>2, <3>1 DEF Idle, TypeOK
    <3>2. ASSUME NEW r \in Requests, Begin(p, r) PROVE FALSE
      BY <2>2, <3>2 DEF Begin, TypeOK
    <3>3. CASE TakeLock(p)
      <4>1. procs[p] # Idle
        BY <3>3, IdlePc DEF TakeLock
      <4>2. procs'[p].req = procs[p].req /\ procs[p].req.brand \in Brands
        BY <3>3, <4>1, ActiveProc DEF TakeLock, Goto, TypeOK
      <4>3. QED
        BY <2>2, <3>3, <4>2 DEF TakeLock, TypeOK
    <3>4. CASE FindDuplicate(p) \/ ReadBalance(p)
      <4>1. procs[p].pc \in {"check", "read"} /\ procs[p] # Idle
        BY <3>4, IdlePc DEF FindDuplicate, ReadBalance
      <4>2. procs[p].req.brand \in Brands /\ lock[procs[p].req.brand] = p
        BY <4>1, ActiveProc DEF HoldsLock
      <4>3. /\ lock' = lock
            /\ \/ procs' = [procs EXCEPT ![p].pc = "read"]
               \/ procs' = [procs EXCEPT ![p].pc = "insert",
                                         ![p].bal = BalanceOf(procs[p].req.brand)]
        BY <3>1, <3>4 DEF FindDuplicate, ReadBalance, EndTransaction, Goto
      <4>4. procs'[p].req = procs[p].req
        BY <4>1, <4>3, ActiveProc, ZenonT(40) DEF TypeOK
      <4>5. QED
        BY <2>2, <4>2, <4>3, <4>4
    <3>5. CASE Insert(p) \/ Crash(p)
      BY <3>1, <3>5 DEF Insert, Crash, EndTransaction
    <3>6. QED
      BY <1>2, <3>2, <3>3, <3>4, <3>5 DEF Step
  <2>3. QED
    BY <2>1, <2>2
<1>3. QED
  BY <1>1, <1>2 DEF Next

\* Only an insert changes a ledger, and only that of its own brand.
LEMMA LedgerStep ==
    ASSUME TypeOK, NEW p \in Procs,
           \/ \E r \in Requests : Begin(p, r)
           \/ TakeLock(p) \/ FindDuplicate(p) \/ ReadBalance(p) \/ Crash(p)
           \/ Insert(p) /\ Booked(procs[p].req.key)
    PROVE  ledger' = ledger
BY DEF Begin, TakeLock, FindDuplicate, ReadBalance, Crash, Insert

\* The balance read under the lock is current until the insert.
LEMMA ReadStep ==
    ASSUME TypeOK, HoldsLock, ReadIsCurrent, [Next]_vars
    PROVE  ReadIsCurrent'
<1>1. CASE UNCHANGED vars
  BY <1>1 DEF vars, ReadIsCurrent, BalanceOf
<1>2. ASSUME NEW p \in Procs,
             \/ \E r \in Requests : Begin(p, r)
             \/ Step(p) \/ Crash(p)
      PROVE  ReadIsCurrent'
  <2> SUFFICES ASSUME NEW q \in Procs, procs'[q].pc = "insert"
               PROVE  (/\ procs[q].bal = BalanceOf(procs[q].req.brand)
                       /\ procs[q].bal + procs[q].req.amount >= 0)'
    BY DEF ReadIsCurrent
  <2>1. CASE q # p
    <3>1. procs'[q] = procs[q] /\ procs[q] # Idle
      BY <1>2, <2>1, OthersUnchanged, IdlePc
    <3>2. /\ lock[procs[q].req.brand] = q
          /\ procs[q].req.brand \in Brands
          /\ procs[q].bal = BalanceOf(procs[q].req.brand)
          /\ procs[q].bal + procs[q].req.amount >= 0
      BY <3>1, ActiveProc DEF HoldsLock, ReadIsCurrent
    <3>3. ledger'[procs[q].req.brand] = ledger[procs[q].req.brand]
      <4>1. CASE Insert(p) /\ ~Booked(procs[p].req.key)
        <5>1. lock[procs[p].req.brand] = p
          BY <4>1 DEF HoldsLock, Insert
        <5>2. QED
          BY <2>1, <3>2, <4>1, <5>1, InsertRow
      <4>2. CASE ~(Insert(p) /\ ~Booked(procs[p].req.key))
        BY <1>2, <4>2, LedgerStep DEF Step
      <4>3. QED
        BY <4>1, <4>2
    <3>4. QED
      BY <3>1, <3>2, <3>3 DEF BalanceOf
  <2>2. CASE q = p
    <3>1. ASSUME procs' = [procs EXCEPT ![p] = Idle] PROVE FALSE
      BY <2>2, <3>1 DEF Idle, TypeOK
    <3>2. CASE ReadBalance(p)
      <4>1. procs[p] # Idle
        BY <3>2, IdlePc DEF ReadBalance
      <4>2. ~(BalanceOf(procs[p].req.brand) + procs[p].req.amount < 0)
        BY <3>1, <3>2 DEF ReadBalance, EndTransaction
      <4>3. /\ procs'[p].bal = BalanceOf(procs[p].req.brand)
            /\ procs'[p].req = procs[p].req
            /\ ledger' = ledger
        <5>1. /\ procs' = [procs EXCEPT ![p].pc = "insert",
                                       ![p].bal = BalanceOf(procs[p].req.brand)]
              /\ ledger' = ledger
          BY <3>2, <4>2 DEF ReadBalance
        <5>2. QED
          BY <4>1, <5>1, ActiveProc DEF TypeOK
      <4>4. BalanceOf(procs[p].req.brand) \in Int /\ procs[p].req.amount \in Int
        BY <4>1, ActiveProc, BalanceType
      <4>5. QED
        BY <2>2, <4>2, <4>3, <4>4 DEF BalanceOf
    <3>3. ASSUME ~ReadBalance(p) PROVE FALSE
      <4>1. ASSUME NEW r \in Requests, Begin(p, r) PROVE FALSE
        BY <2>2, <4>1 DEF Begin, TypeOK
      <4>2. ASSUME TakeLock(p) PROVE FALSE
        BY <2>2, <4>2, ActiveProc, IdlePc DEF TakeLock, Goto, TypeOK
      <4>3. ASSUME FindDuplicate(p) PROVE FALSE
        BY <2>2, <3>1, <4>3, ActiveProc, IdlePc
           DEF FindDuplicate, EndTransaction, Goto, TypeOK
      <4>4. ASSUME Insert(p) \/ Crash(p) PROVE FALSE
        BY <3>1, <4>4 DEF Insert, Crash, EndTransaction
      <4>5. QED
        BY <1>2, <3>3, <4>1, <4>2, <4>3, <4>4 DEF Step
    <3>4. QED
      BY <3>2, <3>3
  <2>3. QED
    BY <2>1, <2>2
<1>3. QED
  BY <1>1, <1>2 DEF Next

\* A process that inserts has read the balance of the last row.
LEMMA InsertStart ==
    ASSUME TypeOK, ReadIsCurrent, NEW p \in Procs, Insert(p)
    PROVE  LET b == procs[p].req.brand
               n == Len(ledger[b]) IN
           /\ n \in Nat
           /\ procs[p].bal = IF n = 0 THEN 0 ELSE ledger[b][n].balanceAfter
           /\ procs[p].bal \in Int
           /\ procs[p].req.amount \in Int
           /\ procs[p].bal + procs[p].req.amount >= 0
<1>1. procs[p] # Idle
  BY IdlePc DEF Insert
<1>2. procs[p].req.brand \in Brands /\ procs[p].req.amount \in Int /\ procs[p].bal \in Int
  BY <1>1, ActiveProc
<1>3. ledger[procs[p].req.brand] \in Seq(Row)
  BY <1>2 DEF TypeOK
<1>4. /\ procs[p].bal = BalanceOf(procs[p].req.brand)
      /\ procs[p].bal + procs[p].req.amount >= 0
  BY DEF Insert, ReadIsCurrent
<1>5. QED
  BY <1>2, <1>3, <1>4 DEF BalanceOf

\* The chain of running balances is extended, never broken.
LEMMA SoundStep ==
    ASSUME TypeOK, ReadIsCurrent, LedgerSound, [Next]_vars
    PROVE  LedgerSound'
<1>1. ASSUME ledger' = ledger PROVE LedgerSound'
  BY <1>1 DEF LedgerSound
<1>2. ASSUME NEW p \in Procs, Insert(p), ~Booked(procs[p].req.key)
      PROVE  LedgerSound'
  <2> DEFINE b == procs[p].req.brand
             n == Len(ledger[b])
  <2>1. /\ b \in Brands
        /\ Len(ledger'[b]) = n + 1
        /\ ledger'[b][n + 1] = NewRow(p)
        /\ \A i \in 1..n : ledger'[b][i] = ledger[b][i]
        /\ \A c \in Brands : c # b => ledger'[c] = ledger[c]
    BY <1>2, InsertRow
  <2>2. /\ n \in Nat
        /\ procs[p].bal = IF n = 0 THEN 0 ELSE ledger[b][n].balanceAfter
        /\ procs[p].bal + procs[p].req.amount >= 0
        /\ procs[p].bal \in Int
        /\ procs[p].req.amount \in Int
    BY <1>2, InsertStart
  <2>3. /\ NewRow(p).balanceAfter = procs[p].bal + procs[p].req.amount
        /\ NewRow(p).amount = procs[p].req.amount
    BY DEF NewRow
  <2> HIDE DEF b, n
  <2> SUFFICES ASSUME NEW c \in Brands, NEW i \in 1..Len(ledger'[c])
               PROVE  /\ ledger'[c][i].balanceAfter >= 0
                      /\ ledger'[c][i].balanceAfter =
                           ledger'[c][i].amount
                             + (IF i = 1 THEN 0 ELSE ledger'[c][i - 1].balanceAfter)
    BY DEF LedgerSound
  <2>4. CASE c # b
    BY <2>1, <2>4 DEF LedgerSound
  <2>5. CASE c = b /\ i \in 1..n
    <3>1. /\ ledger'[c][i] = ledger[c][i]
          /\ i # 1 => ledger'[c][i - 1] = ledger[c][i - 1]
      <4>1. i # 1 => i - 1 \in 1..n
        BY <2>2, <2>5
      <4>2. QED
        BY <4>1, <2>1, <2>5
    <3>2. i \in 1..Len(ledger[c])
      BY <2>5 DEF n
    <3>3. QED
      BY <3>1, <3>2 DEF LedgerSound
  <2>6. CASE c = b /\ i = n + 1
    <3>1. n # 0 => ledger'[b][n] = ledger[b][n]
      BY <2>1, <2>2
    <3>2. /\ ledger'[c][i].balanceAfter = procs[p].bal + procs[p].req.amount
          /\ ledger'[c][i].amount = procs[p].req.amount
      BY <2>1, <2>3, <2>6
    <3>3. (IF i = 1 THEN 0 ELSE ledger'[c][i - 1].balanceAfter) = procs[p].bal
      <4>1. CASE n = 0
        BY <4>1, <2>2, <2>6
      <4>2. CASE n # 0
        <5>1. i # 1 /\ i - 1 = n
          BY <4>2, <2>2, <2>6
        <5>2. QED
          BY <4>2, <5>1, <3>1, <2>2, <2>6
      <4>3. QED
        BY <4>1, <4>2
    <3>4. QED
      BY <2>2, <3>2, <3>3
  <2>7. QED
    BY <2>1, <2>2, <2>4, <2>5, <2>6
<1>3. QED
  BY <1>1, <1>2, LedgerStep DEF Next, Step, vars

\* The unique index refuses a second row with the same external id.
LEMMA BookedOnceStep ==
    ASSUME TypeOK, BookedOnce, [Next]_vars
    PROVE  BookedOnce'
<1>1. ASSUME ledger' = ledger PROVE BookedOnce'
  BY <1>1 DEF BookedOnce
<1>2. ASSUME NEW p \in Procs, Insert(p), ~Booked(procs[p].req.key)
      PROVE  BookedOnce'
  <2> DEFINE b == procs[p].req.brand
             n == Len(ledger[b])
  <2>1. /\ b \in Brands
        /\ Len(ledger'[b]) = n + 1
        /\ ledger'[b][n + 1] = NewRow(p)
        /\ \A i \in 1..n : ledger'[b][i] = ledger[b][i]
        /\ \A c \in Brands : c # b => ledger'[c] = ledger[c]
    BY <1>2, InsertRow
  <2>2. n \in Nat
    BY <2>1 DEF TypeOK
  <2> HIDE DEF b, n
  <2>3. ASSUME NEW c \in Brands, NEW i \in 1..Len(ledger'[c]), ~(c = b /\ i = n + 1)
        PROVE  i \in 1..Len(ledger[c]) /\ ledger'[c][i] = ledger[c][i]
    BY <2>1, <2>2, <2>3 DEF n
  <2>4. NewRow(p).key = procs[p].req.key
    BY DEF NewRow
  <2>5. ASSUME NEW c \in Brands, NEW i \in 1..Len(ledger'[c]), ~(c = b /\ i = n + 1),
               NewRow(p).key # NoKey
        PROVE  ledger'[c][i].key # NewRow(p).key
    BY <1>2, <2>3, <2>4, <2>5 DEF Booked
  <2> SUFFICES ASSUME NEW c \in Brands, NEW d \in Brands,
                      NEW i \in 1..Len(ledger'[c]), NEW j \in 1..Len(ledger'[d]),
                      ledger'[c][i].key = ledger'[d][j].key,
                      ledger'[c][i].key # NoKey
               PROVE  c = d /\ i = j
    BY DEF BookedOnce
  <2>6. CASE ~(c = b /\ i = n + 1) /\ ~(d = b /\ j = n + 1)
    <3>1. i \in 1..Len(ledger[c]) /\ ledger'[c][i] = ledger[c][i]
      BY <2>3, <2>6
    <3>2. j \in 1..Len(ledger[d]) /\ ledger'[d][j] = ledger[d][j]
      BY <2>3, <2>6
    <3>3. QED
      BY <3>1, <3>2 DEF BookedOnce
  <2>7. CASE c = b /\ i = n + 1 /\ ~(d = b /\ j = n + 1)
    BY <2>1, <2>5, <2>7
  <2>8. CASE ~(c = b /\ i = n + 1) /\ d = b /\ j = n + 1
    BY <2>1, <2>5, <2>8
  <2>9. QED
    BY <2>6, <2>7, <2>8
<1>3. QED
  BY <1>1, <1>2, LedgerStep DEF Next, Step, vars

\* The inductive invariant of the append protocol.
THEOREM Invariance == Spec => []IInv
<1>1. Init => IInv
  <2> SUFFICES ASSUME Init PROVE IInv
    OBVIOUS
  <2>1. TypeOK
    BY DEF Init, TypeOK, Idle
  <2>2. HoldsLock /\ ReadIsCurrent
    BY DEF Init, Idle, HoldsLock, ReadIsCurrent
  <2>3. LedgerSound /\ BookedOnce
    BY DEF Init, LedgerSound, BookedOnce
  <2>4. QED
    BY <2>1, <2>2, <2>3 DEF IInv
<1>2. TypeOK /\ TypeOK' /\ IInv /\ [Next]_vars => IInv'
  BY LockStep, ReadStep, SoundStep, BookedOnceStep DEF IInv
<1>3. QED
  BY <1>1, <1>2, AppendTypes, PTL DEF Spec

\* Whatever requests race, retry or die, the running balance of every wallet
\* is the sum of its rows so far and never negative (appendEntry).
THEOREM LedgerIsSound == Spec => []LedgerSound
<1>1. IInv => LedgerSound
  BY DEF IInv
<1>2. QED
  BY <1>1, Invariance, PTL

\* No external id is booked twice in the platform (appendEntry).
THEOREM NoDoubleBooking == Spec => []BookedOnce
<1>1. IInv => BookedOnce
  BY DEF IInv
<1>2. QED
  BY <1>1, Invariance, PTL

-----------------------------------------------------------------------------

\* A step that leaves the rows alone leaves the accounts alone.
LEMMA StutterStep ==
    ASSUME ledger' = ledger
    PROVE  UNCHANGED Promise!accountVars
BY DEF Promise!accountVars, BalanceOf, Booked

\* A committed insert is one booking, or one adjustment when it has no key.
LEMMA InsertMaps ==
    ASSUME IInv, NEW p \in Procs, Insert(p), ~Booked(procs[p].req.key)
    PROVE  Promise!Next
<1>1. TypeOK /\ ReadIsCurrent
  BY DEF IInv
<1>2. PICK b \in Brands, a \in Amounts, k \in Keys :
         b = procs[p].req.brand /\ a = procs[p].req.amount /\ k = procs[p].req.key
  BY <1>1, IdlePc, ActiveProc DEF Insert, Amounts, Keys
<1>3. PICK n \in Nat : n = Len(ledger[b])
  <2>1. PICK s \in Seq(Row) : s = ledger[b]
    BY <1>1 DEF TypeOK
  <2>2. Len(s) \in Nat
    BY <2>1
  <2>3. QED
    BY <2>1, <2>2
<1>4. /\ Len(ledger'[b]) = n + 1
      /\ ledger'[b][n + 1] = NewRow(p)
      /\ \A i \in 1..n : ledger'[b][i] = ledger[b][i]
      /\ \A c \in Brands : c # b => ledger'[c] = ledger[c]
      /\ ledger'[b] \in Seq(Row)
      /\ procs[p].bal = BalanceOf(b)
      /\ procs[p].bal + a >= 0
  BY <1>1, <1>2, <1>3, InsertRow DEF Insert, ReadIsCurrent
<1>5. NewRow(p).balanceAfter = procs[p].bal + a /\ NewRow(p).key = k
  BY <1>2 DEF NewRow
<1>6. (BalanceOf(b))' = BalanceOf(b) + a
  <2>1. ledger'[b] # <<>> /\ Len(ledger'[b]) = n + 1
    BY <1>4
  <2>2. (BalanceOf(b))' = ledger'[b][n + 1].balanceAfter
    BY <2>1 DEF BalanceOf
  <2>3. QED
    BY <2>2, <1>4, <1>5
<1>7. \A c \in Brands : c # b => (BalanceOf(c))' = BalanceOf(c)
  BY <1>4 DEF BalanceOf
<1>8. [c \in Brands |-> BalanceOf(c)]' =
        [[c \in Brands |-> BalanceOf(c)] EXCEPT ![b] = @ + a]
  <2>1. PICK f : f = [c \in Brands |-> BalanceOf(c)]
    OBVIOUS
  <2>2. PICK g : g = [c \in Brands |-> (BalanceOf(c))']
    OBVIOUS
  <2>3. \A c \in Brands : g[c] = IF c = b THEN f[b] + a ELSE f[c]
    BY <2>1, <2>2, <1>6, <1>7
  <2>4. g = [f EXCEPT ![b] = @ + a]
    BY <2>1, <2>2, <2>3
  <2>5. QED
    BY <2>1, <2>2, <2>4
<1>9. Promise!Move(b, a)
  BY <1>2, <1>4, <1>8 DEF Promise!Move
<1>10. \A q \in Keys : (Booked(q))' <=> Booked(q) \/ (q = k /\ k # NoKey)
  <2> SUFFICES ASSUME NEW q \in Keys
               PROVE  (Booked(q))' <=> Booked(q) \/ (q = k /\ k # NoKey)
    OBVIOUS
  <2>1. ASSUME Booked(q) PROVE (Booked(q))'
    <3>1. PICK c \in Brands : \E i \in 1..Len(ledger[c]) : ledger[c][i].key = q
      BY <2>1 DEF Booked
    <3>2. PICK i \in 1..Len(ledger[c]) : ledger[c][i].key = q
      BY <3>1
    <3>3. i \in 1..Len(ledger'[c]) /\ ledger'[c][i] = ledger[c][i]
      BY <3>2, <1>3, <1>4
    <3>4. q # NoKey
      BY <2>1 DEF Booked
    <3>5. QED
      BY <3>2, <3>3, <3>4 DEF Booked
  <2>2. ASSUME q = k, k # NoKey PROVE (Booked(q))'
    <3>1. n + 1 \in 1..Len(ledger'[b]) /\ ledger'[b][n + 1].key = k
      BY <1>3, <1>4, <1>5
    <3>2. QED
      BY <2>2, <3>1, <1>2 DEF Booked
  <2>3. ASSUME (Booked(q))', ~(q = k /\ k # NoKey) PROVE Booked(q)
    <3>1. q # NoKey
      BY <2>3 DEF Booked
    <3>2. PICK c \in Brands : \E i \in 1..Len(ledger'[c]) : ledger'[c][i].key = q
      BY <2>3 DEF Booked
    <3>3. PICK i \in 1..Len(ledger'[c]) : ledger'[c][i].key = q
      BY <3>2
    <3>4. ~(c = b /\ i = n + 1)
      BY <2>3, <3>1, <3>3, <1>4, <1>5
    <3>5. i \in 1..Len(ledger[c]) /\ ledger'[c][i] = ledger[c][i]
      BY <3>3, <3>4, <1>3, <1>4
    <3>6. QED
      BY <3>1, <3>3, <3>5 DEF Booked
  <2>4. QED
    BY <2>1, <2>2, <2>3
<1>11. CASE k = NoKey
  <2>1. {q \in Keys : Booked(q)}' = {q \in Keys : Booked(q)}
    BY <1>10, <1>11
  <2>2. Promise!Adjust(b, a)
    BY <1>9, <2>1 DEF Promise!Adjust
  <2>3. a \in {r.amount : r \in {q \in Requests : q.key = NoKey}}
    <3>1. procs[p].req \in Requests
      BY <1>1, IdlePc, ActiveProc DEF Insert
    <3>2. QED
      BY <1>2, <1>11, <3>1
  <2>4. QED
    BY <1>2, <2>2, <2>3 DEF Promise!Next
<1>12. CASE k # NoKey
  <2>1. {q \in Keys : Booked(q)}' = {q \in Keys : Booked(q)} \cup {k}
    BY <1>2, <1>10, <1>12
  <2>2. k \notin {q \in Keys : Booked(q)}
    BY <1>2
  <2>3. Promise!Book(b, k, a)
    BY <1>9, <2>1, <2>2 DEF Promise!Book
  <2>4. QED
    BY <1>2, <1>12, <2>3 DEF Promise!Next
<1>13. QED
  BY <1>11, <1>12

\* The append protocol implements the abstract accounts: money moves in
\* bookings that never overdraw and never repeat (appendEntry).
THEOREM Refinement == Spec => ImplementsAccount
<1>1. Init => Promise!Init
  BY DEF Init, Promise!Init, BalanceOf, Booked
<1>2. IInv /\ [Next]_vars => [Promise!Next]_(Promise!accountVars)
  <2>1. ASSUME IInv, [Next]_vars, ledger' = ledger
        PROVE  [Promise!Next]_(Promise!accountVars)
    BY <2>1, StutterStep
  <2>2. ASSUME IInv, NEW p \in Procs, Insert(p), ~Booked(procs[p].req.key)
        PROVE  Promise!Next
    BY <2>2, InsertMaps
  <2>3. QED
    BY <2>1, <2>2, LedgerStep DEF Next, Step, vars, IInv
<1>3. QED
  BY <1>1, <1>2, Invariance, PTL DEF Spec, ImplementsAccount, Promise!Spec

=============================================================================
