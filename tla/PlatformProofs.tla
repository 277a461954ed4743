--------------------------- MODULE PlatformProofs ---------------------------
(***************************************************************************)
(* Proofs about what administrators and brands do apart from money and     *)
(* goods: the plan registry, the members of a brand, the sessions of an    *)
(* administrator, broadcasts and the welcome tour, for any number of       *)
(* people, requests and edits; and about MCPlatform, which puts them and   *)
(* the price of a plan side by side.                                       *)
(***************************************************************************)
EXTENDS MCPlatform, PriceProofs

-----------------------------------------------------------------------------

(* The plan registry: a read is never older than the invalidation before it. *)

\* What RegistryInv says of a single call.
LEMMA CallShape ==
    ASSUME RegistryTypeOK, NEW c \in Callers
    PROVE  /\ calls[c] \in Call
           /\ calls[c].pc \in {"idle", "query", "loaded", "wait", "returned"}
           /\ calls[c].epoch \in Nat /\ calls[c].data \in Versions /\ calls[c].floor \in Versions
           /\ calls[c].owner \in Callers \cup {None}
  BY DEF RegistryTypeOK, Call

\* What it counts, as numbers.
LEMMA Numbers ==
    ASSUME RegistryTypeOK
    PROVE  /\ table \in Nat /\ settled \in Nat /\ epoch \in Nat
           /\ cache # None => cache \in Nat
           /\ \A d \in Callers : /\ calls[d].epoch \in Nat
                                /\ calls[d].data \in Nat /\ calls[d].floor \in Nat
  BY CallShape DEF RegistryTypeOK, Versions

LEMMA InitialInv == RegistryInit => RegistryInv
  <1> SUFFICES ASSUME RegistryInit PROVE RegistryInv
    OBVIOUS
  <1>1. RegistryTypeOK
    BY RegistryAssumption DEF RegistryInit, RegistryTypeOK, Versions, Call, NoCall
  <1>2. FloorsAreSettled /\ CacheIsFresh /\ WaitersAreServed /\ ReadsAreFresh
    BY DEF RegistryInit, NoCall, FloorsAreSettled, CacheIsFresh, WaitersAreServed, ReadsAreFresh
  <1> QED
    BY <1>1, <1>2 DEF RegistryInv

\* A call that begins, ends or is answered by itself.
LEMMA OwnStep ==
    ASSUME RegistryInv, NEW c \in Callers,
           Hit(c) \/ ReadInTransaction(c) \/ Join(c) \/ Miss(c) \/ Load(c) \/ Finish(c)
    PROVE  RegistryInv'
  <1> USE RegistryAssumption DEF RegistryInv
  <1>0. /\ table \in Nat /\ settled \in Nat /\ epoch \in Nat
        /\ cache # None => cache \in Nat
        /\ \A d \in Callers : /\ calls[d].epoch \in Nat
                             /\ calls[d].data \in Nat /\ calls[d].floor \in Nat
    BY Numbers
  <1>1. CASE Hit(c)
    <2>1. calls' = [calls EXCEPT ![c] = Returned(settled, cache)] /\ cache \in Versions /\ cache >= settled
          /\ UNCHANGED <<table, cache, inFlight, epoch, edits, settled>> /\ calls[c].pc = "idle"
      BY <1>1 DEF Hit, CacheIsFresh, RegistryTypeOK
    <2>2. Returned(settled, cache) = [pc |-> "returned", owner |-> None, epoch |-> 0, data |-> cache, floor |-> settled]
      BY DEF Returned
    <2>3. RegistryTypeOK'
      BY <2>1, <2>2 DEF RegistryTypeOK, Call
    <2>4. FloorsAreSettled' /\ ReadsAreFresh'
      BY <1>0, <2>1, <2>2 DEF FloorsAreSettled, ReadsAreFresh, RegistryTypeOK
    <2>5. CacheIsFresh' /\ WaitersAreServed'
      BY <1>0, <2>1, <2>2 DEF CacheIsFresh, WaitersAreServed, RegistryTypeOK
    <2> QED
      BY <2>3, <2>4, <2>5
  <1>2. CASE ReadInTransaction(c)
    <2>1. calls' = [calls EXCEPT ![c] = Returned(settled, table)] /\ table >= settled
          /\ UNCHANGED <<table, cache, inFlight, epoch, edits, settled>> /\ calls[c].pc = "idle"
      BY <1>2 DEF ReadInTransaction, FloorsAreSettled, RegistryTypeOK
    <2>2. Returned(settled, table) = [pc |-> "returned", owner |-> None, epoch |-> 0, data |-> table, floor |-> settled]
      BY DEF Returned
    <2>3. RegistryTypeOK'
      BY <2>1, <2>2 DEF RegistryTypeOK, Call
    <2>4. FloorsAreSettled' /\ ReadsAreFresh'
      BY <1>0, <2>1, <2>2 DEF FloorsAreSettled, ReadsAreFresh, RegistryTypeOK
    <2>5. CacheIsFresh' /\ WaitersAreServed'
      BY <1>0, <2>1, <2>2 DEF CacheIsFresh, WaitersAreServed, RegistryTypeOK
    <2> QED
      BY <2>3, <2>4, <2>5
  <1>3. CASE Join(c)
    <2> DEFINE waiting == [pc |-> "wait", owner |-> inFlight, epoch |-> 0, data |-> 0, floor |-> settled]
    <2>1. calls' = [calls EXCEPT ![c] = waiting] /\ inFlight \in Callers /\ inFlight # None
          /\ UNCHANGED <<table, cache, inFlight, epoch, edits, settled>> /\ calls[c].pc = "idle"
      BY <1>3 DEF Join, NoCall, RegistryTypeOK
    <2>2. calls[inFlight].pc \in {"query", "loaded"}
          /\ (calls[inFlight].pc = "loaded" => calls[inFlight].data >= settled)
      BY <2>1 DEF CacheIsFresh
    <2>3. RegistryTypeOK'
      BY <2>1 DEF RegistryTypeOK, Call, Versions
    <2>4. FloorsAreSettled' /\ ReadsAreFresh'
      BY <1>0, <2>1 DEF FloorsAreSettled, ReadsAreFresh, RegistryTypeOK
    <2>5. CacheIsFresh'
      BY <1>0, <2>1, <2>2 DEF CacheIsFresh, RegistryTypeOK
    <2>6. WaitersAreServed'
      BY <1>0, <2>1, <2>2 DEF WaitersAreServed, RegistryTypeOK
    <2> QED
      BY <2>3, <2>4, <2>5, <2>6
  <1>4. CASE Miss(c)
    <2> DEFINE asking == [pc |-> "query", owner |-> None, epoch |-> epoch, data |-> 0, floor |-> settled]
    <2>1. calls' = [calls EXCEPT ![c] = asking] /\ inFlight' = c /\ cache = None
          /\ UNCHANGED <<table, cache, epoch, edits, settled>> /\ calls[c].pc = "idle"
      BY <1>4 DEF Miss, NoCall
    <2>2. RegistryTypeOK'
      BY <2>1 DEF RegistryTypeOK, Call, Versions
    <2>3. FloorsAreSettled' /\ ReadsAreFresh'
      BY <1>0, <2>1 DEF FloorsAreSettled, ReadsAreFresh, RegistryTypeOK
    <2>4. CacheIsFresh'
      BY <1>0, <2>1 DEF CacheIsFresh, RegistryTypeOK
    <2>5. WaitersAreServed'
      BY <1>0, <2>1 DEF WaitersAreServed, RegistryTypeOK
    <2> QED
      BY <2>2, <2>3, <2>4, <2>5
  <1>5. CASE Load(c)
    <2>1. calls' = [calls EXCEPT ![c].pc = "loaded", ![c].data = table] /\ calls[c].pc = "query"
          /\ UNCHANGED <<table, cache, inFlight, epoch, edits, settled>>
      BY <1>5 DEF Load
    <2>2. ASSUME NEW d \in Callers PROVE calls[d].floor <= table
      <3>1. calls[d].floor <= settled /\ settled <= table
        BY DEF FloorsAreSettled
      <3> QED
        BY <3>1, <1>0
    <2>3. RegistryTypeOK'
      BY <2>1, ZenonT(40) DEF RegistryTypeOK, Call
    <2>4. FloorsAreSettled' /\ ReadsAreFresh'
      BY <1>0, <2>1 DEF FloorsAreSettled, ReadsAreFresh, RegistryTypeOK
    <2>5. CacheIsFresh'
      BY <1>0, <2>1, <2>2 DEF CacheIsFresh, FloorsAreSettled, RegistryTypeOK
    <2>6. WaitersAreServed'
      BY <1>0, <2>1, <2>2 DEF WaitersAreServed, RegistryTypeOK
    <2> QED
      BY <2>3, <2>4, <2>5, <2>6
  <1>6. CASE Finish(c)
    <2>1. calls' = [calls EXCEPT ![c] = NoCall] /\ calls[c].pc = "returned"
          /\ UNCHANGED <<table, cache, inFlight, epoch, edits, settled>>
      BY <1>6 DEF Finish
    <2>2. RegistryTypeOK'
      BY <2>1 DEF RegistryTypeOK, Call, NoCall, Versions
    <2>3. FloorsAreSettled' /\ ReadsAreFresh'
      BY <1>0, <2>1 DEF FloorsAreSettled, ReadsAreFresh, RegistryTypeOK, NoCall
    <2>4. CacheIsFresh' /\ WaitersAreServed'
      BY <1>0, <2>1 DEF CacheIsFresh, WaitersAreServed, RegistryTypeOK, NoCall
    <2> QED
      BY <2>2, <2>3, <2>4
  <1> QED
    BY <1>1, <1>2, <1>3, <1>4, <1>5, <1>6

\* A query that ends takes all who wait for it along.
LEMMA QueryEnds ==
    ASSUME RegistryInv, NEW c \in Callers, Deliver(c) \/ LoadFails(c)
    PROVE  RegistryInv'
  <1> USE RegistryAssumption DEF RegistryInv
  <1>0. /\ table \in Nat /\ settled \in Nat /\ epoch \in Nat
        /\ cache # None => cache \in Nat
        /\ \A d \in Callers : /\ calls[d].epoch \in Nat
                             /\ calls[d].data \in Nat /\ calls[d].floor \in Nat
    BY Numbers
  <1>1. CASE Deliver(c)
    <2> DEFINE taken(d) == d = c \/ (calls[d].pc = "wait" /\ calls[d].owner = c)
    <2>1. /\ calls[c].pc = "loaded" /\ inFlight' = None
          /\ cache' = IF calls[c].epoch = epoch THEN calls[c].data ELSE cache
          /\ UNCHANGED <<table, epoch, edits, settled>>
      BY <1>1 DEF Deliver
    <2>2. calls' = [d \in Callers |-> IF taken(d) THEN Returned(calls[d].floor, calls[c].data) ELSE calls[d]]
      BY <1>1 DEF Deliver
    <2>3. \A d \in Callers : Returned(calls[d].floor, calls[c].data)
              = [pc |-> "returned", owner |-> None, epoch |-> 0, data |-> calls[c].data, floor |-> calls[d].floor]
      BY DEF Returned
    <2>4. \A d \in Callers : taken(d) => calls[c].data >= calls[d].floor
      BY <2>1 DEF CacheIsFresh, WaitersAreServed
    <2>5. \A d \in Callers : taken(d) =>
             /\ calls'[d] \in Call
             /\ calls'[d].pc = "returned" /\ calls'[d].data = calls[c].data /\ calls'[d].floor = calls[d].floor
      <3> TAKE d \in Callers
      <3> HAVE taken(d)
      <3>1. calls'[d] = [pc |-> "returned", owner |-> None, epoch |-> 0, data |-> calls[c].data, floor |-> calls[d].floor]
        BY <2>2, <2>3
      <3>2. calls[c].data \in Versions /\ calls[d].floor \in Versions
        BY CallShape
      <3> QED
        BY <3>1, <3>2 DEF Call
    <2>6. \A d \in Callers : ~taken(d) => calls'[d] = calls[d]
      BY <2>2
    <2>7. taken(c) /\ \A d \in Callers : calls[d].pc \in {"query", "loaded"} /\ d # c => ~taken(d)
      OBVIOUS
    <2>8. \A d \in Callers : ~taken(d) /\ calls[d].pc = "wait" => calls[d].owner # c
      OBVIOUS
    <2>9. calls' \in [Callers -> Call]
      <3>1. \A d \in Callers : calls'[d] \in Call
        BY <2>5, <2>6, CallShape
      <3> QED
        BY <3>1, <2>2
    <2> HIDE DEF taken
    <2>10. RegistryTypeOK'
      <3>1. calls[c].data \in Versions
        BY CallShape
      <3> QED
        BY <2>1, <2>9, <3>1 DEF RegistryTypeOK
    <2>11. FloorsAreSettled' /\ ReadsAreFresh'
      BY <1>0, <2>1, <2>4, <2>5, <2>6 DEF FloorsAreSettled, ReadsAreFresh
    <2>12. CacheIsFresh'
      BY <1>0, <2>1, <2>5, <2>6 DEF CacheIsFresh
    <2>13. WaitersAreServed'
      BY <2>1, <2>5, <2>6, <2>7, <2>8 DEF WaitersAreServed
    <2> QED
      BY <2>10, <2>11, <2>12, <2>13
  <1>2. CASE LoadFails(c)
    <2> DEFINE failed(d) == d = c \/ (calls[d].pc = "wait" /\ calls[d].owner = c)
    <2>1. /\ calls[c].pc = "query" /\ inFlight' = None
          /\ calls' = [d \in Callers |-> IF failed(d) THEN NoCall ELSE calls[d]]
          /\ UNCHANGED <<table, cache, epoch, edits, settled>>
      BY <1>2 DEF LoadFails
    <2>2. RegistryTypeOK'
      BY <2>1 DEF RegistryTypeOK, Call, NoCall, Versions
    <2>3. FloorsAreSettled' /\ ReadsAreFresh'
      BY <1>0, <2>1 DEF FloorsAreSettled, ReadsAreFresh, RegistryTypeOK, NoCall
    <2>4. CacheIsFresh' /\ WaitersAreServed'
      BY <1>0, <2>1 DEF CacheIsFresh, WaitersAreServed, RegistryTypeOK, NoCall
    <2> QED
      BY <2>2, <2>3, <2>4
  <1> QED
    BY <1>1, <1>2

\* What the administrators and time do to the calls of others: a query that was begun
\* before an invalidation belongs to an earlier epoch after it.
LEMMA OtherSteps ==
    ASSUME RegistryInv,
           (\E e \in Editors : CommitEdit(e) \/ Invalidate(e)) \/ Expire \/ RestartServer
    PROVE  RegistryInv'
  <1> USE RegistryAssumption DEF RegistryInv
  <1>0. /\ table \in Nat /\ settled \in Nat /\ epoch \in Nat
        /\ cache # None => cache \in Nat
        /\ \A d \in Callers : /\ calls[d].epoch \in Nat
                             /\ calls[d].data \in Nat /\ calls[d].floor \in Nat
    BY Numbers
  <1>1. ASSUME NEW e \in Editors, CommitEdit(e) PROVE RegistryInv'
    <2>1. /\ table' = table + 1 /\ table < MaxVersion /\ edits' = [edits EXCEPT ![e] = "committed"]
          /\ UNCHANGED <<cache, inFlight, epoch, calls, settled>>
      BY <1>1 DEF CommitEdit
    <2>2. RegistryTypeOK'
      BY <2>1 DEF RegistryTypeOK, Versions
    <2>3. FloorsAreSettled'
      BY <1>0, <2>1 DEF FloorsAreSettled, RegistryTypeOK
    <2>4. CacheIsFresh' /\ WaitersAreServed' /\ ReadsAreFresh'
      BY <1>0, <2>1 DEF CacheIsFresh, WaitersAreServed, ReadsAreFresh
    <2> QED
      BY <2>2, <2>3, <2>4
  <1>2. ASSUME NEW e \in Editors, Invalidate(e) PROVE RegistryInv'
    <2>1. /\ epoch' = epoch + 1 /\ cache' = None /\ inFlight' = None /\ settled' = table
          /\ edits' = [edits EXCEPT ![e] = "idle"] /\ UNCHANGED <<table, calls>>
      BY <1>2 DEF Invalidate
    <2>2. RegistryTypeOK'
      BY <2>1 DEF RegistryTypeOK
    <2>3. FloorsAreSettled' /\ WaitersAreServed' /\ ReadsAreFresh'
      BY <1>0, <2>1 DEF FloorsAreSettled, WaitersAreServed, ReadsAreFresh, RegistryTypeOK
    <2>4. CacheIsFresh'
      BY <1>0, <2>1 DEF CacheIsFresh, RegistryTypeOK
    <2> QED
      BY <2>2, <2>3, <2>4
  <1>3. ASSUME Expire PROVE RegistryInv'
    BY <1>3 DEF Expire, RegistryTypeOK, FloorsAreSettled, CacheIsFresh, WaitersAreServed, ReadsAreFresh
  <1>4. ASSUME RestartServer PROVE RegistryInv'
    BY <1>4 DEF RestartServer, NoCall, Call, Versions,
                RegistryTypeOK, FloorsAreSettled, CacheIsFresh, WaitersAreServed, ReadsAreFresh
  <1> QED
    BY <1>1, <1>2, <1>3, <1>4

LEMMA StepKeepsInv == RegistryInv /\ [RegistryNext]_registryVars => RegistryInv'
  <1> SUFFICES ASSUME RegistryInv, [RegistryNext]_registryVars PROVE RegistryInv'
    OBVIOUS
  <1>1. CASE \E c \in Callers : Hit(c) \/ ReadInTransaction(c) \/ Join(c) \/ Miss(c) \/ Load(c) \/ Finish(c)
    BY <1>1, OwnStep
  <1>2. CASE \E c \in Callers : Deliver(c) \/ LoadFails(c)
    BY <1>2, QueryEnds
  <1>3. CASE (\E e \in Editors : CommitEdit(e) \/ Invalidate(e)) \/ Expire \/ RestartServer
    BY <1>3, OtherSteps
  <1>4. CASE UNCHANGED registryVars
    BY <1>4 DEF registryVars, RegistryInv, RegistryTypeOK, FloorsAreSettled, CacheIsFresh,
                WaitersAreServed, ReadsAreFresh
  <1> QED
    BY <1>1, <1>2, <1>3, <1>4 DEF RegistryNext

\* A call that begins after an edit has invalidated the registry returns that edit or a later
\* one, from the cache or from a query it joined (plan-registry.ts:207).
THEOREM RegistryIsFresh == RegistrySpec => []ReadsAreFresh
  <1>1. RegistryInv => ReadsAreFresh
    BY DEF RegistryInv
  <1> QED
    BY InitialInv, StepKeepsInv, <1>1, PTL DEF RegistrySpec

\* The registry keeps its types (plan-registry.ts:62).
THEOREM RegistryTypes == RegistrySpec => []RegistryTypeOK
  <1>1. RegistryInv => RegistryTypeOK
    BY DEF RegistryInv
  <1> QED
    BY InitialInv, StepKeepsInv, <1>1, PTL DEF RegistrySpec

-----------------------------------------------------------------------------

(* The members of a brand. *)

MaybeMember == Membership \cup {Nobody}

Visit ==
    [pc: {"idle", "arrived", "read", "insert", "undo", "count", "write", "done", "refused"},
     op: {"none", "signup", "invite", "role", "remove", "restore"},
     target: People \cup {Nobody}, role: Roles \cup {Nobody}, seen: MaybeMember]

TeamShape ==
    /\ member \in [People -> MaybeMember] /\ account \subseteq People
    /\ visit \in [People -> Visit] /\ roster \in [People -> [People -> MaybeMember]]

\* What each phase of a request has behind it: whom it is about, that he is a
\* member, and that the one who asks was an owner when he was let in.
Fits(u) ==
    /\ visit[u].pc # "idle" => visit[u].op # "none"
    /\ visit[u].op # "none" => visit[u].target \in People
    /\ visit[u].op \in {"signup", "invite", "role"} => visit[u].role \in Roles
    /\ visit[u].pc \in {"insert", "undo"} => visit[u].op \in {"signup", "invite"}
    /\ visit[u].pc \in {"count", "write"} => /\ visit[u].op \in {"role", "remove", "restore"}
                                             /\ member[visit[u].target] # Nobody
    /\ visit[u].pc \in {"read", "insert", "undo", "count", "write"} /\ visit[u].op # "signup"
          => u \in entitled

\* The inductive invariant of the members.
TeamInv == TeamShape /\ (\A u \in People : Fits(u)) /\ NoOrphanAccount

LEMMA NoVisitShape == NoVisit \in Visit /\ NoVisit.pc = "idle" /\ NoVisit.op = "none"
BY DEF NoVisit, Visit, MaybeMember

LEMMA TeamInvInit == TeamInit => TeamInv
<1> SUFFICES ASSUME TeamInit PROVE TeamInv
  OBVIOUS
<1>1. TeamShape
  BY NoVisitShape, TeamAssumption DEF TeamInit, TeamShape, NoRoster, MaybeMember
<1>2. \A u \in People : Fits(u)
  BY NoVisitShape DEF TeamInit, Fits
<1>3. NoOrphanAccount
  BY DEF TeamInit, NoOrphanAccount
<1>4. QED
  BY <1>1, <1>2, <1>3 DEF TeamInv

\* What the record of a request becomes: the fields that a step sets, and the
\* others as they were.
LEMMA ProceedEffect ==
    ASSUME TeamShape, NEW u \in People,
           NEW pc \in {"idle", "arrived", "read", "insert", "undo", "count", "write", "done", "refused"},
           NEW seen \in MaybeMember,
           \/ visit' = [visit EXCEPT ![u].pc = pc]
           \/ visit' = [visit EXCEPT ![u].seen = seen, ![u].pc = pc]
    PROVE  /\ visit' \in [People -> Visit]
           /\ visit'[u].pc = pc /\ visit'[u].op = visit[u].op
           /\ visit'[u].target = visit[u].target /\ visit'[u].role = visit[u].role
           /\ \A q \in People : q # u => visit'[q] = visit[q]
<1>1. PICK v : v = [visit[u] EXCEPT !.pc = pc]
  OBVIOUS
<1>2. PICK w : w = [visit[u] EXCEPT !.seen = seen, !.pc = pc]
  OBVIOUS
<1>3. visit[u] \in Visit /\ visit \in [People -> Visit]
  BY DEF TeamShape
<1>4. /\ v \in Visit /\ v.pc = pc /\ v.op = visit[u].op
      /\ v.target = visit[u].target /\ v.role = visit[u].role
  BY <1>1, <1>3 DEF Visit
<1>5. /\ w \in Visit /\ w.pc = pc /\ w.op = visit[u].op
      /\ w.target = visit[u].target /\ w.role = visit[u].role
  BY <1>2, <1>3 DEF Visit
<1>6. visit' = [visit EXCEPT ![u] = v] \/ visit' = [visit EXCEPT ![u] = w]
  BY <1>1, <1>2, <1>3
<1>7. QED
  BY <1>3, <1>4, <1>5, <1>6

LEMMA BeginEffect ==
    ASSUME TeamShape, NEW u \in People,
           NEW op \in {"signup", "invite", "role", "remove", "restore"},
           NEW target \in People, NEW role \in Roles \cup {Nobody}, Begin(u, op, target, role)
    PROVE  /\ visit' \in [People -> Visit]
           /\ visit'[u].pc = "arrived" /\ visit'[u].op = op
           /\ visit'[u].target = target /\ visit'[u].role = role
           /\ \A q \in People : q # u => visit'[q] = visit[q] /\ (q \in entitled => q \in entitled')
<1>1. PICK v : v = [NoVisit EXCEPT !.pc = "arrived", !.op = op, !.target = target, !.role = role]
  OBVIOUS
<1>2. v \in Visit /\ v.pc = "arrived" /\ v.op = op /\ v.target = target /\ v.role = role
  BY <1>1 DEF NoVisit, Visit, MaybeMember
<1>3. visit' = [visit EXCEPT ![u] = v] /\ visit \in [People -> Visit]
  BY <1>1 DEF Begin, TeamShape
<1>4. \A q \in People : q # u => (q \in entitled => q \in entitled')
  BY DEF Begin
<1>5. QED
  BY <1>2, <1>3, <1>4

\* One request goes one phase on.
Onward(u) ==
    \/ visit'[u].pc \in {"done", "refused"}
    \/ visit[u].pc = "arrived" /\ visit[u].op # "signup" /\ visit'[u].pc = "read" /\ u \in entitled'
    \/ visit[u].pc = "arrived" /\ visit[u].op = "signup" /\ visit'[u].pc = "insert"
    \/ visit[u].pc = "read" /\ visit[u].op = "invite" /\ visit'[u].pc = "insert"
    \/ visit[u].pc = "insert" /\ visit'[u].pc = "undo"
    \/ /\ visit[u].pc = "read" /\ visit[u].op \in {"role", "remove", "restore"}
       /\ member[visit[u].target] # Nobody /\ visit'[u].pc \in {"count", "write"}
    \/ visit[u].pc = "count" /\ visit'[u].pc = "write"

LEMMA FitsStep ==
    ASSUME TeamInv, NEW u \in People, visit[u].pc # "idle", Onward(u),
           visit'[u].op = visit[u].op, visit'[u].target = visit[u].target,
           visit'[u].role = visit[u].role,
           \A q \in People : q # u => visit'[q] = visit[q],
           \A t \in People : member[t] # Nobody => member'[t] # Nobody,
           entitled \subseteq entitled'
    PROVE  \A q \in People : Fits(q)'
<1> SUFFICES ASSUME NEW q \in People PROVE Fits(q)'
  OBVIOUS
<1>1. Fits(q) /\ Fits(u)
  BY DEF TeamInv
<1>2. CASE q = u
  <2>1. visit[u].target \in People /\ member[visit[u].target] # Nobody
          => member'[visit[u].target] # Nobody
    OBVIOUS
  <2>2. QED
    BY <1>1, <1>2, <2>1 DEF Fits, Onward
<1>3. CASE q # u
  <2>1. visit'[q] = visit[q] /\ (q \in entitled => q \in entitled')
    BY <1>3
  <2>2. visit[q].op # "none" /\ member[visit[q].target] # Nobody => member'[visit[q].target] # Nobody
    BY <1>1 DEF Fits
  <2>3. visit[q].pc \in {"count", "write"} => visit[q].op # "none"
    BY <1>1 DEF Fits
  <2>4. QED
    BY <1>1, <2>1, <2>2, <2>3 DEF Fits
<1>4. QED
  BY <1>2, <1>3

\* Without a change of the tables, an account is still accounted for unless its
\* request leaves the phases in which it waits for its member.
LEMMA OrphanStep ==
    ASSUME TeamInv, NEW u \in People, UNCHANGED <<member, account>>, excused \subseteq excused',
           \A q \in People : q # u => visit'[q] = visit[q],
           visit'[u].target = visit[u].target,
           \/ visit[u].pc \notin {"insert", "undo"}
           \/ visit'[u].pc \in {"insert", "undo"}
           \/ visit[u].target \in excused'
    PROVE  NoOrphanAccount'
<1> SUFFICES ASSUME NEW t \in account \ (Outsiders \cup excused'), member[t] = Nobody
             PROVE  \E q \in People : visit'[q].target = t /\ visit'[q].pc \in {"insert", "undo"}
  BY DEF NoOrphanAccount
<1>1. PICK q \in People : visit[q].target = t /\ visit[q].pc \in {"insert", "undo"}
  BY DEF TeamInv, NoOrphanAccount
<1>2. CASE q = u
  BY <1>1, <1>2
<1>3. CASE q # u
  BY <1>1, <1>3
<1>4. QED
  BY <1>2, <1>3

LEMMA ServeVisitStep ==
    ASSUME TeamInv, NEW u \in People, ServeVisit(u)
    PROVE  TeamInv'
<1>0. /\ TeamShape /\ Fits(u) /\ visit[u] \in Visit /\ visit[u].target \in People \cup {Nobody}
      /\ roster' = roster /\ entitled \subseteq entitled' /\ Nobody \in MaybeMember
      /\ member \in [People -> MaybeMember]
  BY DEF TeamInv, TeamShape, ServeVisit, Visit, MaybeMember
<1>1. CASE Admit(u)
  <2>1. PICK pc \in {"read", "refused"} :
          visit' = [visit EXCEPT ![u].pc = pc] /\ (pc = "read" => IsOwner(u))
    BY <1>1 DEF Admit, Proceed
  <2>2. UNCHANGED <<member, account, founded, excused>> /\ visit[u].pc = "arrived" /\ visit[u].op # "signup"
    BY <1>1 DEF Admit
  <2>3. IsOwner(u) => u \in entitled'
    BY <2>2 DEF IsOwner, ServeVisit
  <2>4. /\ visit' \in [People -> Visit]
        /\ visit'[u].pc = pc /\ visit'[u].op = visit[u].op
        /\ visit'[u].target = visit[u].target /\ visit'[u].role = visit[u].role
        /\ \A q \in People : q # u => visit'[q] = visit[q]
    BY <1>0, <2>1, ProceedEffect
  <2>5. Onward(u) /\ visit[u].pc # "idle"
    BY <2>1, <2>2, <2>3, <2>4 DEF Onward
  <2>6. \A q \in People : Fits(q)'
    BY <1>0, <2>2, <2>4, <2>5, FitsStep
  <2>7. NoOrphanAccount'
    BY <2>2, <2>4, OrphanStep
  <2>8. QED
    BY <1>0, <2>2, <2>4, <2>6, <2>7 DEF TeamInv, TeamShape
<1>2. CASE MakeAccount(u)
  <2>0. /\ \/ visit[u].op = "signup" /\ visit[u].pc = "arrived"
           \/ visit[u].op = "invite" /\ visit[u].pc = "read"
        /\ visit[u].target \in People /\ UNCHANGED <<member, founded, excused>>
    BY <1>0, <1>2 DEF MakeAccount, Fits
  <2>1. PICK pc \in {"insert", "refused"} :
          /\ visit' = [visit EXCEPT ![u].pc = pc]
          /\ account' = IF pc = "insert" THEN account \cup {visit[u].target} ELSE account
    BY <1>2 DEF MakeAccount, Proceed
  <2>2. /\ visit' \in [People -> Visit]
        /\ visit'[u].pc = pc /\ visit'[u].op = visit[u].op
        /\ visit'[u].target = visit[u].target /\ visit'[u].role = visit[u].role
        /\ \A q \in People : q # u => visit'[q] = visit[q]
    BY <1>0, <2>1, ProceedEffect
  <2>3. Onward(u) /\ visit[u].pc # "idle"
    BY <2>0, <2>1, <2>2 DEF Onward
  <2>4. \A q \in People : Fits(q)'
    BY <1>0, <2>0, <2>2, <2>3, FitsStep
  <2>5. NoOrphanAccount'
    <3> SUFFICES ASSUME NEW t \in account' \ (Outsiders \cup excused), member[t] = Nobody
                 PROVE  \E q \in People : visit'[q].target = t /\ visit'[q].pc \in {"insert", "undo"}
      BY <2>0 DEF NoOrphanAccount
    <3>1. CASE t \in account
      <4>1. PICK q \in People : visit[q].target = t /\ visit[q].pc \in {"insert", "undo"}
        BY <3>1 DEF TeamInv, NoOrphanAccount
      <4>2. q # u
        BY <2>0, <4>1
      <4>3. QED
        BY <2>2, <4>1, <4>2
    <3>2. CASE t \notin account
      <4>1. pc = "insert" /\ t = visit[u].target
        BY <2>1, <3>2
      <4>2. QED
        BY <2>2, <4>1
    <3>3. QED
      BY <3>1, <3>2
  <2>6. account' \subseteq People
    BY <1>0, <2>0, <2>1 DEF TeamShape
  <2>7. QED
    BY <1>0, <2>0, <2>2, <2>4, <2>5, <2>6 DEF TeamInv, TeamShape
<1>3. CASE InsertMember(u)
  <2>0. /\ visit[u].pc = "insert" /\ visit[u].target \in People /\ visit[u].role \in Roles
        /\ UNCHANGED <<account, excused>> /\ visit' = [visit EXCEPT ![u].pc = "done"]
    BY <1>0, <1>3 DEF InsertMember, Proceed, Fits
  <2>1. /\ member' = [member EXCEPT ![visit[u].target] = [role |-> visit[u].role, status |-> "active"]]
        /\ [role |-> visit[u].role, status |-> "active"] \in Membership
    BY <1>3, <2>0 DEF InsertMember, Membership
  <2>2. /\ member' \in [People -> MaybeMember] /\ member'[visit[u].target] # Nobody
        /\ \A t \in People : t # visit[u].target => member'[t] = member[t]
    BY <1>0, <2>0, <2>1, TeamAssumption DEF MaybeMember
  <2>3. /\ visit' \in [People -> Visit]
        /\ visit'[u].pc = "done" /\ visit'[u].op = visit[u].op
        /\ visit'[u].target = visit[u].target /\ visit'[u].role = visit[u].role
        /\ \A q \in People : q # u => visit'[q] = visit[q]
    BY <1>0, <2>0, ProceedEffect
  <2>4. \A q \in People : Fits(q)'
    BY <1>0, <2>0, <2>2, <2>3, FitsStep DEF Onward
  <2>5. NoOrphanAccount'
    <3> SUFFICES ASSUME NEW t \in account \ (Outsiders \cup excused), member'[t] = Nobody
                 PROVE  \E q \in People : visit'[q].target = t /\ visit'[q].pc \in {"insert", "undo"}
      BY <2>0 DEF NoOrphanAccount
    <3>1. t \in People /\ t # visit[u].target /\ member[t] = Nobody
      BY <1>0, <2>2 DEF TeamShape
    <3>2. PICK q \in People : visit[q].target = t /\ visit[q].pc \in {"insert", "undo"}
      BY <3>1 DEF TeamInv, NoOrphanAccount
    <3>3. q # u
      BY <3>1, <3>2
    <3>4. QED
      BY <2>3, <3>2, <3>3
  <2>6. QED
    BY <1>0, <2>0, <2>2, <2>3, <2>4, <2>5 DEF TeamInv, TeamShape
<1>4. CASE InsertThrows(u)
  <2>0. /\ visit[u].pc = "insert" /\ UNCHANGED <<member, account, excused>>
        /\ visit' = [visit EXCEPT ![u].pc = "undo"]
    BY <1>4 DEF InsertThrows, Proceed
  <2>1. /\ visit' \in [People -> Visit]
        /\ visit'[u].pc = "undo" /\ visit'[u].op = visit[u].op
        /\ visit'[u].target = visit[u].target /\ visit'[u].role = visit[u].role
        /\ \A q \in People : q # u => visit'[q] = visit[q]
    BY <1>0, <2>0, ProceedEffect
  <2>2. \A q \in People : Fits(q)'
    BY <1>0, <2>0, <2>1, FitsStep DEF Onward
  <2>3. NoOrphanAccount'
    BY <2>0, <2>1, OrphanStep
  <2>4. QED
    BY <1>0, <2>0, <2>1, <2>2, <2>3 DEF TeamInv, TeamShape
<1>5. CASE UndoAccount(u)
  <2>0. /\ visit[u].pc = "undo" /\ account' = account \ {visit[u].target}
        /\ UNCHANGED <<member, excused>> /\ visit' = [visit EXCEPT ![u].pc = "refused"]
    BY <1>5 DEF UndoAccount, Proceed
  <2>1. /\ visit' \in [People -> Visit]
        /\ visit'[u].pc = "refused" /\ visit'[u].op = visit[u].op
        /\ visit'[u].target = visit[u].target /\ visit'[u].role = visit[u].role
        /\ \A q \in People : q # u => visit'[q] = visit[q]
    BY <1>0, <2>0, ProceedEffect
  <2>2. \A q \in People : Fits(q)'
    BY <1>0, <2>0, <2>1, FitsStep DEF Onward
  <2>3. NoOrphanAccount'
    <3> SUFFICES ASSUME NEW t \in account' \ (Outsiders \cup excused), member[t] = Nobody
                 PROVE  \E q \in People : visit'[q].target = t /\ visit'[q].pc \in {"insert", "undo"}
      BY <2>0 DEF NoOrphanAccount
    <3>1. PICK q \in People : visit[q].target = t /\ visit[q].pc \in {"insert", "undo"}
      BY <2>0 DEF TeamInv, NoOrphanAccount
    <3>2. q # u
      BY <2>0, <3>1
    <3>3. QED
      BY <2>1, <3>1, <3>2
  <2>4. account' \subseteq People
    BY <1>0, <2>0 DEF TeamShape
  <2>5. QED
    BY <1>0, <2>0, <2>1, <2>2, <2>3, <2>4 DEF TeamInv, TeamShape
<1>6. CASE UndoFails(u) \/ Die(u)
  <2>0. /\ visit[u].pc # "idle" /\ UNCHANGED <<member, account>>
        /\ excused' = excused \cup {visit[u].target}
        /\ visit' = [visit EXCEPT ![u].pc = "refused"]
    BY <1>6 DEF UndoFails, Die, Proceed
  <2>1. /\ visit' \in [People -> Visit]
        /\ visit'[u].pc = "refused" /\ visit'[u].op = visit[u].op
        /\ visit'[u].target = visit[u].target /\ visit'[u].role = visit[u].role
        /\ \A q \in People : q # u => visit'[q] = visit[q]
    BY <1>0, <2>0, ProceedEffect
  <2>2. \A q \in People : Fits(q)'
    BY <1>0, <2>0, <2>1, FitsStep DEF Onward
  <2>3. NoOrphanAccount'
    BY <2>0, <2>1, OrphanStep
  <2>4. QED
    BY <1>0, <2>0, <2>1, <2>2, <2>3 DEF TeamInv, TeamShape
<1>7. CASE ReadMember(u)
  <2>0. /\ visit[u].pc = "read" /\ visit[u].op \in {"role", "remove", "restore"}
        /\ visit[u].target \in People /\ UNCHANGED <<member, account, founded, excused>>
    BY <1>0, <1>7 DEF ReadMember, Fits
  <2>1. PICK m \in MaybeMember : m = member[visit[u].target]
    BY <1>0, <2>0
  <2>2. PICK pc \in {"refused", "done", "write", "count"} :
           pc = IF (visit[u].op = "remove" /\ visit[u].target = u) \/ m = Nobody THEN "refused"
                ELSE CASE visit[u].op = "role" /\ m.role = visit[u].role -> "done"
                       [] visit[u].op = "restore" -> IF m.status = "active" THEN "done" ELSE "write"
                       [] OTHER -> "count"
    OBVIOUS
  <2>3. visit' = [visit EXCEPT ![u].seen = m, ![u].pc = pc]
    BY <1>7, <2>1, <2>2 DEF ReadMember
  <2>4. pc \in {"write", "count"} => m # Nobody
    BY <2>2
  <2>5. /\ visit' \in [People -> Visit]
        /\ visit'[u].pc = pc /\ visit'[u].op = visit[u].op
        /\ visit'[u].target = visit[u].target /\ visit'[u].role = visit[u].role
        /\ \A q \in People : q # u => visit'[q] = visit[q]
    BY <1>0, <2>3, ProceedEffect
  <2>6. Onward(u) /\ visit[u].pc # "idle"
    BY <2>0, <2>1, <2>2, <2>4, <2>5 DEF Onward
  <2>7. \A q \in People : Fits(q)'
    BY <1>0, <2>0, <2>5, <2>6, FitsStep
  <2>8. NoOrphanAccount'
    BY <2>0, <2>5, OrphanStep
  <2>9. QED
    BY <1>0, <2>0, <2>5, <2>7, <2>8 DEF TeamInv, TeamShape
<1>8. CASE CountOwners(u)
  <2>0. visit[u].pc = "count" /\ UNCHANGED <<member, account, founded, excused>>
    BY <1>8 DEF CountOwners
  <2>1. PICK pc \in {"write", "refused"} : visit' = [visit EXCEPT ![u].pc = pc]
    BY <1>8 DEF CountOwners, Proceed
  <2>2. /\ visit' \in [People -> Visit]
        /\ visit'[u].pc = pc /\ visit'[u].op = visit[u].op
        /\ visit'[u].target = visit[u].target /\ visit'[u].role = visit[u].role
        /\ \A q \in People : q # u => visit'[q] = visit[q]
    BY <1>0, <2>1, ProceedEffect
  <2>3. Onward(u) /\ visit[u].pc # "idle"
    BY <2>0, <2>1, <2>2 DEF Onward
  <2>4. \A q \in People : Fits(q)'
    BY <1>0, <2>0, <2>2, <2>3, FitsStep
  <2>5. NoOrphanAccount'
    BY <2>0, <2>2, OrphanStep
  <2>6. QED
    BY <1>0, <2>0, <2>2, <2>4, <2>5 DEF TeamInv, TeamShape
<1>9. CASE WriteMember(u)
  <2>0. /\ visit[u].pc = "write" /\ UNCHANGED <<account, founded, excused>>
        /\ visit' = [visit EXCEPT ![u].pc = "done"]
        /\ visit[u].op \in {"role", "remove", "restore"} /\ visit[u].target \in People
        /\ member[visit[u].target] # Nobody /\ (visit[u].op = "role" => visit[u].role \in Roles)
    BY <1>0, <1>9 DEF WriteMember, Proceed, Fits
  <2>1. PICK old \in Membership : old = member[visit[u].target]
    BY <1>0, <2>0 DEF MaybeMember
  <2>2. PICK new : new = (CASE visit[u].op = "role" -> [old EXCEPT !.role = visit[u].role]
                            [] visit[u].op = "remove" -> [old EXCEPT !.status = "suspended"]
                            [] OTHER -> [old EXCEPT !.status = "active"])
    OBVIOUS
  <2>3. new \in Membership
    BY <2>0, <2>2 DEF Membership
  <2>4. member' = [member EXCEPT ![visit[u].target] = new]
    BY <1>0, <1>9, <2>0, <2>1, <2>2 DEF WriteMember
  <2>5. /\ member' \in [People -> MaybeMember]
        /\ \A t \in People : member'[t] # member[t] => member[t] # Nobody /\ member'[t] # Nobody
    BY <1>0, <2>0, <2>3, <2>4, TeamAssumption DEF MaybeMember
  <2>6. /\ visit' \in [People -> Visit]
        /\ visit'[u].pc = "done" /\ visit'[u].op = visit[u].op
        /\ visit'[u].target = visit[u].target /\ visit'[u].role = visit[u].role
        /\ \A q \in People : q # u => visit'[q] = visit[q]
    BY <1>0, <2>0, ProceedEffect
  <2>7. \A q \in People : Fits(q)'
    BY <1>0, <2>0, <2>5, <2>6, FitsStep DEF Onward
  <2>8. NoOrphanAccount'
    <3> SUFFICES ASSUME NEW t \in account \ (Outsiders \cup excused), member'[t] = Nobody
                 PROVE  \E q \in People : visit'[q].target = t /\ visit'[q].pc \in {"insert", "undo"}
      BY <2>0 DEF NoOrphanAccount
    <3>1. t \in People /\ member[t] = Nobody
      BY <1>0, <2>5 DEF TeamShape
    <3>2. PICK q \in People : visit[q].target = t /\ visit[q].pc \in {"insert", "undo"}
      BY <3>1 DEF TeamInv, NoOrphanAccount
    <3>3. QED
      BY <2>0, <2>6, <3>2
  <2>9. QED
    BY <1>0, <2>0, <2>5, <2>6, <2>7, <2>8 DEF TeamInv, TeamShape
<1>10. QED
  BY <1>1, <1>2, <1>3, <1>4, <1>5, <1>6, <1>7, <1>8, <1>9 DEF ServeVisit

\* A request that begins.
LEMMA BeginStep ==
    ASSUME TeamInv, NEW u \in People,
           NEW op \in {"signup", "invite", "role", "remove", "restore"},
           NEW target \in People, NEW role \in Roles \cup {Nobody}, Begin(u, op, target, role),
           op \in {"signup", "invite", "role"} => role \in Roles,
           UNCHANGED <<member, account, roster, excused>>
    PROVE  TeamInv'
<1>0. TeamShape /\ visit[u].pc = "idle"
  BY DEF TeamInv, Begin
<1>1. /\ visit' \in [People -> Visit]
      /\ visit'[u].pc = "arrived" /\ visit'[u].op = op
      /\ visit'[u].target = target /\ visit'[u].role = role
      /\ \A q \in People : q # u => visit'[q] = visit[q] /\ (q \in entitled => q \in entitled')
  BY <1>0, BeginEffect
<1>2. \A q \in People : Fits(q)'
  <2> SUFFICES ASSUME NEW q \in People PROVE Fits(q)'
    OBVIOUS
  <2>1. CASE q = u
    BY <1>1, <2>1 DEF Fits
  <2>2. CASE q # u
    BY <1>1, <2>2 DEF Fits, TeamInv
  <2>3. QED
    BY <2>1, <2>2
<1>3. NoOrphanAccount'
  <2> SUFFICES ASSUME NEW t \in account \ (Outsiders \cup excused), member[t] = Nobody
               PROVE  \E q \in People : visit'[q].target = t /\ visit'[q].pc \in {"insert", "undo"}
    BY DEF NoOrphanAccount
  <2>1. PICK q \in People : visit[q].target = t /\ visit[q].pc \in {"insert", "undo"}
    BY DEF TeamInv, NoOrphanAccount
  <2>2. QED
    BY <1>0, <1>1, <2>1
<1>4. QED
  BY <1>0, <1>1, <1>2, <1>3 DEF TeamInv, TeamShape

LEMMA TeamInvStep ==
    ASSUME TeamInv, TeamNext
    PROVE  TeamInv'
<1>0. TeamShape /\ \A u \in People : Fits(u)
  BY DEF TeamInv
<1>1. ASSUME NEW u \in People, ServeVisit(u) PROVE TeamInv'
  BY <1>1, ServeVisitStep
<1>2. ASSUME NEW u \in People, SignUp(u) PROVE TeamInv'
  <2>1. Begin(u, "signup", u, "owner") /\ "owner" \in Roles
    BY <1>2 DEF SignUp, Roles
  <2>2. QED
    BY <1>2, <2>1, BeginStep DEF SignUp
<1>3. ASSUME NEW u \in People, Invite(u) PROVE TeamInv'
  BY <1>3, BeginStep DEF Invite
<1>4. ASSUME NEW u \in People, PressMember(u) PROVE TeamInv'
  <2>1. PICK t \in People, op \in {"restore", "role", "remove"}, r \in Roles \cup {Nobody} :
           Begin(u, op, t, r) /\ (op = "role" => r \in Roles)
    <3>1. PICK t \in People \ {u} :
             IF roster[u][t].status = "suspended" THEN Begin(u, "restore", t, Nobody)
             ELSE \/ Begin(u, "role", t, IF roster[u][t].role = "owner" THEN "staff" ELSE "owner")
                  \/ Begin(u, "remove", t, Nobody)
      BY <1>4 DEF PressMember
    <3>2. PICK r \in Roles : r = IF roster[u][t].role = "owner" THEN "staff" ELSE "owner"
      BY DEF Roles
    <3>3. QED
      BY <3>1, <3>2
  <2>2. QED
    BY <1>4, <2>1, BeginStep DEF PressMember
<1>5. ASSUME NEW u \in People, StepDown(u) PROVE TeamInv'
  <2>1. "staff" \in Roles
    BY DEF Roles
  <2>2. QED
    BY <1>5, <2>1, BeginStep DEF StepDown
<1>6. ASSUME NEW u \in People, LoadTeam(u) PROVE TeamInv'
  BY <1>0, <1>6 DEF LoadTeam, TeamInv, TeamShape, Fits, NoOrphanAccount
<1>7. ASSUME NEW u \in People, TeamAnswer(u) PROVE TeamInv'
  <2>1. /\ visit' = [visit EXCEPT ![u] = NoVisit] /\ visit[u].pc \in {"done", "refused"}
        /\ entitled' = entitled \ {u} /\ UNCHANGED <<member, account, excused>>
    BY <1>7 DEF TeamAnswer
  <2>2. /\ visit' \in [People -> Visit] /\ visit'[u] = NoVisit
        /\ \A q \in People : q # u => visit'[q] = visit[q] /\ (q \in entitled => q \in entitled')
    BY <1>0, <2>1, NoVisitShape DEF TeamShape
  <2>3. roster' \in [People -> [People -> MaybeMember]]
    BY <1>0, <1>7 DEF TeamAnswer, TeamShape
  <2>4. \A q \in People : Fits(q)'
    <3> SUFFICES ASSUME NEW q \in People PROVE Fits(q)'
      OBVIOUS
    <3>1. CASE q = u
      BY <2>2, <3>1, NoVisitShape DEF Fits
    <3>2. CASE q # u
      BY <1>0, <2>1, <2>2, <3>2 DEF Fits
    <3>3. QED
      BY <3>1, <3>2
  <2>5. NoOrphanAccount'
    <3> SUFFICES ASSUME NEW t \in account \ (Outsiders \cup excused), member[t] = Nobody
                 PROVE  \E q \in People : visit'[q].target = t /\ visit'[q].pc \in {"insert", "undo"}
      BY <2>1 DEF NoOrphanAccount
    <3>1. PICK q \in People : visit[q].target = t /\ visit[q].pc \in {"insert", "undo"}
      BY DEF TeamInv, NoOrphanAccount
    <3>2. QED
      BY <2>1, <2>2, <3>1
  <2>6. QED
    BY <1>0, <2>1, <2>2, <2>3, <2>4, <2>5 DEF TeamInv, TeamShape
<1>8. QED
  BY <1>1, <1>2, <1>3, <1>4, <1>5, <1>6, <1>7 DEF TeamNext

\* Only a request that was let in changes anything.
LEMMA OnlyOwnersAct ==
    ASSUME TeamInv, NEW u \in People, visit[u].op # "signup", visit[u].pc \in {"insert", "write"}
    PROVE  u \in entitled
BY DEF TeamInv, Fits

LEMMA TeamTyped == TeamInv => TeamTypeOK
BY DEF TeamInv, TeamShape, TeamTypeOK, Visit, MaybeMember

-----------------------------------------------------------------------------

(* The sessions of an administrator. *)

RpcRecord ==
    [pc: {"idle", "sent", "unauthorized", "forbidden", "served", "refresh", "rotate", "rotated"},
     sid: Sids \cup {NoSession}, retry: BOOLEAN, access: {"view", "write"}]

AccessShape ==
    /\ staff \in [role: AdminRoles, status: {"active", "suspended"}, mfa: BOOLEAN]
    /\ session \in Seq({"live", "revoked"}) /\ stale \subseteq Sids
    /\ browser \in Sids \cup {NoSession} /\ mark \in 0..Len(session) /\ changes \in Nat
    /\ login \in {"none", "enrol", "code", "issued"} /\ (login = "issued" => session # <<>>)
    /\ rpc \in [Calls -> RpcRecord]
    /\ \A c \in Calls : rpc[c].pc # "idle" => rpc[c].sid \in Sids

\* The inductive invariant of the sessions: a suspension left none alive.
AccessInv == AccessShape /\ \A s \in 1..mark : session[s] = "revoked"

LEMMA NoRpcShape == NoRpc \in RpcRecord /\ NoRpc.pc = "idle" /\ NoRpc.retry = TRUE
BY DEF NoRpc, RpcRecord

LEMMA AccessInvInit == AccessInit => AccessInv
<1> SUFFICES ASSUME AccessInit PROVE AccessInv
  OBVIOUS
<1>1. Len(session) = 0 /\ session \in Seq({"live", "revoked"}) /\ session = <<>>
  BY DEF AccessInit
<1>2. rpc \in [Calls -> RpcRecord] /\ \A c \in Calls : rpc[c].pc = "idle"
  BY NoRpcShape DEF AccessInit
<1>3. QED
  BY <1>1, <1>2 DEF AccessInit, AccessInv, AccessShape, AdminRoles

\* What becomes of the sessions: more are issued, and what is revoked stays so.
LEMMA SessionMoves ==
    ASSUME AccessShape, AccessNext
    PROVE  /\ session' \in Seq({"live", "revoked"}) /\ Len(session) \in Nat
           /\ Len(session') \in Nat /\ Len(session) <= Len(session')
           /\ \A s \in Sids : session[s] = "revoked" => session'[s] = "revoked"
           /\ \/ UNCHANGED mark /\ changes' \in {changes, changes + 1}
              \/ Suspend
<1>0. session \in Seq({"live", "revoked"}) /\ browser \in Sids \cup {NoSession} /\ Len(session) \in Nat
  BY DEF AccessShape
<1>. DEFINE Good == /\ session' \in Seq({"live", "revoked"}) /\ Len(session) \in Nat
                    /\ Len(session') \in Nat /\ Len(session) <= Len(session')
                    /\ \A s \in Sids : session[s] = "revoked" => session'[s] = "revoked"
<1>1. ASSUME UNCHANGED session PROVE Good
  BY <1>0, <1>1
<1>2. ASSUME Issue PROVE Good
  <2>1. session' = Append(session, "live")
    BY <1>2 DEF Issue
  <2>2. QED
    BY <1>0, <2>1 DEF Sids
<1>3. ASSUME NEW b \in Sids, session' = [session EXCEPT ![b] = "revoked"]
      PROVE  Good
  BY <1>0, <1>3 DEF Sids
<1>4. ASSUME Suspend PROVE Good
  <2>1. session' = [s \in 1..Len(session) |-> "revoked"]
    BY <1>4 DEF Suspend, Sids
  <2>2. session' \in Seq({"live", "revoked"}) /\ Len(session') = Len(session)
    BY <1>0, <2>1
  <2>3. QED
    BY <1>0, <2>1, <2>2 DEF Sids
<1>5. ASSUME NEW b \in Sids, NEW cleared,
             cleared = [session EXCEPT ![b] = "revoked"],
             session' = Append(cleared, "live")
      PROVE  Good
  <2>1. /\ cleared \in Seq({"live", "revoked"}) /\ Len(cleared) = Len(session)
        /\ \A s \in Sids : session[s] = "revoked" => cleared[s] = "revoked"
    BY <1>0, <1>5 DEF Sids
  <2>2. QED
    BY <1>0, <1>5, <2>1 DEF Sids
<1>6. ASSUME NEW c \in Calls, Rotate(c) PROVE Good
  <2>1. rpc[c].sid \in Sids
    BY <1>6 DEF Rotate, AccessShape
  <2>2. session' = Append([session EXCEPT ![rpc[c].sid] = "revoked"], "live")
    BY <1>6 DEF Rotate
  <2>3. QED
    BY <1>5, <2>1, <2>2
<1>7. ASSUME Logout PROVE Good
  BY <1>0, <1>3, <1>7 DEF Logout
<1>8. \/ UNCHANGED mark /\ changes' \in {changes, changes + 1}
      \/ Suspend
  BY DEF AccessNext, SubmitCredentials, SubmitEnrol, SubmitTotp, LoginArrives, Logout, AccessExpires,
         ChangeRole, Reinstate, SendRpc, RequireAdmin, AskRefresh, RefreshRead, Rotate,
         RefreshArrives, RpcAnswer, Change
<1>9. Good
  <2>1. UNCHANGED session \/ Issue \/ Logout \/ Suspend \/ \E c \in Calls : Rotate(c)
    BY DEF AccessNext, SubmitCredentials, SubmitEnrol, SubmitTotp, LoginArrives, AccessExpires,
           ChangeRole, Reinstate, SendRpc, RequireAdmin, AskRefresh, RefreshRead,
           RefreshArrives, RpcAnswer
  <2>. HIDE DEF Good
  <2>2. QED
    BY <1>1, <1>2, <1>4, <1>6, <1>7, <2>1
<1>10. QED
  BY <1>8, <1>9

\* How a request goes on.
RpcOnward(c, r) ==
    \/ rpc[c].pc = "idle" /\ browser \in Sids /\ r.pc = "sent" /\ r.sid = browser /\ r.retry
    \/ /\ rpc[c].pc = "sent" /\ r.pc \in {"unauthorized", "forbidden", "served"}
       /\ r.sid = rpc[c].sid /\ r.retry = rpc[c].retry
       /\ r.pc = "unauthorized" <=> \/ rpc[c].sid \in stale \/ session[rpc[c].sid] # "live"
                                    \/ staff.status # "active"
    \/ /\ rpc[c].pc = "unauthorized" /\ rpc[c].retry /\ browser = NoSession
       /\ r.pc = "unauthorized" /\ r.sid = rpc[c].sid /\ ~r.retry
    \/ /\ rpc[c].pc = "unauthorized" /\ rpc[c].retry /\ browser \in Sids
       /\ r.pc = "refresh" /\ r.sid = browser /\ r.retry
    \/ rpc[c].pc = "refresh" /\ r.pc = "rotate" /\ r.sid = rpc[c].sid /\ r.retry = rpc[c].retry
    \/ /\ rpc[c].pc = "refresh" /\ r.pc = "unauthorized" /\ r.sid = rpc[c].sid
       /\ session[rpc[c].sid] # "live" \/ staff.status # "active"
    \/ /\ rpc[c].pc = "rotate" /\ r.pc = "rotated" /\ r.retry = rpc[c].retry
       /\ r.sid = Len(session) + 1 /\ Len(session') = Len(session) + 1 /\ session'[r.sid] = "live"
    \/ /\ rpc[c].pc = "rotated" /\ r.pc = "sent" /\ r.sid = rpc[c].sid
       /\ browser' = rpc[c].sid
    \/ rpc[c].pc \in {"served", "forbidden"} /\ r = NoRpc
    \/ rpc[c].pc = "unauthorized" /\ ~rpc[c].retry /\ r = NoRpc

RpcStep(c) ==
    \/ SendRpc(c) \/ RequireAdmin(c) \/ AskRefresh(c) \/ RefreshRead(c) \/ Rotate(c)
    \/ RefreshArrives(c) \/ RpcAnswer(c)

LEMMA RpcStepEffect ==
    ASSUME AccessShape, NEW c \in Calls, RpcStep(c)
    PROVE  \E r \in RpcRecord' : /\ rpc' = [rpc EXCEPT ![c] = r] /\ RpcOnward(c, r)
                                 /\ r.pc # "idle" => r.sid \in Sids'
<1>0. /\ rpc[c] \in RpcRecord /\ (rpc[c].pc # "idle" => rpc[c].sid \in Sids)
      /\ rpc \in [Calls -> RpcRecord] /\ browser \in Sids \cup {NoSession}
      /\ session \in Seq({"live", "revoked"}) /\ Len(session) \in Nat
  BY DEF AccessShape
<1>1. ASSUME NEW r \in RpcRecord, UNCHANGED session PROVE r \in RpcRecord' /\ Sids' = Sids
  BY <1>1 DEF RpcRecord, Sids
<1>2. CASE SendRpc(c)
  <2>1. browser \in Sids
    BY <1>0, <1>2 DEF SendRpc
  <2>2. PICK access \in {"view", "write"} :
           Rpc(c, [NoRpc EXCEPT !.pc = "sent", !.sid = browser, !.access = access])
    BY <1>2 DEF SendRpc
  <2>3. PICK r : r = [NoRpc EXCEPT !.pc = "sent", !.sid = browser, !.access = access]
    OBVIOUS
  <2>4. r \in RpcRecord /\ r.pc = "sent" /\ r.sid = browser /\ r.retry = TRUE
    BY <2>1, <2>3 DEF NoRpc, RpcRecord
  <2>5. RpcOnward(c, r)
    BY <1>2, <2>1, <2>4 DEF SendRpc, RpcOnward
  <2>6. rpc' = [rpc EXCEPT ![c] = r] /\ UNCHANGED session
    BY <1>2, <2>2, <2>3 DEF SendRpc, Rpc
  <2>7. QED
    BY <1>1, <2>1, <2>4, <2>5, <2>6
<1>3. CASE RequireAdmin(c)
  <2>1. PICK pc \in {"unauthorized", "forbidden", "served"} :
          /\ Rpc(c, [rpc[c] EXCEPT !.pc = pc])
          /\ pc = "unauthorized" <=> \/ rpc[c].sid \in stale \/ session[rpc[c].sid] # "live"
                                     \/ staff.status # "active"
    BY <1>3 DEF RequireAdmin
  <2>2. PICK r : r = [rpc[c] EXCEPT !.pc = pc]
    OBVIOUS
  <2>3. r \in RpcRecord /\ r.pc = pc /\ r.sid = rpc[c].sid /\ r.retry = rpc[c].retry
    BY <1>0, <2>2 DEF RpcRecord
  <2>4. RpcOnward(c, r)
    BY <1>3, <2>1, <2>3 DEF RequireAdmin, RpcOnward
  <2>5. rpc' = [rpc EXCEPT ![c] = r] /\ UNCHANGED session /\ rpc[c].pc = "sent"
    BY <1>3, <2>1, <2>2 DEF RequireAdmin, Rpc
  <2>6. QED
    BY <1>0, <1>1, <2>3, <2>4, <2>5
<1>4. CASE AskRefresh(c)
  <2>1. PICK r : r = IF browser = NoSession THEN [rpc[c] EXCEPT !.retry = FALSE]
                     ELSE [rpc[c] EXCEPT !.pc = "refresh", !.sid = browser]
    OBVIOUS
  <2>2. rpc' = [rpc EXCEPT ![c] = r] /\ UNCHANGED session /\ rpc[c].pc = "unauthorized" /\ rpc[c].retry
    BY <1>4, <2>1 DEF AskRefresh, Rpc
  <2>3. CASE browser = NoSession
    <3>1. r = [rpc[c] EXCEPT !.retry = FALSE]
      BY <2>1, <2>3
    <3>2. r \in RpcRecord /\ r.pc = "unauthorized" /\ r.sid = rpc[c].sid /\ r.retry = FALSE
      BY <1>0, <2>2, <3>1 DEF RpcRecord
    <3>3. RpcOnward(c, r)
      BY <2>2, <2>3, <3>2 DEF RpcOnward
    <3>4. QED
      BY <1>0, <1>1, <2>2, <3>2, <3>3
  <2>4. CASE browser # NoSession
    <3>1. r = [rpc[c] EXCEPT !.pc = "refresh", !.sid = browser] /\ browser \in Sids
      BY <1>0, <2>1, <2>4
    <3>2. r \in RpcRecord /\ r.pc = "refresh" /\ r.sid = browser /\ r.retry = rpc[c].retry
      BY <1>0, <2>2, <3>1 DEF RpcRecord
    <3>3. RpcOnward(c, r)
      BY <2>2, <3>1, <3>2 DEF RpcOnward
    <3>4. QED
      BY <1>1, <2>2, <3>1, <3>2, <3>3
  <2>5. QED
    BY <2>3, <2>4
<1>5. CASE RefreshRead(c)
  <2>0. rpc[c].pc = "refresh" /\ UNCHANGED session
    BY <1>5 DEF RefreshRead
  <2>1. CASE session[rpc[c].sid] = "live" /\ staff.status = "active"
    <3>1. PICK r : r = [rpc[c] EXCEPT !.pc = "rotate"]
      OBVIOUS
    <3>2. r \in RpcRecord /\ r.pc = "rotate" /\ r.sid = rpc[c].sid /\ r.retry = rpc[c].retry
      BY <1>0, <3>1 DEF RpcRecord
    <3>3. rpc' = [rpc EXCEPT ![c] = r]
      BY <1>5, <2>1, <3>1 DEF RefreshRead, Rpc
    <3>4. RpcOnward(c, r)
      BY <2>0, <3>2 DEF RpcOnward
    <3>5. QED
      BY <1>0, <1>1, <2>0, <3>2, <3>3, <3>4
  <2>2. CASE ~(session[rpc[c].sid] = "live" /\ staff.status = "active")
    <3>1. PICK r : r = [rpc[c] EXCEPT !.pc = "unauthorized", !.retry = FALSE]
      OBVIOUS
    <3>2. r \in RpcRecord /\ r.pc = "unauthorized" /\ r.sid = rpc[c].sid
      BY <1>0, <3>1 DEF RpcRecord
    <3>3. rpc' = [rpc EXCEPT ![c] = r]
      BY <1>5, <2>2, <3>1 DEF RefreshRead, Rpc
    <3>4. RpcOnward(c, r)
      BY <2>0, <2>2, <3>2 DEF RpcOnward
    <3>5. QED
      BY <1>0, <1>1, <2>0, <3>2, <3>3, <3>4
  <2>3. QED
    BY <2>1, <2>2
<1>6. CASE Rotate(c)
  <2>1. PICK r : r = [rpc[c] EXCEPT !.pc = "rotated", !.sid = Len(session) + 1]
    OBVIOUS
  <2>2. PICK cleared : cleared = [session EXCEPT ![rpc[c].sid] = "revoked"]
    OBVIOUS
  <2>3. /\ rpc' = [rpc EXCEPT ![c] = r] /\ rpc[c].pc = "rotate" /\ rpc[c].sid \in Sids
        /\ session' = Append(cleared, "live")
    BY <1>0, <1>6, <2>1, <2>2 DEF Rotate, Rpc
  <2>4. cleared \in Seq({"live", "revoked"}) /\ Len(cleared) = Len(session)
    BY <1>0, <2>2, <2>3 DEF Sids
  <2>5. Len(session') = Len(session) + 1 /\ session'[Len(session) + 1] = "live"
    BY <1>0, <2>3, <2>4
  <2>6. Len(session) + 1 \in Sids' /\ Sids \subseteq Sids'
    BY <1>0, <2>5 DEF Sids
  <2>7. r \in RpcRecord' /\ r.pc = "rotated" /\ r.sid = Len(session) + 1 /\ r.retry = rpc[c].retry
    BY <1>0, <2>1, <2>6 DEF RpcRecord
  <2>8. RpcOnward(c, r)
    BY <2>3, <2>5, <2>7 DEF RpcOnward
  <2>9. QED
    BY <2>3, <2>6, <2>7, <2>8
<1>7. CASE RefreshArrives(c)
  <2>1. PICK r : r = [rpc[c] EXCEPT !.pc = "sent", !.retry = FALSE]
    OBVIOUS
  <2>2. r \in RpcRecord /\ r.pc = "sent" /\ r.sid = rpc[c].sid
    BY <1>0, <2>1 DEF RpcRecord
  <2>3. rpc' = [rpc EXCEPT ![c] = r] /\ UNCHANGED session /\ rpc[c].pc = "rotated" /\ browser' = rpc[c].sid
    BY <1>7, <2>1 DEF RefreshArrives, Rpc
  <2>4. RpcOnward(c, r)
    BY <2>2, <2>3 DEF RpcOnward
  <2>5. QED
    BY <1>0, <1>1, <2>2, <2>3, <2>4
<1>8. CASE RpcAnswer(c)
  <2>1. rpc' = [rpc EXCEPT ![c] = NoRpc] /\ UNCHANGED session /\ RpcOnward(c, NoRpc)
    BY <1>8 DEF RpcAnswer, Rpc, RpcOnward
  <2>2. QED
    BY <1>1, <2>1, NoRpcShape
<1>9. QED
  BY <1>2, <1>3, <1>4, <1>5, <1>6, <1>7, <1>8 DEF RpcStep

LEMMA AccessInvStep ==
    ASSUME AccessInv, AccessNext
    PROVE  AccessInv'
<1>0. /\ AccessShape /\ mark \in 0..Len(session) /\ Len(session) \in Nat
      /\ staff \in [role: AdminRoles, status: {"active", "suspended"}, mfa: BOOLEAN]
      /\ rpc \in [Calls -> RpcRecord]
  BY DEF AccessInv, AccessShape
<1>1. /\ session' \in Seq({"live", "revoked"}) /\ Len(session') \in Nat /\ Len(session) <= Len(session')
      /\ \A s \in Sids : session[s] = "revoked" => session'[s] = "revoked"
      /\ \/ UNCHANGED mark /\ changes' \in {changes, changes + 1}
         \/ Suspend
  BY <1>0, SessionMoves
<1>2. Sids \subseteq Sids'
  BY <1>0, <1>1 DEF Sids
<1>3. /\ mark' \in 0..Len(session') /\ changes' \in Nat
      /\ \A s \in 1..mark' : session'[s] = "revoked"
  <2>1. CASE UNCHANGED mark /\ changes' \in {changes, changes + 1}
    <3>1. mark' \in 0..Len(session') /\ changes' \in Nat
      BY <1>0, <1>1, <2>1 DEF AccessShape
    <3>2. ASSUME NEW s \in 1..mark PROVE session'[s] = "revoked"
      BY <1>0, <1>1, <3>2 DEF AccessInv, Sids
    <3>3. QED
      BY <2>1, <3>1, <3>2
  <2>2. CASE Suspend
    <3>1. mark' = Len(session) /\ session' = [s \in 1..Len(session) |-> "revoked"] /\ changes' = changes + 1
      BY <2>2 DEF Suspend, Change, Sids
    <3>2. Len(session') = Len(session)
      BY <1>0, <3>1
    <3>3. QED
      BY <1>0, <3>1, <3>2 DEF AccessShape
  <2>3. QED
    BY <1>1, <2>1, <2>2
<1>4. staff' \in [role: AdminRoles, status: {"active", "suspended"}, mfa: BOOLEAN]
  BY <1>0
     DEF AccessNext, SubmitCredentials, SubmitEnrol, SubmitTotp, LoginArrives, Logout, AccessExpires,
         ChangeRole, Suspend, Reinstate, SendRpc, RequireAdmin, AskRefresh, RefreshRead, Rotate,
         RefreshArrives, RpcAnswer
<1>5. rpc' \in [Calls -> RpcRecord'] /\ \A c \in Calls : rpc'[c].pc # "idle" => rpc'[c].sid \in Sids'
  <2>1. RpcRecord \subseteq RpcRecord'
    BY <1>2 DEF RpcRecord
  <2>2. CASE UNCHANGED rpc
    BY <1>0, <1>2, <2>1, <2>2 DEF AccessShape
  <2>3. ASSUME NEW c \in Calls, RpcStep(c)
        PROVE  rpc' \in [Calls -> RpcRecord'] /\ \A d \in Calls : rpc'[d].pc # "idle" => rpc'[d].sid \in Sids'
    <3>1. PICK r \in RpcRecord' : rpc' = [rpc EXCEPT ![c] = r] /\ (r.pc # "idle" => r.sid \in Sids')
      BY <1>0, <2>3, RpcStepEffect
    <3>2. QED
      BY <1>0, <1>2, <2>1, <3>1 DEF AccessShape
  <2>4. QED
    BY <2>2, <2>3
       DEF AccessNext, RpcStep, SubmitCredentials, SubmitEnrol, SubmitTotp, LoginArrives, Logout,
           AccessExpires, ChangeRole, Suspend, Reinstate
<1>6. stale' \subseteq Sids'
  <2>1. stale' \subseteq stale \cup Sids
    BY DEF AccessNext, SubmitCredentials, SubmitEnrol, SubmitTotp, LoginArrives, Logout, AccessExpires,
           ChangeRole, Suspend, Reinstate, SendRpc, RequireAdmin, AskRefresh, RefreshRead, Rotate,
           RefreshArrives, RpcAnswer
  <2>2. QED
    BY <1>0, <1>2, <2>1 DEF AccessShape
<1>7. login' \in {"none", "enrol", "code", "issued"} /\ (login' = "issued" => session' # <<>>)
  <2>1. \/ login' \in {"none", "enrol", "code"}
        \/ login' = login
        \/ login' = "issued" /\ Issue
    BY DEF AccessNext, SubmitCredentials, SubmitEnrol, SubmitTotp, LoginArrives, Logout, AccessExpires,
           ChangeRole, Suspend, Reinstate, SendRpc, RequireAdmin, AskRefresh, RefreshRead, Rotate,
           RefreshArrives, RpcAnswer
  <2>2. CASE login' = login
    BY <1>0, <1>1, <2>2 DEF AccessShape
  <2>3. CASE Issue
    <3>1. Len(session') = Len(session) + 1
      BY <1>0, <2>3 DEF Issue, AccessShape
    <3>2. session' # <<>>
      BY <1>0, <3>1
    <3>3. QED
      BY <2>1, <2>3, <3>2 DEF AccessShape, AccessInv
  <2>4. QED
    BY <2>1, <2>2, <2>3
<1>8. browser' \in Sids' \cup {NoSession}
  <2>1. \/ browser' = browser \/ browser' = NoSession
        \/ LoginArrives
        \/ \E c \in Calls : browser' = rpc[c].sid /\ rpc[c].pc # "idle"
    BY DEF AccessNext, SubmitCredentials, SubmitEnrol, SubmitTotp, Logout, AccessExpires,
           ChangeRole, Suspend, Reinstate, SendRpc, RequireAdmin, AskRefresh, RefreshRead, Rotate,
           RefreshArrives, RpcAnswer
  <2>2. CASE LoginArrives
    <3>1. session # <<>> /\ browser' = Len(session)
      BY <1>0, <2>2 DEF LoginArrives, AccessShape
    <3>2. Len(session) \in Sids
      BY <1>0, <3>1 DEF Sids, AccessShape
    <3>3. QED
      BY <1>2, <3>1, <3>2
  <2>3. QED
    BY <1>0, <1>2, <2>1, <2>2 DEF AccessShape
<1>9. QED
  BY <1>1, <1>3, <1>4, <1>5, <1>6, <1>7, <1>8 DEF AccessInv, AccessShape

\* A request that is served belongs to a session of after the last suspension.
LEMMA OnlyLiveServed ==
    ASSUME AccessInv, AccessNext, NEW c \in Calls, rpc[c].pc = "sent", rpc'[c].pc = "served"
    PROVE  rpc[c].sid > mark /\ staff.status = "active"
<1>0. rpc \in [Calls -> RpcRecord] /\ rpc[c].sid \in Sids /\ mark \in 0..Len(session) /\ Len(session) \in Nat
  BY DEF AccessInv, AccessShape
<1>1. PICK d \in Calls : RpcStep(d)
  BY DEF AccessNext, RpcStep, SubmitCredentials, SubmitEnrol, SubmitTotp, LoginArrives, Logout,
         AccessExpires, ChangeRole, Suspend, Reinstate
<1>2. PICK r : rpc' = [rpc EXCEPT ![d] = r] /\ RpcOnward(d, r)
  BY <1>1, RpcStepEffect DEF AccessInv
<1>3. d = c /\ r.pc = "served"
  BY <1>0, <1>2
<1>4. session[rpc[c].sid] = "live" /\ staff.status = "active"
  BY <1>2, <1>3, NoRpcShape DEF RpcOnward
<1>5. ~(rpc[c].sid <= mark)
  BY <1>0, <1>4 DEF AccessInv, Sids
<1>6. QED
  BY <1>0, <1>4, <1>5 DEF Sids

-----------------------------------------------------------------------------

(* One request at a time, and he waits for it before he leaves. *)

Busy == {c \in Calls : rpc[c].pc # "idle"}

ClerkFollows ==
    /\ Cardinality(Busy') <= 1
    /\ browser # NoSession /\ browser' = NoSession => Busy = {}

\* As long as his account is not changed, the session of the browser lives, and
\* so does the one that a request was renewed with.
Undisturbed ==
    /\ staff.status = "active"
    /\ login = "issued" => session[Len(session)] = "live"
    /\ browser # NoSession => session[browser] = "live" \/ \E c \in Calls : rpc[c].pc = "rotated"
    /\ \A c \in Calls :
          /\ rpc[c].pc \in {"refresh", "rotate"} => rpc[c].sid = browser
          /\ rpc[c].pc = "unauthorized" => rpc[c].retry
          /\ rpc[c].pc = "rotated" \/ (rpc[c].pc = "sent" /\ ~rpc[c].retry)
                => session[rpc[c].sid] = "live" /\ rpc[c].sid \notin stale

ClerkInv ==
    /\ wrong = {}
    /\ IsFiniteSet(Busy) /\ Cardinality(Busy) <= 1
    /\ Busy # {} => browser # NoSession
    /\ login # "none" => browser = NoSession
    /\ changes = 0 => Undisturbed

\* Whose turn it is: nobody else's request is on its way.
LEMMA ClerkAlone ==
    ASSUME AccessInv, ClerkInv, AccessNext, ClerkFollows, NEW d \in Calls, RpcStep(d)
    PROVE  /\ IsFiniteSet(Busy') /\ Busy' \subseteq {d}
           /\ \A c \in Calls : c # d => rpc[c].pc = "idle" /\ rpc'[c] = rpc[c]
<1>0. rpc \in [Calls -> RpcRecord] /\ AccessShape /\ IsFiniteSet(Busy) /\ Cardinality(Busy) <= 1
  BY DEF AccessInv, AccessShape, ClerkInv
<1>1. PICK r : rpc' = [rpc EXCEPT ![d] = r] /\ RpcOnward(d, r)
  BY <1>0, RpcStepEffect
<1>2. \A c \in Calls : c # d => rpc'[c] = rpc[c]
  BY <1>0, <1>1
<1>3. IsFiniteSet(Busy \cup {d}) /\ Busy' \subseteq Busy \cup {d}
  BY <1>0, <1>2, FS_AddElement DEF Busy
<1>4. IsFiniteSet(Busy')
  BY <1>3, FS_Subset
<1>5. d \in Busy \/ d \in Busy'
  BY <1>0, <1>1, NoRpcShape DEF RpcOnward, Busy
<1>6. ASSUME NEW c \in Calls, c # d PROVE rpc[c].pc = "idle"
  <2>1. SUFFICES ASSUME rpc[c].pc # "idle" PROVE FALSE
    OBVIOUS
  <2>2. c \in Busy /\ c \in Busy'
    BY <1>2, <1>6, <2>1 DEF Busy
  <2>3. QED
    BY <1>0, <1>4, <1>5, <1>6, <2>2, OneOfFew DEF ClerkFollows
<1>7. QED
  BY <1>2, <1>3, <1>4, <1>6 DEF Busy

LEMMA ClerkInvInit == AccessInit => ClerkInv
<1> SUFFICES ASSUME AccessInit PROVE ClerkInv
  OBVIOUS
<1>1. \A c \in Calls : rpc[c].pc = "idle"
  BY NoRpcShape DEF AccessInit
<1>2. Busy = {}
  BY <1>1 DEF Busy
<1>3. IsFiniteSet(Busy) /\ Cardinality(Busy) <= 1
  BY <1>2, FS_EmptySet
<1>4. QED
  BY <1>1, <1>2, <1>3 DEF AccessInit, ClerkInv, Undisturbed

\* Where an account is not changed, its sessions move only with its own requests.
LEMMA UndisturbedStep ==
    ASSUME AccessInv, ClerkInv, AccessNext, ClerkFollows, changes' = 0
    PROVE  Undisturbed'
<1>0. /\ AccessShape /\ session \in Seq({"live", "revoked"}) /\ Len(session) \in Nat /\ changes \in Nat
      /\ rpc \in [Calls -> RpcRecord] /\ browser \in Sids \cup {NoSession} /\ stale \subseteq Sids
      /\ NoSession \notin Sids
  BY AccessAssumption DEF AccessInv, AccessShape, Sids
<1>1. changes = 0 /\ Undisturbed /\ ~Suspend /\ ~ChangeRole /\ ~Reinstate
  <2>1. ~Change
    BY <1>0 DEF Change
  <2>2. ~Suspend /\ ~ChangeRole /\ ~Reinstate
    BY <2>1 DEF Suspend, ChangeRole, Reinstate
  <2>3. changes = 0
    BY <1>0, <2>2, SessionMoves
  <2>4. QED
    BY <2>2, <2>3 DEF ClerkInv
<1>. DEFINE Idle == \A c \in Calls : rpc[c].pc = "idle"
<1>2. ASSUME Idle, UNCHANGED rpc, staff'.status = staff.status,
             login' = "issued" => session'[Len(session')] = "live",
             browser' # NoSession => session'[browser'] = "live"
      PROVE  Undisturbed'
  BY <1>1, <1>2 DEF Undisturbed
<1>3. browser = NoSession => Idle
  BY DEF ClerkInv, Busy
<1>4. CASE SubmitCredentials
  BY <1>2, <1>3, <1>4 DEF SubmitCredentials
<1>5. ASSUME Issue PROVE Len(session') = Len(session) + 1 /\ session'[Len(session')] = "live"
  BY <1>0, <1>5 DEF Issue
<1>6. CASE SubmitEnrol
  <2>1. browser = NoSession /\ staff'.status = staff.status /\ UNCHANGED <<rpc, browser>>
    BY <1>6 DEF SubmitEnrol, ClerkInv, AccessInv, AccessShape
  <2>2. QED
    BY <1>2, <1>3, <1>5, <1>6, <2>1 DEF SubmitEnrol
<1>7. CASE SubmitTotp
  <2>1. browser = NoSession /\ UNCHANGED <<rpc, browser, staff>> /\ login = "code"
    BY <1>7 DEF SubmitTotp, ClerkInv
  <2>2. QED
    BY <1>2, <1>3, <1>5, <1>7, <2>1 DEF SubmitTotp
<1>8. CASE LoginArrives
  <2>1. browser = NoSession /\ session[Len(session)] = "live"
    BY <1>1, <1>8 DEF LoginArrives, ClerkInv, Undisturbed
  <2>2. QED
    BY <1>2, <1>3, <1>8, <2>1 DEF LoginArrives
<1>9. CASE Logout
  <2>1. Idle
    BY <1>9 DEF Logout, ClerkFollows, Busy
  <2>2. login = "none"
    BY <1>9 DEF Logout, ClerkInv
  <2>3. QED
    BY <1>2, <1>9, <2>1, <2>2 DEF Logout
<1>10. CASE AccessExpires
  <2>1. UNCHANGED <<staff, session, browser, login, rpc>>
    BY <1>10 DEF AccessExpires
  <2>2. ASSUME NEW c \in Calls, rpc[c].pc = "rotated" \/ (rpc[c].pc = "sent" /\ ~rpc[c].retry)
        PROVE  rpc[c].sid \notin stale'
    BY <1>1, <1>10, <2>2 DEF AccessExpires, Undisturbed
  <2>3. QED
    BY <1>1, <2>1, <2>2 DEF Undisturbed
<1>11. ASSUME NEW d \in Calls, RpcStep(d) PROVE Undisturbed'
  <2>1. PICK r : rpc' = [rpc EXCEPT ![d] = r] /\ RpcOnward(d, r)
    BY <1>0, <1>11, RpcStepEffect
  <2>2. rpc'[d] = r /\ \A c \in Calls : c # d => rpc[c].pc = "idle" /\ rpc'[c] = rpc[c]
    BY <1>0, <1>11, <2>1, ClerkAlone
  <2>3. /\ UNCHANGED <<staff, login, stale>>
        /\ browser' = browser \/ (rpc[d].pc = "rotated" /\ browser' = rpc[d].sid /\ r.pc = "sent")
        /\ session' = session \/ (rpc[d].pc = "rotate" /\ r.pc = "rotated")
    <3>1. QED
      BY <1>0, <1>11, <2>2
         DEF RpcStep, SendRpc, RequireAdmin, AskRefresh, RefreshRead, Rotate, RefreshArrives, RpcAnswer, Rpc,
             RpcRecord
  <2>4. browser # NoSession /\ login = "none"
    <3>1. d \in Busy \/ browser \in Sids
      BY <2>1 DEF RpcOnward, Busy
    <3>2. QED
      BY <1>0, <3>1 DEF ClerkInv
  <2>5. rpc[d].pc = "rotated" \/ session[browser] = "live"
    BY <1>1, <2>2, <2>4 DEF Undisturbed
  <2>6. r.pc \in {"refresh", "rotate"} => r.sid = browser /\ browser' = browser
    BY <1>1, <2>1, <2>3, NoRpcShape DEF RpcOnward, Undisturbed
  <2>7. r.pc = "unauthorized" => r.retry
    <3>1. ~(rpc[d].pc = "refresh" /\ r.pc = "unauthorized")
      BY <1>1, <2>1, <2>5 DEF RpcOnward, Undisturbed
    <3>2. ASSUME rpc[d].pc = "sent", r.pc = "unauthorized", ~rpc[d].retry PROVE FALSE
      BY <1>1, <2>1, <3>2 DEF RpcOnward, Undisturbed
    <3>3. QED
      BY <2>1, <2>4, <3>1, <3>2, NoRpcShape DEF RpcOnward
  <2>8. r.pc = "rotated" => session'[r.sid] = "live" /\ r.sid \notin stale'
    BY <1>0, <2>1, <2>3, NoRpcShape DEF RpcOnward, Sids
  <2>9. r.pc = "sent" /\ ~r.retry => session'[r.sid] = "live" /\ r.sid \notin stale'
    BY <1>1, <2>1, <2>3, NoRpcShape DEF RpcOnward, Undisturbed
  <2>10. session'[browser'] = "live" \/ r.pc = "rotated"
    BY <1>1, <2>1, <2>3, <2>5, NoRpcShape DEF RpcOnward, Undisturbed
  <2>11. staff'.status = "active" /\ login' # "issued"
    BY <1>1, <2>3, <2>4 DEF Undisturbed
  <2>12. QED
    BY <2>2, <2>6, <2>7, <2>8, <2>9, <2>10, <2>11 DEF Undisturbed
<1>12. QED
  BY <1>1, <1>4, <1>6, <1>7, <1>8, <1>9, <1>10, <1>11 DEF AccessNext, RpcStep

LEMMA ClerkInvStep ==
    ASSUME AccessInv, ClerkInv, AccessNext, ClerkFollows
    PROVE  ClerkInv'
<1>0. /\ rpc \in [Calls -> RpcRecord] /\ browser \in Sids \cup {NoSession} /\ NoSession \notin Sids
      /\ AccessShape /\ changes \in Nat
  BY AccessAssumption DEF AccessInv, AccessShape, Sids
<1>1. changes' = 0 => Undisturbed'
  BY UndisturbedStep
<1>2. CASE UNCHANGED rpc
  <2>1. UNCHANGED Busy
    BY <1>2 DEF Busy
  <2>2. wrong' = {}
    BY <1>0, <1>2, NoRpcShape
       DEF AccessNext, SubmitCredentials, SubmitEnrol, SubmitTotp, LoginArrives, Logout, AccessExpires,
           ChangeRole, Suspend, Reinstate, SendRpc, RequireAdmin, AskRefresh, RefreshRead, Rotate,
           RefreshArrives, RpcAnswer, Rpc, ClerkInv, RpcRecord
  <2>3. Busy # {} => browser' # NoSession
    BY DEF ClerkInv, ClerkFollows
  <2>4. login' # "none" => browser' = NoSession
    <3>1. \/ UNCHANGED <<login, browser>>
          \/ login' = "none"
          \/ UNCHANGED browser /\ login # "none"
          \/ UNCHANGED browser /\ browser = NoSession
          \/ browser' = NoSession
          \/ \E c \in Calls : RefreshArrives(c)
      BY DEF AccessNext, SubmitCredentials, SubmitEnrol, SubmitTotp, LoginArrives, Logout, AccessExpires,
             ChangeRole, Suspend, Reinstate, SendRpc, RequireAdmin, AskRefresh, RefreshRead, Rotate,
             RpcAnswer
    <3>2. ~\E c \in Calls : RefreshArrives(c)
      BY <1>0, <1>2 DEF RefreshArrives, Rpc, RpcRecord
    <3>3. QED
      BY <3>1, <3>2 DEF ClerkInv
  <2>5. QED
    BY <1>1, <2>1, <2>2, <2>3, <2>4 DEF ClerkInv
<1>3. ASSUME NEW d \in Calls, RpcStep(d) PROVE ClerkInv'
  <2>1. PICK r : rpc' = [rpc EXCEPT ![d] = r] /\ RpcOnward(d, r)
    BY <1>0, <1>3, RpcStepEffect
  <2>2. IsFiniteSet(Busy') /\ Cardinality(Busy') <= 1
    BY <1>3, ClerkAlone DEF ClerkFollows
  <2>3. browser # NoSession
    <3>1. d \in Busy \/ browser \in Sids
      BY <2>1 DEF RpcOnward, Busy
    <3>2. QED
      BY <1>0, <3>1 DEF ClerkInv
  <2>4. browser' # NoSession
    <3>1. browser' = browser \/ (rpc[d].pc = "rotated" /\ browser' = rpc[d].sid)
      BY <1>3
         DEF RpcStep, SendRpc, RequireAdmin, AskRefresh, RefreshRead, Rotate, RefreshArrives, RpcAnswer
    <3>2. QED
      BY <1>0, <2>3, <3>1 DEF AccessShape
  <2>5. login' = "none"
    BY <1>3, <2>3
       DEF RpcStep, SendRpc, RequireAdmin, AskRefresh, RefreshRead, Rotate, RefreshArrives, RpcAnswer, ClerkInv
  <2>6. wrong' = {}
    <3>1. ~(rpc[d].pc = "unauthorized" /\ changes = 0 /\ ~rpc[d].retry)
      BY DEF ClerkInv, Undisturbed
    <3>2. QED
      BY <1>3, <3>1
         DEF RpcStep, SendRpc, RequireAdmin, AskRefresh, RefreshRead, Rotate, RefreshArrives, RpcAnswer, ClerkInv
  <2>7. QED
    BY <1>1, <2>2, <2>4, <2>5, <2>6 DEF ClerkInv
<1>4. QED
  BY <1>2, <1>3
     DEF AccessNext, RpcStep, SubmitCredentials, SubmitEnrol, SubmitTotp, LoginArrives, Logout,
         AccessExpires, ChangeRole, Suspend, Reinstate

-----------------------------------------------------------------------------

(* The broadcasts. *)

Work == [pc: {"idle", "read", "write", "done", "refused"}, kind: {"none", "create", "patch", "delete"},
         row: Ids \cup {Unset}, form: Forms \cup {Unset}, status: {Unset, "published", "archived"},
         pair: ({"all_brands", "single_brand", Unset}) \X (Readers \cup {Unset})]

\* What a request carries: the row it is about, the form it creates, and once it was read,
\* a pair of audience and brand that agrees.
Fitting(w) ==
    /\ w.kind \in {"patch", "delete"} \/ w.pc = "done" => w.row \in Ids
    /\ w.kind = "create" => w.form \in Forms
    /\ w.kind = "patch" /\ w.pc = "write" =>
          /\ w.pair[1] \in {"all_brands", "single_brand"} /\ PairOk(w.pair[1], w.pair[2])
          /\ w.form # Unset => w.pair = <<w.form.audience, w.form.brand>>

BroadcastShape ==
    /\ announcement \in [Ids -> Announcement \cup {Unset}] /\ now \in Moments
    /\ call \in [Authors -> Work] /\ \A x \in Authors : Fitting(call[x])
    /\ saved \in [Ids -> Form \cup {Unset}] /\ aired \subseteq Ids

PairsAgree == \A r \in Ids : announcement[r] # Unset => PairOk(announcement[r].audience, announcement[r].brand)

\* The inductive invariant of the table, whoever's requests overlap.
BroadcastInv == BroadcastShape /\ PairsAgree

LEMMA NoWorkShape == NoWork \in Work /\ Fitting(NoWork) /\ NoWork.pc = "idle"
BY DEF NoWork, Work, Fitting

LEMMA BroadcastInvInit == AnnouncementsInit => BroadcastInv
<1> SUFFICES ASSUME AnnouncementsInit PROVE BroadcastInv
  OBVIOUS
<1>1. announcement \in [Ids -> Announcement \cup {Unset}] /\ saved \in [Ids -> Form \cup {Unset}]
  BY DEF AnnouncementsInit, NoneYet
<1>2. call \in [Authors -> Work] /\ \A x \in Authors : Fitting(call[x])
  BY NoWorkShape DEF AnnouncementsInit
<1>3. now \in Moments /\ aired \subseteq Ids
  BY AnnouncementAssumption DEF AnnouncementsInit, Moments
<1>4. PairsAgree
  BY DEF AnnouncementsInit, NoneYet, PairsAgree
<1>5. QED
  BY <1>1, <1>2, <1>3, <1>4 DEF BroadcastInv, BroadcastShape

\* A request that moves on within itself.
LEMMA GotoFits ==
    ASSUME BroadcastShape, NEW x \in Authors,
           NEW pc \in {"idle", "read", "write", "done", "refused"}, Goto(x, pc),
           pc = "done" => call[x].row \in Ids,
           pc = "write" => call[x].kind # "patch"
    PROVE  call' \in [Authors -> Work] /\ \A y \in Authors : Fitting(call'[y])
<1>0. call \in [Authors -> Work] /\ call[x] \in Work /\ Fitting(call[x])
  BY DEF BroadcastShape
<1>1. PICK w : w = [call[x] EXCEPT !.pc = pc]
  OBVIOUS
<1>2. /\ w \in Work /\ w.pc = pc /\ w.kind = call[x].kind /\ w.row = call[x].row
      /\ w.form = call[x].form /\ w.pair = call[x].pair
  BY <1>0, <1>1 DEF Work
<1>3. Fitting(w)
  BY <1>0, <1>2 DEF Fitting
<1>4. call' = [call EXCEPT ![x] = w]
  BY <1>0, <1>1 DEF Goto
<1>5. QED
  BY <1>0, <1>2, <1>3, <1>4 DEF BroadcastShape

\* The row that a create inserts, and the row that a patch writes.
LEMMA NewRowShape ==
    ASSUME NEW f \in Forms, now \in Moments
    PROVE  /\ NewRow(f, <<f.audience, f.brand>>) \in Announcement
           /\ FormOf(NewRow(f, <<f.audience, f.brand>>)) = f
           /\ NewRow(f, <<f.audience, f.brand>>).audience = f.audience
           /\ NewRow(f, <<f.audience, f.brand>>).brand = f.brand
           /\ f \in Form /\ f # Unset
<1>1. f \in Form /\ f # Unset
  BY AnnouncementAssumption
<1>2. QED
  BY <1>1 DEF Form, Announcement, NewRow, FormOf, AnnouncementStatuses

Edited(a, f) == IF f = Unset THEN a
                ELSE [a EXCEPT !.publishAt = f.publishAt, !.expiresAt = f.expiresAt, !.text = f.text]
Written(c, a) == [Edited(a, c.form) EXCEPT !.audience = c.pair[1], !.brand = c.pair[2],
                                           !.status = IF c.status = Unset THEN @ ELSE c.status]

LEMMA WrittenShape ==
    ASSUME NEW c \in Work, Fitting(c), c.kind = "patch", c.pc = "write", NEW a \in Announcement
    PROVE  /\ Written(c, a) \in Announcement
           /\ Written(c, a).audience = c.pair[1] /\ Written(c, a).brand = c.pair[2]
           /\ Written(c, a).status = IF c.status = Unset THEN a.status ELSE c.status
           /\ c.form # Unset => FormOf(Written(c, a)) = c.form
           /\ c.form = Unset /\ c.pair = <<a.audience, a.brand>> => FormOf(Written(c, a)) = FormOf(a)
<1>1. /\ c.pair[1] \in {"all_brands", "single_brand"} /\ c.pair[2] \in Readers \cup {Unset}
      /\ c.status \in {Unset, "published", "archived"} /\ c.form \in Forms \cup {Unset}
      /\ c.form # Unset => c.pair = <<c.form.audience, c.form.brand>>
  BY DEF Fitting, Work
<1>2. PICK e : e = Edited(a, c.form)
  OBVIOUS
<1>3. CASE c.form = Unset
  <2>1. e = a
    BY <1>2, <1>3 DEF Edited
  <2>2. Written(c, a) = [a EXCEPT !.audience = c.pair[1], !.brand = c.pair[2],
                                  !.status = IF c.status = Unset THEN a.status ELSE c.status]
    BY <1>2, <2>1 DEF Written, Announcement
  <2>3. /\ Written(c, a) \in Announcement
        /\ Written(c, a).audience = c.pair[1] /\ Written(c, a).brand = c.pair[2]
        /\ Written(c, a).status = IF c.status = Unset THEN a.status ELSE c.status
        /\ Written(c, a).publishAt = a.publishAt /\ Written(c, a).expiresAt = a.expiresAt
        /\ Written(c, a).text = a.text
    BY <1>1, <2>2 DEF Announcement, AnnouncementStatuses
  <2>4. c.pair = <<a.audience, a.brand>> => FormOf(Written(c, a)) = FormOf(a)
    BY <2>3 DEF FormOf
  <2>5. QED
    BY <1>3, <2>3, <2>4
<1>4. CASE c.form # Unset
  <2>1. c.form \in Form
    BY <1>1, <1>4, AnnouncementAssumption
  <2>2. e = [a EXCEPT !.publishAt = c.form.publishAt, !.expiresAt = c.form.expiresAt, !.text = c.form.text]
    BY <1>2, <1>4 DEF Edited
  <2>3. /\ e \in Announcement /\ e.status = a.status /\ e.publishAt = c.form.publishAt
        /\ e.expiresAt = c.form.expiresAt /\ e.text = c.form.text
    BY <2>1, <2>2 DEF Form, Announcement
  <2>4. Written(c, a) = [e EXCEPT !.audience = c.pair[1], !.brand = c.pair[2],
                                  !.status = IF c.status = Unset THEN a.status ELSE c.status]
    BY <1>2, <2>3 DEF Written, Announcement
  <2>5. /\ Written(c, a) \in Announcement
        /\ Written(c, a).audience = c.pair[1] /\ Written(c, a).brand = c.pair[2]
        /\ Written(c, a).status = IF c.status = Unset THEN a.status ELSE c.status
        /\ Written(c, a).publishAt = e.publishAt /\ Written(c, a).expiresAt = e.expiresAt
        /\ Written(c, a).text = e.text
    BY <1>1, <2>3, <2>4 DEF Announcement, AnnouncementStatuses
  <2>6. FormOf(Written(c, a)) = c.form
    BY <1>1, <1>4, <2>1, <2>3, <2>5 DEF Form, FormOf
  <2>7. QED
    BY <1>4, <2>5, <2>6
<1>5. QED
  BY <1>3, <1>4

\* A new request of an author, in the place of the one before.
LEMMA RequestFits ==
    ASSUME BroadcastShape, NEW x \in Authors, NEW w \in Work, Fitting(w), call' = [call EXCEPT ![x] = w]
    PROVE  call' \in [Authors -> Work] /\ \A y \in Authors : Fitting(call'[y])
BY DEF BroadcastShape

LEMMA SendFits ==
    ASSUME BroadcastShape, NEW x \in Authors, NEW kind \in {"create", "patch", "delete"},
           NEW row \in Ids \cup {Unset}, NEW form \in Forms \cup {Unset},
           NEW status \in {Unset, "published", "archived"},
           kind # "create" => row \in Ids, kind = "create" => form \in Forms,
           Send(x, kind, row, form, status)
    PROVE  call' \in [Authors -> Work] /\ \A y \in Authors : Fitting(call'[y])
<1>1. PICK w : w = [NoWork EXCEPT !.pc = "read", !.kind = kind, !.row = row, !.form = form, !.status = status]
  OBVIOUS
<1>2. /\ w \in Work /\ w.pc = "read" /\ w.kind = kind /\ w.row = row /\ w.form = form
  BY <1>1 DEF NoWork, Work
<1>3. Fitting(w)
  BY <1>2 DEF Fitting
<1>4. call' = [call EXCEPT ![x] = w]
  BY <1>1 DEF Send
<1>5. QED
  BY <1>2, <1>3, <1>4, RequestFits

\* What an author does at his screen leaves the table alone.
ScreenStep(x) ==
    \/ OpenScreen(x) \/ ListArrives(x) \/ PressStatus(x) \/ PressDelete(x) \/ PressSave(x) \/ Answer(x)

LEMMA ScreenStepFits ==
    ASSUME BroadcastShape, NEW x \in Authors, ScreenStep(x)
    PROVE  /\ call' \in [Authors -> Work] /\ \A y \in Authors : Fitting(call'[y])
           /\ UNCHANGED <<announcement, now, saved, aired>>
<1>0. call \in [Authors -> Work] /\ call[x] \in Work /\ Fitting(call[x])
  BY DEF BroadcastShape
<1>. DEFINE Good == call' \in [Authors -> Work] /\ \A y \in Authors : Fitting(call'[y])
<1>1. ASSUME UNCHANGED call PROVE Good
  BY <1>1 DEF BroadcastShape
<1>2. ASSUME PressStatus(x) PROVE Good
  <2>1. PICK r \in Ids, s \in {"archived", "published"} : Send(x, "patch", r, Unset, s)
    BY <1>2 DEF PressStatus
  <2>. HIDE DEF Good
  <2>2. QED
    BY <2>1, SendFits DEF Good
<1>3. ASSUME PressDelete(x) PROVE Good
  <2>1. PICK r \in Ids : Send(x, "delete", r, Unset, Unset)
    BY <1>3 DEF PressDelete
  <2>2. QED
    BY <2>1, SendFits
<1>4. ASSUME PressSave(x) PROVE Good
  <2>1. PICK d \in {Unset} \cup Ids, f \in Forms, publish \in BOOLEAN :
           IF d = Unset THEN Send(x, "create", Unset, f, Unset)
           ELSE Send(x, "patch", d, f, IF publish THEN "published" ELSE Unset)
    BY <1>4 DEF PressSave
  <2>2. CASE d = Unset
    BY <2>1, <2>2, SendFits
  <2>3. CASE d # Unset
    <3>1. PICK s \in {Unset, "published"} : Send(x, "patch", d, f, s)
      BY <2>1, <2>3
    <3>2. d \in Ids
      BY <2>3
    <3>3. QED
      BY <3>1, <3>2, SendFits
  <2>4. QED
    BY <2>2, <2>3
<1>5. ASSUME Answer(x) PROVE Good
  <2>1. PICK w : w = [NoWork EXCEPT !.pc = "read", !.kind = "patch", !.row = call[x].row, !.status = "published"]
    OBVIOUS
  <2>2. \/ call' = [call EXCEPT ![x] = w] /\ call[x].pc = "done"
        \/ call' = [call EXCEPT ![x] = NoWork]
    BY <1>5, <2>1 DEF Answer
  <2>3. CASE call' = [call EXCEPT ![x] = NoWork]
    BY <2>3, NoWorkShape, RequestFits
  <2>4. CASE call' = [call EXCEPT ![x] = w] /\ call[x].pc = "done"
    <3>1. call[x].row \in Ids
      BY <1>0, <2>4 DEF Fitting
    <3>2. w \in Work /\ w.pc = "read" /\ w.kind = "patch" /\ w.row \in Ids
      BY <2>1, <3>1 DEF NoWork, Work
    <3>3. Fitting(w)
      BY <3>2 DEF Fitting
    <3>4. QED
      BY <2>4, <3>2, <3>3, RequestFits
  <2>5. QED
    BY <2>2, <2>3, <2>4
<1>6. UNCHANGED <<announcement, now, saved, aired>>
  BY DEF ScreenStep, OpenScreen, ListArrives, PressStatus, PressDelete, PressSave, Answer
<1>7. OpenScreen(x) \/ ListArrives(x) => UNCHANGED call
  BY DEF OpenScreen, ListArrives
<1>8. Good
  <2>. HIDE DEF Good
  <2>1. QED
    BY <1>1, <1>2, <1>3, <1>4, <1>5, <1>7 DEF ScreenStep
<1>9. QED
  BY <1>6, <1>8

\* What the API does to the table: one row is inserted, one is written, or one is deleted.
Inserts(x) == \E r \in Ids, f \in Forms :
    /\ r = 1 + Cardinality({q \in Ids : saved[q] # Unset})
    /\ PairOk(f.audience, f.brand)
    /\ announcement' = [announcement EXCEPT ![r] = NewRow(f, <<f.audience, f.brand>>)]
    /\ saved' = [saved EXCEPT ![r] = f] /\ UNCHANGED aired
Writes(x) == LET c == call[x]
                 a == announcement[c.row] IN
    /\ c.kind = "patch" /\ c.pc = "write" /\ a # Unset
    /\ announcement' = [announcement EXCEPT ![c.row] = Written(c, a)]
    /\ saved' = [saved EXCEPT ![c.row] = IF c.form = Unset THEN @ ELSE c.form]
    /\ aired' = IF Written(c, a).status = "published" THEN aired \cup {c.row} ELSE aired
Deletes(x) ==
    /\ call[x].kind = "delete" /\ call[x].pc = "write" /\ announcement[call[x].row] # Unset
    /\ announcement' = [announcement EXCEPT ![call[x].row] = Unset]
    /\ UNCHANGED <<saved, aired>>

\* And to the request: what it is about to write, it has just read.
Reads(x) ==
    /\ call[x].row \in Ids /\ call'[x].row = call[x].row /\ call'[x].kind = call[x].kind
    /\ call'[x].form = call[x].form
    /\ LET a == announcement[call[x].row] IN
       /\ a # Unset
       /\ \/ call[x].kind = "delete" /\ a.status = "draft"
          \/ call[x].kind = "patch" /\ call'[x].pair = Pair(x, a)

LEMMA ServeCallEffect ==
    ASSUME BroadcastInv, NEW x \in Authors, ServeCall(x) \/ FailCall(x)
    PROVE  /\ call' \in [Authors -> Work] /\ \A y \in Authors : Fitting(call'[y])
           /\ \A y \in Authors : y # x => call'[y] = call[y]
           /\ call[x].pc \in {"read", "write"} /\ UNCHANGED now
           /\ Inserts(x) \/ Writes(x) \/ Deletes(x) \/ UNCHANGED <<announcement, saved, aired>>
           /\ call'[x].pc = "write" => Reads(x) /\ UNCHANGED <<announcement, saved, aired>>
<1>0. /\ call \in [Authors -> Work] /\ call[x] \in Work /\ Fitting(call[x]) /\ BroadcastShape
      /\ announcement \in [Ids -> Announcement \cup {Unset}]
  BY DEF BroadcastInv, BroadcastShape
<1>1. ASSUME NEW pc \in {"refused", "done"}, Goto(x, pc), pc = "done" => call[x].row \in Ids
      PROVE  /\ call' \in [Authors -> Work] /\ \A y \in Authors : Fitting(call'[y])
             /\ \A y \in Authors : y # x => call'[y] = call[y]
             /\ call'[x].pc # "write"
  <2>1. call' \in [Authors -> Work] /\ \A y \in Authors : Fitting(call'[y])
    BY <1>0, <1>1, GotoFits
  <2>2. call'[x].pc = pc /\ \A y \in Authors : y # x => call'[y] = call[y]
    BY <1>0, <1>1 DEF Goto, Work
  <2>3. QED
    BY <1>1, <2>1, <2>2
<1>2. CASE FailCall(x)
  <2>1. Goto(x, "refused") /\ UNCHANGED <<announcement, now, saved, aired>> /\ call[x].pc \in {"read", "write"}
    BY <1>2 DEF FailCall
  <2>2. QED
    BY <1>1, <2>1
<1>3. CASE CreateDraft(x) /\ UNCHANGED now
  <2>0. call[x].form \in Forms /\ call[x].pc = "read" /\ UNCHANGED <<aired, now>>
    BY <1>0, <1>3 DEF CreateDraft, Fitting
  <2>1. PICK f \in Forms : f = call[x].form
    BY <2>0
  <2>2. CASE ~PairOk(f.audience, f.brand)
    <3>1. Goto(x, "refused") /\ UNCHANGED <<announcement, saved>>
      BY <1>3, <2>1, <2>2 DEF CreateDraft
    <3>2. QED
      BY <1>1, <2>0, <3>1
  <2>3. CASE PairOk(f.audience, f.brand)
    <3>1. PICK r \in Ids :
            /\ r = 1 + Cardinality({q \in Ids : saved[q] # Unset})
            /\ announcement' = [announcement EXCEPT ![r] = NewRow(f, <<f.audience, f.brand>>)]
            /\ saved' = [saved EXCEPT ![r] = f]
            /\ call' = [call EXCEPT ![x].pc = "done", ![x].row = r]
      BY <1>3, <2>1, <2>3 DEF CreateDraft
    <3>2. Inserts(x)
      BY <2>0, <2>3, <3>1 DEF Inserts
    <3>3. PICK w : w = [call[x] EXCEPT !.pc = "done", !.row = r]
      OBVIOUS
    <3>4. /\ w \in Work /\ w.pc = "done" /\ w.row = r /\ w.kind = call[x].kind /\ w.form = call[x].form
          /\ call' = [call EXCEPT ![x] = w]
      BY <1>0, <3>1, <3>3 DEF Work
    <3>5. Fitting(w)
      BY <1>0, <3>4 DEF Fitting
    <3>6. call' \in [Authors -> Work] /\ \A y \in Authors : Fitting(call'[y])
      BY <1>0, <3>4, <3>5, RequestFits
    <3>7. call'[x].pc # "write" /\ \A y \in Authors : y # x => call'[y] = call[y]
      BY <1>0, <3>4
    <3>8. QED
      BY <2>0, <3>2, <3>6, <3>7
  <2>4. QED
    BY <2>2, <2>3
<1>4. CASE PatchRead(x) /\ UNCHANGED now
  <2>0. /\ call[x].row \in Ids /\ call[x].pc = "read" /\ call[x].kind = "patch"
        /\ UNCHANGED <<announcement, saved, aired, now>>
    BY <1>0, <1>4 DEF PatchRead, Fitting
  <2>1. PICK a, pair : a = announcement[call[x].row] /\ pair = Pair(x, a)
    OBVIOUS
  <2>2. CASE Goto(x, "refused")
    BY <1>1, <2>0, <2>2
  <2>3. CASE a # Unset /\ PairOk(pair[1], pair[2]) /\ call' = [call EXCEPT ![x].pc = "write", ![x].pair = pair]
    <3>1. a \in Announcement
      BY <1>0, <2>0, <2>1, <2>3
    <3>2. /\ pair \in {"all_brands", "single_brand"} \X (Readers \cup {Unset})
          /\ call[x].form # Unset => pair = <<call[x].form.audience, call[x].form.brand>>
      <4>1. CASE call[x].form = Unset
        BY <2>1, <3>1, <4>1 DEF Pair, Announcement
      <4>2. CASE call[x].form # Unset
        <5>1. call[x].form \in Form
          BY <1>0, <4>2, AnnouncementAssumption DEF Work
        <5>2. QED
          BY <2>1, <4>2, <5>1 DEF Pair, Form
      <4>3. QED
        BY <4>1, <4>2
    <3>3. PICK w : w = [call[x] EXCEPT !.pc = "write", !.pair = pair]
      OBVIOUS
    <3>4. /\ w \in Work /\ w.pc = "write" /\ w.pair = pair /\ w.row = call[x].row /\ w.kind = call[x].kind
          /\ w.form = call[x].form /\ call' = [call EXCEPT ![x] = w]
      BY <1>0, <2>3, <3>2, <3>3 DEF Work
    <3>5. Fitting(w)
      BY <2>0, <2>3, <3>2, <3>4 DEF Fitting
    <3>6. call' \in [Authors -> Work] /\ \A y \in Authors : Fitting(call'[y])
      BY <1>0, <3>4, <3>5, RequestFits
    <3>7. call'[x] = w /\ \A y \in Authors : y # x => call'[y] = call[y]
      BY <1>0, <3>4
    <3>8. Reads(x)
      BY <2>0, <2>1, <2>3, <3>4, <3>7 DEF Reads
    <3>9. QED
      BY <2>0, <3>6, <3>7, <3>8
  <2>4. QED
    BY <1>4, <2>1, <2>2, <2>3 DEF PatchRead
<1>5. CASE PatchWrite(x) /\ UNCHANGED now
  <2>0. call[x].kind = "patch" /\ call[x].pc = "write" /\ call[x].row \in Ids /\ UNCHANGED now
    BY <1>0, <1>5 DEF PatchWrite, Fitting
  <2>1. PICK c, a : c = call[x] /\ a = announcement[c.row]
    OBVIOUS
  <2>2. CASE a = Unset
    <3>1. Goto(x, "refused") /\ UNCHANGED <<announcement, saved, aired>>
      BY <1>5, <2>1, <2>2 DEF PatchWrite
    <3>2. QED
      BY <1>1, <2>0, <3>1
  <2>3. CASE a # Unset
    <3>1. Goto(x, "done") /\ Writes(x)
      BY <1>5, <2>0, <2>1, <2>3 DEF PatchWrite, Writes, Written, Edited
    <3>2. QED
      BY <1>1, <2>0, <3>1
  <2>4. QED
    BY <2>2, <2>3
<1>6. CASE DeleteRead(x) /\ UNCHANGED now
  <2>0. /\ call[x].row \in Ids /\ call[x].pc = "read" /\ call[x].kind = "delete"
        /\ UNCHANGED <<announcement, saved, aired, now>>
    BY <1>0, <1>6 DEF DeleteRead, Fitting
  <2>1. CASE Goto(x, "refused")
    BY <1>1, <2>0, <2>1
  <2>2. CASE Goto(x, "write") /\ announcement[call[x].row] # Unset /\ announcement[call[x].row].status = "draft"
    <3>1. call' \in [Authors -> Work] /\ \A y \in Authors : Fitting(call'[y])
      BY <1>0, <2>0, <2>2, GotoFits
    <3>2. /\ \A y \in Authors : y # x => call'[y] = call[y]
          /\ call'[x].row = call[x].row /\ call'[x].kind = call[x].kind /\ call'[x].form = call[x].form
      BY <1>0, <2>2 DEF Goto, Work
    <3>3. Reads(x)
      BY <2>0, <2>2, <3>2 DEF Reads
    <3>4. QED
      BY <2>0, <3>1, <3>2, <3>3
  <2>3. QED
    BY <1>6, <2>1, <2>2 DEF DeleteRead
<1>7. CASE DeleteWrite(x) /\ UNCHANGED now
  <2>0. /\ call[x].kind = "delete" /\ call[x].pc = "write" /\ call[x].row \in Ids
        /\ UNCHANGED <<saved, aired, now>>
    BY <1>0, <1>7 DEF DeleteWrite, Fitting
  <2>1. CASE Goto(x, "refused") /\ UNCHANGED announcement
    BY <1>1, <2>0, <2>1
  <2>2. CASE Goto(x, "done") /\ Deletes(x)
    BY <1>1, <2>0, <2>2
  <2>3. QED
    BY <1>7, <2>0, <2>1, <2>2 DEF DeleteWrite, Deletes
<1>8. QED
  BY <1>2, <1>3, <1>4, <1>5, <1>6, <1>7 DEF ServeCall

\* One author moves, or the time.
LEMMA AuthorMoves ==
    ASSUME BroadcastInv, AnnouncementsNext
    PROVE  \/ \E x \in Authors : ServeCall(x) \/ FailCall(x)
           \/ /\ UNCHANGED <<announcement, saved, aired>> /\ now' \in Moments
              /\ call' \in [Authors -> Work] /\ \A y \in Authors : Fitting(call'[y])
<1>1. CASE Pass
  <2>1. now' \in Moments
    BY <1>1, AnnouncementAssumption DEF Pass, BroadcastInv, BroadcastShape, Moments
  <2>2. QED
    BY <1>1, <2>1 DEF Pass, BroadcastInv, BroadcastShape
<1>2. ASSUME NEW x \in Authors, ScreenStep(x)
      PROVE  /\ UNCHANGED <<announcement, saved, aired>> /\ now' \in Moments
             /\ call' \in [Authors -> Work] /\ \A y \in Authors : Fitting(call'[y])
  BY <1>2, ScreenStepFits DEF BroadcastInv, BroadcastShape
<1>3. QED
  BY <1>1, <1>2 DEF AnnouncementsNext, ScreenStep

LEMMA BroadcastInvStep ==
    ASSUME BroadcastInv, AnnouncementsNext
    PROVE  BroadcastInv'
<1>0. /\ announcement \in [Ids -> Announcement \cup {Unset}] /\ saved \in [Ids -> Form \cup {Unset}]
      /\ aired \subseteq Ids /\ now \in Moments /\ PairsAgree
  BY DEF BroadcastInv, BroadcastShape
<1>1. CASE /\ UNCHANGED <<announcement, saved, aired>> /\ now' \in Moments
           /\ call' \in [Authors -> Work] /\ \A y \in Authors : Fitting(call'[y])
  BY <1>1 DEF BroadcastInv, BroadcastShape, PairsAgree
<1>2. ASSUME NEW x \in Authors, ServeCall(x) \/ FailCall(x) PROVE BroadcastInv'
  <2>1. /\ call' \in [Authors -> Work] /\ \A y \in Authors : Fitting(call'[y]) /\ UNCHANGED now
        /\ Inserts(x) \/ Writes(x) \/ Deletes(x) \/ UNCHANGED <<announcement, saved, aired>>
    BY <1>2, ServeCallEffect
  <2>2. ASSUME /\ announcement' \in [Ids -> Announcement \cup {Unset}] /\ saved' \in [Ids -> Form \cup {Unset}]
               /\ aired' \subseteq Ids /\ PairsAgree'
        PROVE  BroadcastInv'
    BY <1>0, <2>1, <2>2 DEF BroadcastInv, BroadcastShape
  <2>3. CASE Inserts(x)
    <3>1. PICK r \in Ids, f \in Forms :
            /\ PairOk(f.audience, f.brand)
            /\ announcement' = [announcement EXCEPT ![r] = NewRow(f, <<f.audience, f.brand>>)]
            /\ saved' = [saved EXCEPT ![r] = f] /\ UNCHANGED aired
      BY <2>3 DEF Inserts
    <3>2. PICK n : n = NewRow(f, <<f.audience, f.brand>>)
      OBVIOUS
    <3>3. n \in Announcement /\ n.audience = f.audience /\ n.brand = f.brand /\ f \in Form
      BY <1>0, <3>2, NewRowShape
    <3>4. PairsAgree'
      BY <1>0, <3>1, <3>2, <3>3 DEF PairsAgree
    <3>5. QED
      BY <1>0, <2>2, <3>1, <3>2, <3>3, <3>4
  <2>4. CASE Writes(x)
    <3>0. call[x] \in Work /\ Fitting(call[x])
      BY DEF BroadcastInv, BroadcastShape
    <3>1. PICK c, a, w : c = call[x] /\ a = announcement[c.row] /\ w = Written(c, a)
      OBVIOUS
    <3>2. c.row \in Ids /\ a \in Announcement /\ c.kind = "patch" /\ c.pc = "write"
      BY <1>0, <2>4, <3>0, <3>1 DEF Writes, Fitting
    <3>3. w \in Announcement /\ w.audience = c.pair[1] /\ w.brand = c.pair[2]
      BY <3>0, <3>1, <3>2, WrittenShape
    <3>4. PairOk(w.audience, w.brand)
      BY <3>0, <3>1, <3>2, <3>3 DEF Fitting
    <3>5. /\ announcement' = [announcement EXCEPT ![c.row] = w]
          /\ saved' = [saved EXCEPT ![c.row] = IF c.form = Unset THEN @ ELSE c.form]
          /\ aired' = IF w.status = "published" THEN aired \cup {c.row} ELSE aired
      BY <2>4, <3>1 DEF Writes
    <3>6. c.form # Unset => c.form \in Form
      BY <3>0, <3>1, AnnouncementAssumption DEF Work
    <3>7. PairsAgree'
      BY <1>0, <3>2, <3>4, <3>5 DEF PairsAgree
    <3>8. QED
      BY <1>0, <2>2, <3>2, <3>3, <3>5, <3>6, <3>7
  <2>5. CASE Deletes(x)
    <3>1. PairsAgree'
      BY <1>0, <2>5 DEF PairsAgree, Deletes
    <3>2. QED
      BY <1>0, <2>2, <2>5, <3>1 DEF Deletes
  <2>6. CASE UNCHANGED <<announcement, saved, aired>>
    BY <1>0, <2>2, <2>6 DEF PairsAgree
  <2>7. QED
    BY <2>1, <2>3, <2>4, <2>5, <2>6
<1>3. QED
  BY <1>1, <1>2, AuthorMoves

LEMMA PairsMakeOneRule == BroadcastInv => OneRule
<1>. DEFINE Rule(a) == /\ \A b \in Readers : /\ IsAnnouncementVisible(a, b) <=> VisibleTo(a, b)
                                             /\ TenantSelect(a, b) <=> VisibleTo(a, b)
                       /\ DisplayState(a) = "live" <=> \E b \in Readers : VisibleTo(a, b)
<1> SUFFICES ASSUME BroadcastInv, NEW r \in Ids, announcement[r] # Unset
             PROVE  Rule(announcement[r])
  BY DEF OneRule
<1>0. PICK a : a = announcement[r]
  OBVIOUS
<1>1. a \in Announcement /\ PairOk(a.audience, a.brand) /\ now \in Int
  BY <1>0, AnnouncementAssumption DEF BroadcastInv, BroadcastShape, PairsAgree, Moments
<1>2. /\ a.publishAt # Unset => a.publishAt \in Int
      /\ a.expiresAt # Unset => a.expiresAt \in Int
      /\ a.audience \in {"all_brands", "single_brand"} /\ a.brand \in Readers \cup {Unset}
      /\ a.status \in {"draft", "published", "archived"}
  BY <1>1 DEF Announcement, Moments, AnnouncementStatuses
<1>3. /\ Reached(a.publishAt) <=> ~(a.publishAt # Unset /\ a.publishAt > now)
      /\ NotOver(a.expiresAt) <=> ~(a.expiresAt # Unset /\ a.expiresAt <= now)
  BY <1>1, <1>2 DEF Reached, NotOver
<1>4. ASSUME NEW b \in Readers
      PROVE  /\ IsAnnouncementVisible(a, b) <=> VisibleTo(a, b)
             /\ TenantSelect(a, b) <=> VisibleTo(a, b)
  <2>1. b # Unset
    BY AnnouncementAssumption
  <2>2. QED
    BY <1>1, <1>2, <1>3, <2>1 DEF IsAnnouncementVisible, VisibleTo, TenantSelect, PairOk
<1>5. \E b \in Readers : a.audience = "all_brands" \/ (a.audience = "single_brand" /\ a.brand = b)
  BY <1>1, <1>2, AnnouncementAssumption DEF PairOk
<1>6. DisplayState(a) = "live" <=> a.status = "published" /\ Reached(a.publishAt) /\ NotOver(a.expiresAt)
  BY <1>2, <1>3 DEF DisplayState
<1>7. Rule(a)
  BY <1>4, <1>5, <1>6 DEF VisibleTo
<1>8. QED
  BY <1>0, <1>7

-----------------------------------------------------------------------------

(* One request at a time. *)

AtDesk == {x \in Authors : call[x].pc \in {"read", "write"}}

\* What is about to be written was read from the row as it still is.
StillAsRead(x) ==
    LET a == announcement[call[x].row] IN
    call[x].pc = "write" /\ a # Unset =>
        /\ call[x].kind = "delete" => a.status = "draft"
        /\ call[x].kind = "patch" /\ call[x].form = Unset => call[x].pair = <<a.audience, a.brand>>

\* The inductive invariant where requests do not overlap.  The rows that were ever inserted are
\* the first ones, which makes the next one new.
KeptInv ==
    /\ IsFiniteSet(AtDesk) /\ Cardinality(AtDesk) <= 1
    /\ LastSaveStands
    /\ \A r \in aired : announcement[r] # Unset /\ announcement[r].status # "draft"
    /\ \E n \in Nat : {q \in Ids : saved[q] # Unset} = 1..n
    /\ \A x \in Authors : StillAsRead(x)

LEMMA KeptInvInit == AnnouncementsInit => KeptInv
<1> SUFFICES ASSUME AnnouncementsInit PROVE KeptInv
  OBVIOUS
<1>1. \A x \in Authors : call[x].pc = "idle"
  BY NoWorkShape DEF AnnouncementsInit
<1>2. AtDesk = {}
  BY <1>1 DEF AtDesk
<1>3. IsFiniteSet(AtDesk) /\ Cardinality(AtDesk) <= 1
  BY <1>2, FS_EmptySet
<1>4. {q \in Ids : saved[q] # Unset} = 1..0
  BY DEF AnnouncementsInit, NoneYet
<1>5. QED
  BY <1>1, <1>3, <1>4 DEF AnnouncementsInit, NoneYet, KeptInv, LastSaveStands, StillAsRead

LEMMA ScreenNeverWrites ==
    ASSUME BroadcastShape, NEW x \in Authors, ScreenStep(x), NEW y \in Authors
    PROVE  call'[y] = call[y] \/ (y = x /\ call'[y].pc # "write")
<1>0. call \in [Authors -> Work]
  BY DEF BroadcastShape
<1>1. OpenScreen(x) \/ ListArrives(x) => UNCHANGED call
  BY DEF OpenScreen, ListArrives
<1>2. ASSUME NEW kind, NEW row, NEW form, NEW status, Send(x, kind, row, form, status)
      PROVE  call'[y] = call[y] \/ (y = x /\ call'[y].pc # "write")
  BY <1>0, <1>2 DEF Send, NoWork
<1>3. PressStatus(x) \/ PressDelete(x) \/ PressSave(x)
        => \E kind, row, form, status : Send(x, kind, row, form, status)
  <2>1. PressStatus(x) => \E kind, row, form, status : Send(x, kind, row, form, status)
    BY DEF PressStatus
  <2>2. PressDelete(x) => \E kind, row, form, status : Send(x, kind, row, form, status)
    BY DEF PressDelete
  <2>3. PressSave(x) => \E kind, row, form, status : Send(x, kind, row, form, status)
    BY DEF PressSave
  <2>4. QED
    BY <2>1, <2>2, <2>3
<1>4. CASE Answer(x)
  BY <1>0, <1>4 DEF Answer, NoWork
<1>5. QED
  BY <1>1, <1>2, <1>3, <1>4 DEF ScreenStep

LEMMA KeptInvStep ==
    ASSUME BroadcastInv, KeptInv, AnnouncementsNext, Cardinality(AtDesk') <= 1
    PROVE  KeptInv'
<1>0. /\ announcement \in [Ids -> Announcement \cup {Unset}] /\ saved \in [Ids -> Form \cup {Unset}]
      /\ aired \subseteq Ids /\ now \in Moments /\ call \in [Authors -> Work] /\ BroadcastShape
  BY DEF BroadcastInv, BroadcastShape
<1>1. ASSUME NEW x \in Authors, \A y \in Authors : y # x => call'[y] = call[y] PROVE IsFiniteSet(AtDesk')
  <2>1. IsFiniteSet(AtDesk \cup {x}) /\ AtDesk' \subseteq AtDesk \cup {x}
    BY <1>1, FS_AddElement DEF KeptInv, AtDesk
  <2>2. QED
    BY <2>1, FS_Subset
<1>2. ASSUME UNCHANGED <<announcement, saved, aired>>, IsFiniteSet(AtDesk'), \A y \in Authors : StillAsRead(y)'
      PROVE  KeptInv'
  BY <1>2 DEF KeptInv, LastSaveStands
<1>3. CASE Pass
  BY <1>3 DEF Pass, KeptInv, AtDesk, LastSaveStands, StillAsRead
<1>4. ASSUME NEW x \in Authors, ScreenStep(x) PROVE KeptInv'
  <2>1. UNCHANGED <<announcement, saved, aired>>
    BY <1>0, <1>4, ScreenStepFits
  <2>2. \A y \in Authors : call'[y] = call[y] \/ (y = x /\ call'[y].pc # "write")
    BY <1>0, <1>4, ScreenNeverWrites
  <2>3. \A y \in Authors : StillAsRead(y)'
    BY <2>1, <2>2 DEF KeptInv, StillAsRead
  <2>4. QED
    BY <1>1, <1>2, <2>1, <2>2, <2>3
<1>5. ASSUME NEW x \in Authors, ServeCall(x) \/ FailCall(x) PROVE KeptInv'
  <2>1. /\ \A y \in Authors : y # x => call'[y] = call[y]
        /\ call[x].pc \in {"read", "write"}
        /\ Inserts(x) \/ Writes(x) \/ Deletes(x) \/ UNCHANGED <<announcement, saved, aired>>
        /\ call'[x].pc = "write" => Reads(x) /\ UNCHANGED <<announcement, saved, aired>>
    BY <1>5, ServeCallEffect
  <2>2. IsFiniteSet(AtDesk') /\ \A y \in Authors : y # x => call[y].pc # "write"
    <3>1. x \in AtDesk
      BY <2>1 DEF AtDesk
    <3>2. ASSUME NEW y \in Authors, y # x PROVE call[y].pc # "write"
      <4>1. y \notin AtDesk
        BY <3>1, <3>2, OneOfFew DEF KeptInv
      <4>2. QED
        BY <4>1 DEF AtDesk
    <3>3. QED
      BY <1>1, <2>1, <3>2
  <2>3. \A y \in Authors : StillAsRead(y)'
    <3>1. ASSUME call'[x].pc = "write" PROVE StillAsRead(x)'
      <4>1. Reads(x) /\ UNCHANGED announcement
        BY <2>1, <3>1
      <4>2. QED
        BY <4>1 DEF Reads, StillAsRead, Pair
    <3>2. call'[x].pc # "write" => StillAsRead(x)'
      BY DEF StillAsRead
    <3>3. ASSUME NEW y \in Authors, y # x PROVE StillAsRead(y)'
      <4>1. call'[y].pc # "write"
        BY <2>1, <2>2, <3>3
      <4>2. QED
        BY <4>1 DEF StillAsRead
    <3>4. QED
      BY <3>1, <3>2, <3>3
  <2>4. ASSUME LastSaveStands', \E n \in Nat : {q \in Ids : saved'[q] # Unset} = 1..n,
               \A r \in aired' : announcement'[r] # Unset /\ announcement'[r].status # "draft"
        PROVE  KeptInv'
    BY <2>2, <2>3, <2>4 DEF KeptInv
  <2>5. PICK n \in Nat : {q \in Ids : saved[q] # Unset} = 1..n
    BY DEF KeptInv
  <2>6. ASSUME NEW r \in Ids, announcement[r] # Unset PROVE saved[r] = FormOf(announcement[r]) /\ saved[r] # Unset
    <3>1. saved[r] = FormOf(announcement[r]) /\ announcement[r] \in Announcement
      BY <1>0, <2>6 DEF KeptInv, LastSaveStands
    <3>2. FormOf(announcement[r]) \in Form
      BY <3>1 DEF Announcement, Form, FormOf
    <3>3. QED
      BY <3>1, <3>2, AnnouncementAssumption
  <2>7. CASE Inserts(x)
    <3>1. PICK r \in Ids, f \in Forms :
            /\ r = 1 + Cardinality({q \in Ids : saved[q] # Unset})
            /\ announcement' = [announcement EXCEPT ![r] = NewRow(f, <<f.audience, f.brand>>)]
            /\ saved' = [saved EXCEPT ![r] = f] /\ UNCHANGED aired
      BY <2>7 DEF Inserts
    <3>2. PICK w : w = NewRow(f, <<f.audience, f.brand>>)
      OBVIOUS
    <3>3. FormOf(w) = f /\ f # Unset
      BY <1>0, <3>2, NewRowShape
    <3>4. r = n + 1
      <4>1. Cardinality(1..n) = n
        BY FS_Interval
      <4>2. Cardinality({q \in Ids : saved[q] # Unset}) = n
        BY <2>5, <4>1, Zenon
      <4>3. QED
        BY <3>1, <4>2
    <3>5. saved[r] = Unset
      BY <2>5, <3>4
    <3>6. r \notin aired
      BY <2>6, <3>5 DEF KeptInv
    <3>7. {q \in Ids : saved'[q] # Unset} = 1..(n + 1)
      <4>1. {q \in Ids : saved'[q] # Unset} = {q \in Ids : saved[q] # Unset} \cup {r}
        BY <1>0, <3>1, <3>3
      <4>2. QED
        BY <2>5, <3>4, <4>1
    <3>8. LastSaveStands'
      BY <1>0, <3>1, <3>2, <3>3 DEF KeptInv, LastSaveStands
    <3>9. \A q \in aired' : announcement'[q] # Unset /\ announcement'[q].status # "draft"
      BY <1>0, <3>1, <3>6 DEF KeptInv
    <3>10. QED
      BY <2>4, <3>7, <3>8, <3>9
  <2>8. CASE Writes(x)
    <3>0. call[x] \in Work /\ Fitting(call[x])
      BY DEF BroadcastInv, BroadcastShape
    <3>1. PICK c, a, w : c = call[x] /\ a = announcement[c.row] /\ w = Written(c, a)
      OBVIOUS
    <3>2. c.row \in Ids /\ a \in Announcement /\ a # Unset /\ c.kind = "patch" /\ c.pc = "write"
      BY <1>0, <2>8, <3>0, <3>1 DEF Writes, Fitting
    <3>3. /\ w \in Announcement /\ w # Unset
          /\ w.status = IF c.status = Unset THEN a.status ELSE c.status
          /\ c.form # Unset => FormOf(w) = c.form
          /\ c.form = Unset /\ c.pair = <<a.audience, a.brand>> => FormOf(w) = FormOf(a)
      BY <3>0, <3>1, <3>2, WrittenShape, AnnouncementAssumption
    <3>4. c.form = Unset => c.pair = <<a.audience, a.brand>>
      BY <3>1, <3>2 DEF KeptInv, StillAsRead
    <3>5. /\ announcement' = [announcement EXCEPT ![c.row] = w]
          /\ saved' = [saved EXCEPT ![c.row] = IF c.form = Unset THEN @ ELSE c.form]
          /\ aired' = IF w.status = "published" THEN aired \cup {c.row} ELSE aired
      BY <2>8, <3>1 DEF Writes
    <3>6. saved'[c.row] = FormOf(w)
      BY <1>0, <2>6, <3>1, <3>2, <3>3, <3>4, <3>5
    <3>7. LastSaveStands'
      BY <1>0, <3>5, <3>6 DEF KeptInv, LastSaveStands
    <3>8. {q \in Ids : saved'[q] # Unset} = {q \in Ids : saved[q] # Unset}
      BY <1>0, <2>6, <3>1, <3>2, <3>5
    <3>9. \A r \in aired' : announcement'[r] # Unset /\ announcement'[r].status # "draft"
      <4>1. c.row \in aired => a.status # "draft"
        BY <3>1 DEF KeptInv
      <4>2. c.status \in {Unset, "published", "archived"}
        BY <3>0, <3>1 DEF Work
      <4>3. c.row \in aired' => w.status # "draft"
        BY <3>3, <3>5, <4>1, <4>2
      <4>4. QED
        BY <1>0, <3>2, <3>3, <3>5, <4>3 DEF KeptInv
    <3>10. QED
      BY <2>4, <2>5, <3>7, <3>8, <3>9
  <2>9. CASE Deletes(x)
    <3>0. call[x].row \in Ids
      BY <2>9 DEF Deletes, BroadcastInv, BroadcastShape, Fitting
    <3>1. call[x].row \notin aired
      BY <2>9 DEF Deletes, KeptInv, StillAsRead
    <3>2. QED
      BY <1>0, <2>4, <2>5, <2>9, <3>0, <3>1 DEF Deletes, KeptInv, LastSaveStands
  <2>10. CASE UNCHANGED <<announcement, saved, aired>>
    BY <1>2, <2>2, <2>3, <2>10
  <2>11. QED
    BY <2>1, <2>7, <2>8, <2>9, <2>10
<1>6. QED
  BY <1>3, <1>4, <1>5 DEF AnnouncementsNext, ScreenStep

\* The button that an author pressed last, until the request is answered.
Pressed == {Unset, "status", "delete", "save", "save first"}
Desk(d) == d = [list |-> d.list, sent |-> d.sent] /\ d.sent \in Pressed
DeskInv == desk = [x \in Authors |-> desk[x]] /\ \A x \in Authors : Desk(desk[x])

LEMMA DeskInvInit == AnnouncementsInit => DeskInv
<1> SUFFICES ASSUME AnnouncementsInit PROVE DeskInv
  OBVIOUS
<1>1. PICK d : d = [list |-> NoneYet, sent |-> Unset]
  OBVIOUS
<1>2. Desk(d)
  BY <1>1 DEF Desk, Pressed
<1>3. desk = [x \in Authors |-> d]
  BY <1>1 DEF AnnouncementsInit
<1>4. QED
  BY <1>2, <1>3 DEF DeskInv

LEMMA DeskInvStep == DeskInv /\ AnnouncementsNext => DeskInv'
<1> SUFFICES ASSUME DeskInv, AnnouncementsNext PROVE DeskInv'
  OBVIOUS
<1>1. ASSUME NEW x \in Authors, NEW d, Desk(d), desk' = [desk EXCEPT ![x] = d] PROVE DeskInv'
  BY <1>1 DEF DeskInv
<1>2. ASSUME NEW x \in Authors, NEW s \in Pressed, desk' = [desk EXCEPT ![x].sent = s] PROVE DeskInv'
  <2>1. PICK e, d : e = desk[x] /\ d = [e EXCEPT !.sent = s]
    OBVIOUS
  <2>2. Desk(e)
    BY <2>1 DEF DeskInv
  <2>3. d = [list |-> e.list, sent |-> s]
    BY <2>1, <2>2 DEF Desk
  <2>4. Desk(d)
    BY <2>3 DEF Desk
  <2>5. desk' = [desk EXCEPT ![x] = d]
    BY <1>2, <2>1
  <2>6. QED
    BY <1>1, <2>4, <2>5
<1>3. ASSUME NEW x \in Authors, ListArrives(x) PROVE DeskInv'
  <2>1. PICK i \in DOMAIN lists[x] : desk' = [desk EXCEPT ![x].list = lists[x][i]]
    BY <1>3 DEF ListArrives
  <2>2. PICK e, d : e = desk[x] /\ d = [e EXCEPT !.list = lists[x][i]]
    OBVIOUS
  <2>3. Desk(e)
    BY <2>2 DEF DeskInv
  <2>4. d = [list |-> lists[x][i], sent |-> e.sent]
    BY <2>2, <2>3 DEF Desk
  <2>5. Desk(d)
    BY <2>3, <2>4 DEF Desk
  <2>6. desk' = [desk EXCEPT ![x] = d]
    BY <2>1, <2>2
  <2>7. QED
    BY <1>1, <2>5, <2>6
<1>4. ASSUME NEW x \in Authors, PressStatus(x) \/ PressDelete(x) \/ PressSave(x) \/ Answer(x) PROVE DeskInv'
  <2>1. PICK s \in Pressed : desk' = [desk EXCEPT ![x].sent = s]
    BY <1>4 DEF PressStatus, PressDelete, PressSave, Answer, Pressed
  <2>2. QED
    BY <1>2, <2>1
<1>5. ASSUME UNCHANGED desk PROVE DeskInv'
  BY <1>5 DEF DeskInv
<1>6. ASSUME NEW x \in Authors, ServeCall(x) \/ FailCall(x) \/ OpenScreen(x) PROVE UNCHANGED desk
  BY <1>6 DEF ServeCall, FailCall, OpenScreen
<1>7. Pass => UNCHANGED desk
  BY DEF Pass
<1>8. QED
  BY <1>3, <1>4, <1>5, <1>6, <1>7 DEF AnnouncementsNext

LEMMA BroadcastsTyped == BroadcastInv /\ DeskInv => AnnouncementsTypeOK
BY DEF BroadcastInv, BroadcastShape, DeskInv, Desk, Pressed, AnnouncementsTypeOK

-----------------------------------------------------------------------------

(* The welcome tour. *)

Tab == [user: Users \cup {NoUser}, inApp: BOOLEAN, checked: BOOLEAN, open: BOOLEAN,
        greets: Users \cup {NoUser}, slide: 0..LastSlide]
MeRead == [user: Users \cup {NoUser}, done: BOOLEAN, seen: 0..MaxTourPosts]
Post == [user: Users, at: 0..MaxTourPosts, pc: {"sent", "write"}]

TourShape ==
    /\ completedAt \in [Users -> 0..MaxTourPosts] /\ tab \in Tab /\ meRead \in MeRead
    /\ posts \subseteq Post /\ postsSent \in 0..MaxTourPosts

\* What is read about a user, and what was learned, is about the user who is
\* signed in.
TourInv ==
    /\ TourShape
    /\ meRead # NoRead => meRead.user = tab.user /\ tab.user # NoUser
    /\ tab.greets # NoUser => tab.greets = tab.user

LEMMA TourInvInit == TourInit => TourInv
<1> SUFFICES ASSUME TourInit PROVE TourInv
  OBVIOUS
<1>1. completedAt \in [Users -> 0..MaxTourPosts] /\ postsSent \in 0..MaxTourPosts /\ posts = {}
  BY TourAssumption DEF TourInit
<1>2. tab \in Tab /\ tab.greets = NoUser
  BY TourAssumption DEF TourInit, Tab
<1>3. meRead = NoRead /\ NoRead \in MeRead
  BY TourAssumption DEF TourInit, NoRead, MeRead
<1>4. QED
  BY <1>1, <1>2, <1>3 DEF TourInv, TourShape

\* A tab that is rendered, if the tab before asked for nothing or this one
\* belongs to the same user.
LEMMA RenderKeeps ==
    ASSUME TourInv, NEW t \in Tab, Render(t), ~Asks(tab) \/ ~Asks(t),
           t.greets # NoUser => t.greets = t.user
    PROVE  /\ tab' \in Tab /\ meRead' \in MeRead
           /\ meRead' # NoRead => meRead'.user = tab'.user /\ tab'.user # NoUser
           /\ tab'.greets # NoUser => tab'.greets = tab'.user
<1>1. tab' = t
  BY DEF Render
<1>2. CASE ~Asks(t)
  <2>1. meRead' = NoRead /\ NoRead \in MeRead
    BY <1>2, TourAssumption DEF Render, NoRead, MeRead
  <2>2. QED
    BY <1>1, <2>1
<1>3. CASE Asks(t) /\ ~Asks(tab)
  <2>1. meRead' = [user |-> t.user, done |-> FALSE, seen |-> 0]
    BY <1>3 DEF Render
  <2>2. meRead' \in MeRead /\ meRead'.user = t.user /\ t.user # NoUser
    BY <1>3, <2>1, TourAssumption DEF Tab, MeRead, Asks, Eligible
  <2>3. QED
    BY <1>1, <2>2
<1>4. QED
  BY <1>2, <1>3

LEMMA IdentityShape ==
    ASSUME TourInv, NEW u \in Users \cup {NoUser}
    PROVE  /\ Identity(u) \in Tab /\ Identity(u).user = u /\ Identity(u).inApp = tab.inApp
           /\ Identity(u).greets # NoUser => Identity(u).greets = u
<1>. PICK t : t = [tab EXCEPT !.user = u]
  OBVIOUS
<1>. PICK f : f = [t EXCEPT !.checked = FALSE, !.open = FALSE, !.greets = NoUser, !.slide = 0]
  OBVIOUS
<1>1. tab \in Tab
  BY DEF TourInv, TourShape
<1>2. t \in Tab /\ t.user = u /\ t.greets = tab.greets /\ t.inApp = tab.inApp
  BY <1>1 DEF Tab
<1>3. f \in Tab /\ f.user = u /\ f.greets = NoUser /\ f.inApp = tab.inApp
  <2>1. 0 \in 0..LastSlide /\ NoUser \in Users \cup {NoUser}
    BY TourAssumption
  <2>2. QED
    BY <1>2, <2>1 DEF Tab
<1>4. Identity(u) = IF u = tab.user THEN t ELSE f
  BY DEF Identity, Forgotten
<1>5. QED
  BY <1>2, <1>3, <1>4 DEF TourInv

LEMMA TourInvStep ==
    ASSUME TourInv, TourNext
    PROVE  TourInv'
<1>0. TourShape /\ tab \in Tab /\ meRead \in MeRead
  BY DEF TourInv, TourShape
<1>1. CASE SignIn
  <2>1. PICK u \in Users : Render(Identity(u))
    BY <1>1 DEF SignIn
  <2>2. ~Asks(tab)
    BY <1>1 DEF SignIn, Asks, Eligible
  <2>3. QED
    BY <1>0, <1>1, <2>1, <2>2, IdentityShape, RenderKeeps DEF SignIn, TourInv, TourShape
<1>2. CASE SignOut
  <2>1. PICK t : t = [Identity(NoUser) EXCEPT !.inApp = FALSE]
    OBVIOUS
  <2>2. t \in Tab /\ t.user = NoUser /\ t.greets = Identity(NoUser).greets
    <3>1. PICK i : i = Identity(NoUser)
      OBVIOUS
    <3>2. i \in Tab /\ i.user = NoUser
      BY <3>1, IdentityShape
    <3>3. t = [i EXCEPT !.inApp = FALSE]
      BY <2>1, <3>1
    <3>4. QED
      BY <3>1, <3>2, <3>3 DEF Tab
  <2>3. ~Asks(t) /\ (t.greets # NoUser => t.greets = t.user)
    BY <2>2, IdentityShape DEF Asks, Eligible
  <2>4. Render(t)
    BY <1>2, <2>1 DEF SignOut
  <2>5. QED
    BY <1>0, <1>2, <2>2, <2>3, <2>4, RenderKeeps DEF SignOut, TourInv, TourShape
<1>3. CASE Wander
  <2>1. PICK t : t = [tab EXCEPT !.inApp = ~@]
    OBVIOUS
  <2>2. t \in Tab /\ t.user = tab.user /\ t.greets = tab.greets /\ t.inApp = ~tab.inApp
    BY <1>0, <2>1 DEF Tab
  <2>3. ~Asks(tab) \/ ~Asks(t)
    BY <2>2 DEF Asks, Eligible
  <2>4. Render(t)
    BY <1>3, <2>1 DEF Wander
  <2>5. QED
    BY <1>0, <1>3, <2>2, <2>3, <2>4, RenderKeeps DEF Wander, TourInv, TourShape
<1>4. CASE ServeMe
  <2>1. meRead.user \in Users
    BY <1>0, <1>4 DEF ServeMe, TourInv, MeRead
  <2>2. QED
    BY <1>0, <1>4, <2>1 DEF ServeMe, TourInv, TourShape, MeRead
<1>5. CASE MeArrives
  <2>1. PICK open \in BOOLEAN : open = (tab.open \/ meRead.seen = 0)
    OBVIOUS
  <2>2. tab' = [tab EXCEPT !.checked = TRUE, !.greets = meRead.user, !.open = open]
    BY <1>0, <1>5, <2>1 DEF MeArrives
  <2>3. tab' \in Tab /\ tab'.greets = meRead.user /\ tab'.user = tab.user
    BY <1>0, <2>2 DEF Tab, MeRead
  <2>4. meRead # NoRead
    BY <1>5 DEF MeArrives, NoRead
  <2>5. meRead' = NoRead /\ NoRead \in MeRead
    BY <1>5, TourAssumption DEF MeArrives, NoRead, MeRead
  <2>6. QED
    BY <1>0, <1>5, <2>3, <2>4, <2>5 DEF MeArrives, TourInv, TourShape
<1>6. CASE MeFails
  <2>1. tab' \in Tab /\ tab'.greets = tab.greets /\ tab'.user = tab.user
    BY <1>0, <1>6 DEF MeFails, Tab
  <2>2. meRead' = NoRead /\ NoRead \in MeRead
    BY <1>6, TourAssumption DEF MeFails, NoRead, MeRead
  <2>3. QED
    BY <1>0, <1>6, <2>1, <2>2 DEF MeFails, TourInv, TourShape
<1>7. CASE Replay \/ Turn
  <2>1. tab' \in Tab /\ tab'.greets = tab.greets /\ tab'.user = tab.user
    <3>1. 0 \in 0..LastSlide
      BY TourAssumption
    <3>2. PICK slide \in 0..LastSlide, open \in BOOLEAN :
             tab' = [tab EXCEPT !.open = open, !.slide = slide]
      <4>1. tab = [tab EXCEPT !.open = tab.open] /\ tab.open \in BOOLEAN
        BY <1>0 DEF Tab
      <4>2. CASE Replay
        BY <3>1, <4>2 DEF Replay
      <4>3. CASE Turn
        <5>1. PICK slide \in 0..LastSlide : tab' = [tab EXCEPT !.slide = slide]
          BY <4>3 DEF Turn
        <5>2. tab' = [tab EXCEPT !.open = tab.open, !.slide = slide]
          BY <1>0, <5>1 DEF Tab
        <5>3. QED
          BY <4>1, <5>2
      <4>4. QED
        BY <1>7, <4>2, <4>3
    <3>3. QED
      BY <1>0, <3>2 DEF Tab
  <2>2. QED
    BY <1>0, <1>7, <2>1 DEF Replay, Turn, TourInv, TourShape
<1>8. CASE Dismiss
  <2>1. tab' \in Tab /\ tab'.greets = tab.greets /\ tab'.user = tab.user
    BY <1>0, <1>8 DEF Dismiss, Tab
  <2>2. postsSent + 1 \in 0..MaxTourPosts /\ tab.user \in Users
    BY <1>0, <1>8, TourAssumption DEF Dismiss, Shown, Eligible, Tab, TourShape
  <2>3. [user |-> tab.user, at |-> postsSent + 1, pc |-> "sent"] \in Post
    BY <2>2 DEF Post
  <2>4. QED
    BY <1>0, <1>8, <2>1, <2>2, <2>3 DEF Dismiss, TourInv, TourShape
<1>9. CASE ReadProfile
  <2>1. PICK q \in posts :
           posts' = (posts \ {q}) \cup (IF completedAt[q.user] # 0 THEN {} ELSE {[q EXCEPT !.pc = "write"]})
    BY <1>9 DEF ReadProfile
  <2>2. q \in Post
    BY <1>0 DEF TourShape
  <2>3. [q EXCEPT !.pc = "write"] \in Post
    BY <2>2 DEF Post
  <2>4. QED
    BY <1>0, <1>9, <2>1, <2>3 DEF ReadProfile, TourInv, TourShape
<1>10. CASE WriteProfile \/ PostLost
  BY <1>0, <1>10 DEF WriteProfile, PostLost, TourInv, TourShape, Post
<1>11. QED
  BY <1>1, <1>2, <1>3, <1>4, <1>5, <1>6, <1>7, <1>8, <1>9, <1>10 DEF TourNext

-----------------------------------------------------------------------------

(* The platform as MCPlatform composes it.  A part that has no step in a scenario stays as it *)
(* began, and a part that has one keeps its invariant.                                        *)

LEMMA RegistryRests == RegistryInv /\ UNCHANGED registryVars => RegistryInv'
BY DEF registryVars, RegistryInv, RegistryTypeOK, FloorsAreSettled, CacheIsFresh, WaitersAreServed, ReadsAreFresh

LEMMA TeamRests == TeamInv /\ UNCHANGED teamVars => TeamInv'
BY DEF teamVars, TeamInv, TeamShape, Fits, NoOrphanAccount, IsOwner

LEMMA AccessRests ==
    ASSUME UNCHANGED accessVars
    PROVE  (AccessInv => AccessInv') /\ (ClerkInv => ClerkInv')
BY DEF accessVars, AccessInv, AccessShape, Sids, ClerkInv, Undisturbed, Busy, RpcRecord

LEMMA BroadcastsRest ==
    ASSUME UNCHANGED announcementVars
    PROVE  (BroadcastInv => BroadcastInv') /\ (KeptInv => KeptInv')
BY DEF announcementVars, BroadcastInv, BroadcastShape, PairsAgree, KeptInv, AtDesk, LastSaveStands, StillAsRead

LEMMA TourRests == TourInv /\ UNCHANGED tourVars => TourInv'
BY DEF tourVars, TourInv, TourShape

LEMMA PriceRests ==
    ASSUME UNCHANGED priceVars
    PROVE  /\ PriceInv => PriceInv'
           /\ SoloInv => SoloInv'
           /\ TimelyInv => TimelyInv'
<1>0. UNCHANGED <<rows, stripe, served, admins, brands, sweep, swept, failures, today>>
  BY DEF priceVars
<1>1. PriceInv => PriceInv'
  BY <1>0 DEF PriceInv, PriceShape, OneOffer, ActiveRows, Rows, Keyed, OnlyRetired, Retired,
              Prepared, SameKey, Buying
<1>2. SoloInv => SoloInv'
  BY <1>0 DEF SoloInv, OpenDialogs, Fresh, FreshFor
<1>3. TimelyInv => TimelyInv'
  BY <1>0 DEF TimelyInv, Rows, Retired, Tries
<1>4. QED
  BY <1>1, <1>2, <1>3

\* The inductive invariant of the platform.
PlatformInv ==
    /\ RegistryInv /\ TeamInv /\ AccessInv /\ TourInv
    /\ BroadcastInv /\ KeptInv
    /\ PriceInv
    /\ ~At({"days"}) => today = 0
    /\ At({"days"}) => SoloInv
    /\ At({"clerk"}) => ClerkInv

LEMMA PlatformInvInit == MCInit => PlatformInv
<1> SUFFICES ASSUME MCInit PROVE PlatformInv
  OBVIOUS
<1>1. RegistryInv /\ TeamInv /\ AccessInv /\ ClerkInv /\ TourInv /\ BroadcastInv /\ KeptInv
  BY InitialInv, TeamInvInit, AccessInvInit, ClerkInvInit, TourInvInit, BroadcastInvInit, KeptInvInit DEF MCInit
<1>2. PriceInv /\ SoloInv /\ today = 0
  BY PriceInvInit, SoloInvInit DEF MCInit, PriceInit
<1>3. QED
  BY <1>1, <1>2 DEF PlatformInv

LEMMA PriceFollowsStep ==
    ASSUME PlatformInv, MCNext, At({"race", "days"}), PriceNext, PriceFollows'
    PROVE  /\ PriceInv'
           /\ ~At({"days"})' => today' = 0
           /\ At({"days"})' => SoloInv'
<1>0. scenario' = scenario
  BY DEF MCNext
<1>1. CASE scenario = "race"
  <2>1. today' = 0 /\ ~At({"days"})'
    BY <1>0, <1>1 DEF PriceFollows, At
  <2>2. QED
    BY <2>1, PriceInvStep DEF PlatformInv
<1>2. CASE scenario = "days"
  <2>1. Cardinality(OpenDialogs') <= 1 /\ At({"days"}) /\ At({"days"})'
    BY <1>0, <1>2 DEF PriceFollows, OpenDialogs, At
  <2>2. SoloInv'
    BY <2>1, SoloInvStep DEF PlatformInv
  <2>3. PriceInv'
    BY <2>1, PriceInvStep DEF PlatformInv, SoloInv
  <2>4. QED
    BY <2>1, <2>2, <2>3
<1>3. QED
  BY <1>1, <1>2 DEF At

LEMMA PlatformInvStep ==
    ASSUME PlatformInv, MCNext
    PROVE  PlatformInv'
<1>0. scenario' = scenario
  BY DEF MCNext
<1>1. RegistryInv'
  <2>1. RegistryNext \/ UNCHANGED registryVars
    BY DEF MCNext
  <2>2. QED
    BY <2>1, RegistryRests, StepKeepsInv DEF PlatformInv
<1>2. TeamInv'
  <2>1. TeamNext \/ UNCHANGED teamVars
    BY DEF MCNext
  <2>2. QED
    BY <2>1, TeamRests, TeamInvStep DEF PlatformInv
<1>3. AccessInv' /\ (At({"clerk"})' => ClerkInv')
  <2>1. CASE AccessNext /\ AccessFollows
    <3>1. AccessInv'
      BY <2>1, AccessInvStep DEF PlatformInv
    <3>2. At({"clerk"}) => ClerkFollows /\ ClerkInv
      BY <2>1 DEF AccessFollows, ClerkFollows, Busy, PlatformInv
    <3>3. At({"clerk"})' => At({"clerk"})
      BY <1>0 DEF At
    <3>4. QED
      BY <2>1, <3>1, <3>2, <3>3, ClerkInvStep DEF PlatformInv
  <2>2. CASE UNCHANGED accessVars
    BY <1>0, <2>2, AccessRests DEF PlatformInv, At
  <2>3. QED
    BY <2>1, <2>2 DEF MCNext
<1>4. TourInv'
  <2>1. TourNext \/ UNCHANGED tourVars
    BY DEF MCNext
  <2>2. QED
    BY <2>1, TourRests, TourInvStep DEF PlatformInv
<1>5. BroadcastInv' /\ KeptInv'
  <2>1. CASE AnnouncementsNext /\ DeskFollows'
    <3>1. Cardinality(AtDesk') <= 1
      BY <2>1 DEF DeskFollows, AtDesk
    <3>2. QED
      BY <2>1, <3>1, BroadcastInvStep, KeptInvStep DEF PlatformInv
  <2>2. CASE UNCHANGED announcementVars
    BY <2>2, BroadcastsRest DEF PlatformInv
  <2>3. QED
    BY <2>1, <2>2 DEF MCNext
<1>6. PriceInv' /\ (~At({"days"})' => today' = 0) /\ (At({"days"})' => SoloInv')
  <2>1. CASE At({"race", "days"}) /\ PriceNext /\ PriceFollows'
    BY <2>1, PriceFollowsStep
  <2>2. CASE UNCHANGED priceVars
    BY <1>0, <2>2, PriceRests DEF PlatformInv, At, priceVars
  <2>3. QED
    BY <2>1, <2>2 DEF MCNext
<1>7. QED
  BY <1>1, <1>2, <1>3, <1>4, <1>5, <1>6 DEF PlatformInv

LEMMA PlatformInvHolds == MCSpec => []PlatformInv
<1>1. MCInit => PlatformInv
  BY PlatformInvInit
<1>2. PlatformInv /\ [MCNext]_platformVars => PlatformInv'
  <2>1. ASSUME PlatformInv, UNCHANGED platformVars PROVE PlatformInv'
    <3>1. /\ UNCHANGED registryVars /\ UNCHANGED priceVars /\ UNCHANGED announcementVars
          /\ UNCHANGED teamVars /\ UNCHANGED accessVars /\ UNCHANGED tourVars /\ UNCHANGED scenario
      BY <2>1 DEF platformVars
    <3>2. UNCHANGED today
      BY <3>1 DEF priceVars
    <3>3. QED
      BY <2>1, <3>1, <3>2, RegistryRests, PriceRests, BroadcastsRest, TeamRests, AccessRests, TourRests
         DEF PlatformInv, At
  <2>2. QED
    BY <2>1, PlatformInvStep
<1>3. QED
  BY <1>1, <1>2, PTL DEF MCSpec

LEMMA AccessTyped == AccessInv => AccessTypeOK
BY DEF AccessInv, AccessShape, AccessTypeOK, RpcRecord, Sids

LEMMA TourTyped == TourInv => TourTypeOK
BY DEF TourInv, TourShape, TourTypeOK, Tab, MeRead, Post

\* Every part of the platform keeps its types and bounds, in every scenario: one row of
\* plan_price is on offer and a switch retires the one before (plan-price.ts:188), no row is
\* inserted beyond the bound, and what a dialog, a request, a session or a tab refers to exists.
THEOREM PlatformTyped == MCSpec => []TypeOK
<1>1. MCInit => WithinBounds /\ DeskInv
  BY WithinBoundsInit, DeskInvInit DEF MCInit
<1>2. PlatformInv /\ PlatformInv' /\ WithinBounds /\ DeskInv /\ [MCNext]_platformVars => WithinBounds' /\ DeskInv'
  <2> SUFFICES ASSUME PlatformInv, PlatformInv', WithinBounds, DeskInv, [MCNext]_platformVars
               PROVE  WithinBounds' /\ DeskInv'
    OBVIOUS
  <2>1. PriceInv /\ PriceInv'
    BY DEF PlatformInv
  <2>2. UNCHANGED priceVars => WithinBounds'
    BY DEF priceVars, WithinBounds
  <2>3. UNCHANGED announcementVars => DeskInv'
    BY DEF announcementVars, DeskInv
  <2>4. (PriceNext \/ UNCHANGED priceVars) /\ (AnnouncementsNext \/ UNCHANGED announcementVars)
    BY DEF MCNext, platformVars
  <2>5. QED
    BY <2>1, <2>2, <2>3, <2>4, WithinBoundsStep, DeskInvStep
<1>3. PlatformInv /\ WithinBounds /\ DeskInv => TypeOK
  BY PriceTyped, BroadcastsTyped, TeamTyped, AccessTyped, TourTyped DEF PlatformInv, RegistryInv, TypeOK
<1>4. QED
  BY <1>1, <1>2, <1>3, PlatformInvHolds, PTL DEF MCSpec

\* What a checkout offers can be paid at Stripe, and what the page of a brand showed is what it
\* is charged, however many administrators reprice meanwhile (plan-price.ts:175, :188).
THEOREM PlatformOfferIsHonoured == MCSpec => []OfferIsHonoured
<1>1. PlatformInv => OfferIsHonoured
  BY PriceIsPayable, PriceIsCharged DEF PlatformInv, OfferIsHonoured
<1>2. QED
  BY <1>1, PlatformInvHolds, PTL

\* A price outlives every checkout session that was opened on it; and where the worker fails
\* fewer times than the days it looks back, no replaced price stays alive (reconciliation.ts:22).
THEOREM PlatformArchivesInTime ==
    ASSUME Deferral + MaxFailures <= Lookback
    PROVE  MCSpec => []ArchivedInTime
<1>1. MCInit => TimelyInv
  BY TimelyInvInit DEF MCInit
<1>2. PlatformInv /\ TimelyInv /\ [MCNext]_platformVars => TimelyInv'
  <2>1. ASSUME PlatformInv, TimelyInv, UNCHANGED priceVars PROVE TimelyInv'
    BY <2>1, PriceRests
  <2>2. ASSUME PlatformInv, TimelyInv, At({"race", "days"}), PriceNext, PriceFollows', UNCHANGED scenario
        PROVE  TimelyInv'
    <3>1. scenario = "race" => today' = 0
      BY <2>2 DEF PriceFollows
    <3>2. scenario = "days" => Fresh
      BY <2>2 DEF PlatformInv, At, SoloInv
    <3>3. today' = 0 \/ Fresh
      BY <2>2, <3>1, <3>2 DEF At
    <3>4. QED
      BY <2>2, <3>3, TimelyInvStep DEF PlatformInv
  <2>3. UNCHANGED platformVars => UNCHANGED priceVars
    BY DEF platformVars
  <2>4. QED
    BY <2>1, <2>2, <2>3 DEF MCNext
<1>3. PlatformInv /\ TimelyInv => ArchivedInTime
  BY PriceOutlivesSessions, TimelyArchives DEF PlatformInv, ArchivedInTime
<1>4. QED
  BY <1>1, <1>2, <1>3, PlatformInvHolds, PTL DEF MCSpec

\* The three places that decide who sees a broadcast, and the state its author is shown, agree
\* (announcements.ts:52, notifications.ts:15), whatever was saved and whenever it is read.
THEOREM PlatformOneRule == MCSpec => []OneRule
<1>1. PlatformInv => OneRule
  BY PairsMakeOneRule DEF PlatformInv
<1>2. QED
  BY <1>1, PlatformInvHolds, PTL

\* A broadcast is what was last saved of it, and is kept once it went out, as long as no two
\* requests about broadcasts overlap (admin-announcements.ts:145, :196).
THEOREM PlatformBroadcastStands == MCSpec => []BroadcastStands
<1>1. PlatformInv => BroadcastStands
  BY DEF PlatformInv, KeptInv, BroadcastStands, KeptForAudit
<1>2. QED
  BY <1>1, PlatformInvHolds, PTL

\* An account that was made for a member who was not stored is deleted or being deleted, unless
\* the deletion failed or the server died (brand-members.ts:79, brand.ts:37).
THEOREM PlatformNoOrphanAccount == MCSpec => []NoOrphanAccount
<1>1. PlatformInv => NoOrphanAccount
  BY DEF PlatformInv, TeamInv
<1>2. QED
  BY <1>1, PlatformInvHolds, PTL

\* The welcome tour that is shown was opened for who is signed in (lib/onboarding.tsx), however
\* late the answers are.
THEOREM PlatformTourForTheRightUser == MCSpec => []TourForTheRightUser
<1>1. PlatformInv => TourForTheRightUser
  BY DEF PlatformInv, TourInv, TourShape, TourForTheRightUser, Tab
<1>2. QED
  BY <1>1, PlatformInvHolds, PTL

\* Who lost a role or was suspended acts no more, and one request at a time never shows that a
\* token expired (guards.ts:27, admin-users.ts:132, lib/api.ts:3).
THEOREM PlatformAccessIsCurrent == MCSpec => AccessIsCurrent
<1> DEFINE Acts == \A u \in People :
               visit[u].op # "signup" /\ visit[u].pc \in {"insert", "write"} /\ visit'[u].pc = "done"
                   => u \in entitled
           Serves == \A c \in Calls : rpc[c].pc = "sent" /\ rpc'[c].pc = "served"
                                        => rpc[c].sid > mark /\ staff.status = "active"
           Renews == At({"clerk"}) => ExpiryIsTransparent'
<1>1. PlatformInv => Acts
  BY OnlyOwnersAct DEF PlatformInv
<1>2. PlatformInv /\ [MCNext]_platformVars => Serves
  <2>1. ASSUME PlatformInv, AccessNext PROVE Serves
    BY <2>1, OnlyLiveServed DEF PlatformInv
  <2>2. ASSUME UNCHANGED rpc PROVE Serves
    BY <2>2
  <2>3. [MCNext]_platformVars => AccessNext \/ UNCHANGED rpc
    BY DEF MCNext, platformVars, accessVars
  <2>4. QED
    BY <2>1, <2>2, <2>3
<1>3. PlatformInv' /\ [MCNext]_platformVars => Renews
  BY DEF PlatformInv, ClerkInv, ExpiryIsTransparent, At, MCNext, platformVars
<1>4. MCSpec => [][Acts]_<<visit, member>>
  BY <1>1, PlatformInvHolds, PTL
<1>5. MCSpec => [][Serves]_<<rpc, mark>>
  BY <1>2, PlatformInvHolds, PTL DEF MCSpec
<1>6. MCSpec => [][Renews]_accessVars
  BY <1>3, PlatformInvHolds, PTL DEF MCSpec
<1>7. QED
  BY <1>4, <1>5, <1>6 DEF AccessIsCurrent, RevokedActsNoMore, SuspensionEndsSessions, RenewalIsInvisible

=============================================================================
