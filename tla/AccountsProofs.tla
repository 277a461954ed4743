--------------------------- MODULE AccountsProofs ---------------------------
(***************************************************************************)
(* Proofs about the account of a brand.  The Stripe webhook receiver first *)
(* by itself, for any events, handlers and runs of the worker, in any      *)
(* order and with any number of restarts: a top-up is booked once, and no  *)
(* event is given up that was not applied.  Then the membership, and the   *)
(* account as MCAccounts composes it: what the components' own proofs say  *)
(* of claims and of events carries over to a ledger both of them write to. *)
(***************************************************************************)
EXTENDS MCAccounts, ClaimsProofs

-----------------------------------------------------------------------------

(* The webhook receiver. *)

WebhooksSpec == WebhooksInit /\ [][WebhooksNext]_webhookVars

-----------------------------------------------------------------------------

EventKeys == {TopUpKey(e) : e \in Events}

Run ==
    [pc: {"idle", "persist", "lookup", "dispatch", "audit", "mark"},
     event: Events \cup {0}, ok: BOOLEAN]

Seen(e) == rows[e].status # "none"

\* A run that is past the insert, or that the worker has listed, works on an
\* event that is in the table.
WorksOnRows ==
    /\ \A p \in Runs : runs[p].pc \in {"lookup", "dispatch", "audit", "mark"}
                         => Seen(runs[p].event)
    /\ \A w \in Workers : \A i \in 1..Len(todo[w]) : Seen(todo[w][i])

\* A run that is to record a success has applied its event.
AppliedAtEnd ==
    \A p \in Runs : runs[p].pc = "audit" \/ (runs[p].pc = "mark" /\ runs[p].ok)
                      => Applied(runs[p].event)

\* The inductive invariant of the receivers and the worker.
WebhooksInv ==
    WebhooksTypeOK /\ WorksOnRows /\ UniqueKeys /\ AppliedAtEnd /\ NothingLost

-----------------------------------------------------------------------------

LEMMA NoRunShape == NoRun \in Run /\ NoRun.pc = "idle" /\ NoRun.event = 0 /\ 0 \notin Events
BY EventsAssumption DEF NoRun, Run, Events

\* The parts of the type that are stated for each run.
LEMMA RunShape ==
    ASSUME WebhooksTypeOK, NEW p \in Runs
    PROVE  /\ runs[p] \in Run
           /\ runs[p].pc # "idle" => runs[p].event \in Events
           /\ runs[p].event = 0 <=> runs[p] = NoRun
BY NoRunShape DEF WebhooksTypeOK, Run

\* One step of the run of p leaves the other runs alone.
LEMMA SetRun ==
    ASSUME WebhooksTypeOK, NEW p \in Runs, NEW r \in Run,
           r.event \in Events \/ r = NoRun, runs' = [runs EXCEPT ![p] = r]
    PROVE  /\ runs' \in [Runs -> Run]
           /\ runs'[p] = r
           /\ \A q \in Runs : q # p => runs'[q] = runs[q]
           /\ \A q \in Runs : runs'[q].event = 0 <=> runs'[q] = NoRun
<1>1. runs \in [Runs -> Run]
  BY DEF WebhooksTypeOK, Run
<1>2. r.event = 0 <=> r = NoRun
  BY NoRunShape
<1>3. QED
  BY <1>1, <1>2, RunShape

\* What the dispatch of an event does: it is applied, and nothing that was
\* applied before is undone.
LEMMA DispatchEffect ==
    ASSUME WebhooksTypeOK, NEW p \in Runs, Dispatch(p)
    PROVE  /\ runs[p].pc = "dispatch" /\ runs[p].event \in Events
           /\ ledger' \in Seq(Entry(EventKeys))
           /\ UniqueKeys => UniqueKeys'
           /\ sub' = sub \/ (sub' \in Events /\ Kind[sub'] = "subscription")
           /\ imported \subseteq imported'
           /\ imported' \subseteq {e \in Events : Kind[e] = "order"}
           /\ \A k : Booked(k) => Booked(k)'
           /\ \A e \in Events : e = runs[p].event => Applied(e)'
           /\ \E r \in Run :
                /\ runs' = [runs EXCEPT ![p] = r]
                /\ r.event = runs[p].event /\ r.pc \in {"audit", "mark"}
           /\ UNCHANGED <<rows, arrived, aged, todo, answer, conn>>
<1>. PICK e : e = runs[p].event
  OBVIOUS
<1>0. /\ runs[p].pc = "dispatch" /\ e \in Events /\ runs[p] \in Run
      /\ runs \in [Runs -> Run] /\ ledger \in Seq(Entry(EventKeys))
      /\ Kind[e] \in EventKinds /\ TopUpKey(e) \in EventKeys
      /\ imported \subseteq {d \in Events : Kind[d] = "order"}
  BY RunShape, EventsAssumption DEF Dispatch, WebhooksTypeOK, Run, EventKeys
<1>1. ASSUME NEW pc \in {"audit", "mark"}, NEW ok \in BOOLEAN,
             \/ runs' = [runs EXCEPT ![p].pc = pc]
             \/ runs' = [runs EXCEPT ![p].pc = pc, ![p].ok = ok]
      PROVE  \E r \in Run :
                /\ runs' = [runs EXCEPT ![p] = r]
                /\ r.event = runs[p].event /\ r.pc \in {"audit", "mark"}
  <2>1. PICK r1 : r1 = [runs[p] EXCEPT !.pc = pc]
    OBVIOUS
  <2>2. PICK r2 : r2 = [runs[p] EXCEPT !.pc = pc, !.ok = ok]
    OBVIOUS
  <2>3. r1 \in Run /\ r1.event = e /\ r1.pc = pc
    BY <1>0, <2>1 DEF Run
  <2>4. r2 \in Run /\ r2.event = e /\ r2.pc = pc
    BY <1>0, <2>2 DEF Run
  <2>5. runs' = [runs EXCEPT ![p] = r1] \/ runs' = [runs EXCEPT ![p] = r2]
    BY <1>0, <1>1, <2>1, <2>2
  <2>6. QED
    BY <2>3, <2>4, <2>5
<1>2. UNCHANGED <<rows, arrived, aged, todo, answer, conn>>
  BY DEF Dispatch
<1>3. CASE /\ Kind[e] = "topup"
           /\ AppendEntry("deposit", Amount, TopUpKey(e))
           /\ IF Duplicate(TopUpKey(e)) THEN Return(p, TRUE) ELSE ToStep(p, "audit")
           /\ UNCHANGED <<sub, imported>>
  <2>1. Amount \in Int /\ "deposit" \in EntryTypes
    BY LimitsAssumption DEF EntryTypes
  <2>2. PICK k \in EventKeys : k = TopUpKey(e)
    BY <1>0
  <2>3. AppendEntry("deposit", Amount, k)
    BY <1>3, <2>2
  <2>4. ledger' \in Seq(Entry(EventKeys))
    BY <1>0, <2>1, <2>3, AppendEffect
  <2>5. UniqueKeys => UniqueKeys'
    BY <1>0, <2>1, <2>3, AppendKeepsUnique
  <2>6. Booked(k)' /\ \A x : Booked(x) => Booked(x)'
    BY <1>0, <2>1, <2>3, AppendIsBooked
  <2>7. Applied(e)'
    BY <1>3, <2>2, <2>6 DEF Applied
  <2>8. QED
    BY <1>0, <1>1, <1>2, <1>3, <2>4, <2>5, <2>6, <2>7 DEF Return, ToStep
<1>4. CASE /\ Kind[e] = "subscription" /\ sub' = e /\ ToStep(p, "audit")
           /\ UNCHANGED <<ledger, imported>>
  <2>1. Applied(e)'
    BY <1>0, <1>4, NoRunShape DEF Applied
  <2>2. QED
    BY <1>0, <1>1, <1>2, <1>4, <2>1 DEF ToStep, UniqueKeys, Booked
<1>5. CASE /\ Kind[e] = "order" /\ imported' = imported \cup {e} /\ Return(p, TRUE)
           /\ UNCHANGED <<ledger, sub>>
  <2>1. Applied(e)'
    BY <1>0, <1>5 DEF Applied
  <2>2. QED
    BY <1>0, <1>1, <1>2, <1>5, <2>1 DEF Return, UniqueKeys, Booked
<1>6. CASE Kind[e] = "other" /\ Return(p, TRUE) /\ UNCHANGED <<ledger, sub, imported>>
  <2>1. Applied(e)'
    BY <1>0, <1>6 DEF Applied
  <2>2. QED
    BY <1>0, <1>1, <1>2, <1>6, <2>1 DEF Return, UniqueKeys, Booked
<1>7. QED
  BY <1>3, <1>4, <1>5, <1>6 DEF Dispatch

\* What has been applied stays applied.
LEMMA AppliedStays ==
    ASSUME WebhooksTypeOK, WebhooksNext, NEW e \in Events, Applied(e)
    PROVE  Applied(e)'
<1>1. CASE UNCHANGED <<ledger, sub, imported>>
  BY <1>1 DEF Applied, Booked
<1>2. ASSUME NEW p \in Runs, Dispatch(p) PROVE Applied(e)'
  <2>1. /\ sub' = sub \/ sub' \in Events
        /\ imported \subseteq imported'
        /\ \A k : Booked(k) => Booked(k)'
    BY <1>2, DispatchEffect
  <2>2. sub # 0 => sub' # 0
    BY <2>1, NoRunShape
  <2>3. Booked(TopUpKey(e)) => Booked(TopUpKey(e))'
    BY <2>1
  <2>4. QED
    BY <2>1, <2>2, <2>3 DEF Applied
<1>3. QED
  BY <1>1, <1>2
     DEF WebhooksNext, Handle, Work, Deliver, Persist, Lookup, Audit, Throw, MarkDelivery,
         Tick, Take, MarkRetry, Age, Disable, TestStore, Restart, Runs, tables

\* How a run can change in one step.
LEMMA RunMoves ==
    ASSUME WebhooksTypeOK, WebhooksNext, NEW q \in Runs
    PROVE  /\ runs'[q] \in Run /\ (runs'[q].event = 0 <=> runs'[q] = NoRun)
           /\ \/ runs'[q] = runs[q]
              \/ runs'[q] = NoRun
              \/ runs'[q].pc = "persist"
              \/ /\ q \in Workers /\ todo[q] # <<>> /\ UNCHANGED rows
                 /\ runs'[q].pc = "dispatch" /\ runs'[q].event = Head(todo[q])
              \/ /\ runs'[q].event = runs[q].event /\ runs[q].event \in Events
                 /\ \/ runs[q].pc = "persist" /\ runs'[q].pc \in {"lookup", "dispatch"}
                       /\ rows'[runs[q].event].status # "none"
                    \/ runs[q].pc = "lookup" /\ runs'[q].pc = "dispatch" /\ UNCHANGED rows
                    \/ runs[q].pc = "dispatch" /\ runs'[q].pc \in {"audit", "mark"}
                       /\ UNCHANGED rows
                       /\ \A e \in Events : e = runs[q].event => Applied(e)'
                    \/ runs[q].pc = "audit" /\ runs'[q].pc = "mark" /\ UNCHANGED rows
                    \/ runs[q].pc \in {"dispatch", "audit"} /\ runs'[q].pc = "mark"
                       /\ UNCHANGED rows /\ ~runs'[q].ok
<1>. DEFINE
       Past == \/ runs'[q] = runs[q]
               \/ runs'[q] = NoRun
               \/ runs'[q].pc = "persist"
               \/ /\ q \in Workers /\ todo[q] # <<>> /\ UNCHANGED rows
                  /\ runs'[q].pc = "dispatch" /\ runs'[q].event = Head(todo[q])
               \/ /\ runs'[q].event = runs[q].event /\ runs[q].event \in Events
                  /\ \/ runs[q].pc = "persist" /\ runs'[q].pc \in {"lookup", "dispatch"}
                        /\ rows'[runs[q].event].status # "none"
                     \/ runs[q].pc = "lookup" /\ runs'[q].pc = "dispatch" /\ UNCHANGED rows
                     \/ runs[q].pc = "dispatch" /\ runs'[q].pc \in {"audit", "mark"}
                        /\ UNCHANGED rows
                        /\ \A e \in Events : e = runs[q].event => Applied(e)'
                     \/ runs[q].pc = "audit" /\ runs'[q].pc = "mark" /\ UNCHANGED rows
                     \/ runs[q].pc \in {"dispatch", "audit"} /\ runs'[q].pc = "mark"
                        /\ UNCHANGED rows /\ ~runs'[q].ok
       Good == runs'[q] \in Run /\ (runs'[q].event = 0 <=> runs'[q] = NoRun) /\ Past
<1>0. /\ runs \in [Runs -> Run] /\ runs[q] \in Run
      /\ runs[q].event = 0 <=> runs[q] = NoRun
  BY RunShape DEF WebhooksTypeOK, Run
<1>1. UNCHANGED runs => Good
  BY <1>0
<1>2. ASSUME NEW p \in Runs, EndRun(p) PROVE Good
  BY <1>0, <1>2, NoRunShape, SetRun DEF EndRun
<1>3. ASSUME NEW p \in Handlers, NEW e \in Events, Deliver(p, e) PROVE Good
  <2>1. PICK r : r = [NoRun EXCEPT !.pc = "persist", !.event = e]
    OBVIOUS
  <2>2. r \in Run /\ r.event \in Events /\ r.pc = "persist" /\ p \in Runs
    BY <2>1 DEF NoRun, Run, Runs
  <2>3. runs' = [runs EXCEPT ![p] = r] \/ UNCHANGED runs
    BY <1>3, <2>1 DEF Deliver
  <2>4. QED
    BY <1>0, <1>1, <2>2, <2>3, SetRun
<1>4. ASSUME NEW p \in Runs, NEW pc \in {"dispatch", "lookup", "audit"}, ToStep(p, pc),
             runs[p].pc # "idle"
      PROVE  \E r \in Run : /\ runs' = [runs EXCEPT ![p] = r]
                            /\ r.event = runs[p].event /\ r.event \in Events /\ r.pc = pc
  <2>1. PICK r : r = [runs[p] EXCEPT !.pc = pc]
    OBVIOUS
  <2>2. r \in Run /\ r.event = runs[p].event /\ r.pc = pc /\ r.event \in Events
    BY <1>4, <2>1, RunShape DEF Run
  <2>3. runs' = [runs EXCEPT ![p] = r]
    BY <1>0, <1>4, <2>1 DEF ToStep
  <2>4. QED
    BY <2>2, <2>3
<1>5. ASSUME NEW p \in Runs, NEW ok \in BOOLEAN, Return(p, ok), runs[p].pc # "idle"
      PROVE  \E r \in Run : /\ runs' = [runs EXCEPT ![p] = r] /\ r.pc = "mark"
                            /\ r.event = runs[p].event /\ r.event \in Events /\ r.ok = ok
  <2>1. PICK r : r = [runs[p] EXCEPT !.pc = "mark", !.ok = ok]
    OBVIOUS
  <2>2. r \in Run /\ r.event = runs[p].event /\ r.pc = "mark" /\ r.event \in Events /\ r.ok = ok
    BY <1>5, <2>1, RunShape DEF Run
  <2>3. runs' = [runs EXCEPT ![p] = r]
    BY <1>0, <1>5, <2>1 DEF Return
  <2>4. QED
    BY <2>2, <2>3
<1>6. ASSUME NEW p \in Runs, Persist(p) PROVE Good
  <2>1. PICK pc \in {"dispatch", "lookup"} : ToStep(p, pc)
    BY <1>6 DEF Persist
  <2>2. runs[p].pc = "persist" /\ runs[p].event \in Events
    BY <1>6, RunShape DEF Persist
  <2>3. PICK r \in Run : /\ runs' = [runs EXCEPT ![p] = r]
                         /\ r.event = runs[p].event /\ r.event \in Events /\ r.pc = pc
    BY <1>4, <2>1, <2>2
  <2>4. rows'[runs[p].event].status # "none"
    BY <1>6, <2>2 DEF Persist, WebhooksTypeOK, EventRow
  <2>5. QED
    BY <1>0, <2>2, <2>3, <2>4, SetRun
<1>7. ASSUME NEW p \in Runs, Lookup(p) PROVE Good
  <2>1. CASE ToStep(p, "dispatch")
    <3>1. runs[p].pc = "lookup" /\ UNCHANGED rows
      BY <1>7 DEF Lookup
    <3>2. PICK r \in Run : /\ runs' = [runs EXCEPT ![p] = r]
                           /\ r.event = runs[p].event /\ r.event \in Events /\ r.pc = "dispatch"
      BY <1>4, <2>1, <3>1
    <3>3. QED
      BY <1>0, <3>1, <3>2, SetRun
  <2>2. QED
    BY <1>2, <1>7, <2>1 DEF Lookup
<1>8. ASSUME NEW p \in Runs, Dispatch(p) PROVE Good
  <2>1. PICK r \in Run : /\ runs' = [runs EXCEPT ![p] = r]
                         /\ r.event = runs[p].event /\ r.pc \in {"audit", "mark"}
    BY <1>8, DispatchEffect
  <2>2. /\ runs[p].pc = "dispatch" /\ runs[p].event \in Events /\ UNCHANGED rows
        /\ \A e \in Events : e = runs[p].event => Applied(e)'
    BY <1>8, DispatchEffect
  <2>3. CASE q = p
    BY <1>0, <2>1, <2>2, <2>3, SetRun
  <2>4. CASE q # p
    BY <1>0, <2>1, <2>2, <2>4, SetRun
  <2>5. QED
    BY <2>3, <2>4
<1>9. ASSUME NEW p \in Runs, Audit(p) \/ Throw(p) PROVE Good
  <2>1. PICK ok \in BOOLEAN : /\ Return(p, ok) /\ (runs[p].pc = "audit" \/ ~ok)
                              /\ runs[p].pc \in {"dispatch", "audit"} /\ UNCHANGED rows
    BY <1>9 DEF Audit, Throw
  <2>2. PICK r \in Run : /\ runs' = [runs EXCEPT ![p] = r] /\ r.pc = "mark"
                         /\ r.event = runs[p].event /\ r.event \in Events /\ r.ok = ok
    BY <1>5, <2>1
  <2>3. QED
    BY <1>0, <2>1, <2>2, SetRun
<1>10. ASSUME NEW w \in Workers, Take(w) PROVE Good
  <2>1. PICK e \in Events : e = Head(todo[w])
    <3>1. todo[w] \in Seq(Events) /\ todo[w] # <<>>
      BY <1>10 DEF Take, WebhooksTypeOK
    <3>2. QED
      BY <3>1
  <2>2. PICK r : r = [NoRun EXCEPT !.pc = "dispatch", !.event = e]
    OBVIOUS
  <2>3. r \in Run /\ r.event = e /\ r.pc = "dispatch" /\ w \in Runs
    BY <2>2 DEF NoRun, Run, Runs
  <2>4. runs' = [runs EXCEPT ![w] = r] /\ todo[w] # <<>> /\ UNCHANGED rows
    BY <1>10, <2>1, <2>2 DEF Take
  <2>5. QED
    BY <1>0, <2>1, <2>3, <2>4, SetRun
<1>11. Restart => Good
  BY NoRunShape DEF Restart
<1>12. ASSUME NEW h \in Handlers, Handle(h) PROVE Good
  BY <1>2, <1>6, <1>7, <1>8, <1>9, <1>12 DEF Handle, MarkDelivery, Runs
<1>13. ASSUME NEW w \in Workers, Work(w) PROVE Good
  BY <1>1, <1>2, <1>8, <1>9, <1>10, <1>13 DEF Work, Tick, MarkRetry, Runs
<1>14. QED
  BY <1>1, <1>3, <1>11, <1>12, <1>13 DEF WebhooksNext, Age, Disable, TestStore

\* How a row of the table can change in one step.
LEMMA RowMoves ==
    ASSUME WebhooksTypeOK, WebhooksNext, NEW e \in Events
    PROVE  \/ rows'[e] = rows[e]
           \/ rows[e].status = "none" /\ rows'[e].status = "received"
           \/ \E p \in Runs :
                /\ runs[p].pc = "mark" /\ runs[p].event = e
                /\ rows'[e].status = IF runs[p].ok THEN "processed" ELSE "failed"
<1>0. rows \in [Events -> EventRow]
  BY DEF WebhooksTypeOK
<1>1. ASSUME NEW h \in Runs, Persist(h), rows'[e] # rows[e]
      PROVE  rows[e].status = "none" /\ rows'[e].status = "received"
  BY <1>0, <1>1 DEF Persist, EventRow
<1>2. ASSUME NEW p \in Runs, MarkDelivery(p) \/ MarkRetry(p), rows'[e] # rows[e]
      PROVE  /\ runs[p].pc = "mark" /\ runs[p].event = e
             /\ rows'[e].status = IF runs[p].ok THEN "processed" ELSE "failed"
  BY <1>0, <1>2 DEF MarkDelivery, MarkRetry, Attempted
<1>3. ASSUME NEW p \in Runs, Dispatch(p) PROVE UNCHANGED rows
  BY <1>3 DEF Dispatch
<1>4. QED
  BY <1>1, <1>2, <1>3
     DEF WebhooksNext, Handle, Work, Deliver, Lookup, Audit, Throw, Tick, Take, Age,
         Disable, TestStore, Restart, Runs

LEMMA AnswerShape ==
    ASSUME WebhooksTypeOK, WebhooksNext
    PROVE  answer' \in [Events -> {"none", "ok", "store disabled"}]
<1>0. answer \in [Events -> {"none", "ok", "store disabled"}]
  BY DEF WebhooksTypeOK
<1>1. \/ UNCHANGED answer
      \/ \E e : answer' \in {[answer EXCEPT ![e] = "ok"],
                             [answer EXCEPT ![e] = "store disabled"]}
  BY DEF WebhooksNext, Handle, Work, Deliver, Persist, Lookup, Dispatch, Audit, Throw,
         MarkDelivery, MarkRetry, Tick, Take, Age, Disable, TestStore, Restart
<1>2. QED
  BY <1>0, <1>1

\* What a sender is answered.
LEMMA AnswerMoves ==
    ASSUME WebhooksTypeOK, WebhooksNext, NEW e \in Events
    PROVE  \/ answer'[e] # "ok"
           \/ answer'[e] = answer[e]
           \/ rows[e].status = "processed"
           \/ \E p \in Runs : runs[p].pc = "mark" /\ runs[p].ok /\ runs[p].event = e
<1>0. answer \in [Events -> {"none", "ok", "store disabled"}]
  BY DEF WebhooksTypeOK
<1>1. ASSUME NEW h \in Runs, NEW d \in Events, Deliver(h, d)
      PROVE  answer'[e] # "ok" \/ answer'[e] = answer[e]
  BY <1>0, <1>1 DEF Deliver
<1>2. ASSUME NEW h \in Runs, Lookup(h)
      PROVE  answer'[e] = answer[e] \/ rows[e].status = "processed"
  BY <1>0, <1>2 DEF Lookup
<1>3. ASSUME NEW h \in Runs, MarkDelivery(h)
      PROVE  \/ answer'[e] = answer[e]
             \/ runs[h].pc = "mark" /\ runs[h].ok /\ runs[h].event = e
  BY <1>0, <1>3 DEF MarkDelivery
<1>4. ASSUME NEW p \in Runs, Dispatch(p) PROVE UNCHANGED answer
  BY <1>4 DEF Dispatch
<1>5. QED
  BY <1>1, <1>2, <1>3, <1>4
     DEF WebhooksNext, Handle, Work, Persist, Audit, Throw, Tick, Take, MarkRetry, Age,
         Disable, TestStore, Restart, Runs

\* The table and its order of arrival grow together, by events that are new.
LEMMA ArrivedMoves ==
    ASSUME WebhooksTypeOK, WorksOnRows, WebhooksNext
    PROVE  /\ rows' \in [Events -> EventRow]
           /\ arrived' \in Seq(Events) /\ IsInjective(arrived')
           /\ \A e \in Events : rows'[e].status # "none" <=> e \in ToSet(arrived')
           /\ ToSet(arrived) \subseteq ToSet(arrived')
<1>. DEFINE Good == /\ rows' \in [Events -> EventRow]
                    /\ arrived' \in Seq(Events) /\ IsInjective(arrived')
                    /\ \A e \in Events : rows'[e].status # "none" <=> e \in ToSet(arrived')
                    /\ ToSet(arrived) \subseteq ToSet(arrived')
<1>0. /\ rows \in [Events -> EventRow] /\ arrived \in Seq(Events) /\ IsInjective(arrived)
      /\ \A e \in Events : rows[e].status # "none" <=> e \in ToSet(arrived)
  BY DEF WebhooksTypeOK
<1>. Len(arrived) \in Nat
  BY <1>0
<1>1. UNCHANGED <<rows, arrived>> => Good
  BY <1>0
<1>2. ASSUME NEW h \in Runs, Persist(h) PROVE Good
  <2>1. PICK e \in Events : e = runs[h].event
    BY <1>2, RunShape DEF Persist
  <2>2. CASE rows[e].status = "none"
    <3>1. /\ rows' = [rows EXCEPT ![e].status = "received"]
          /\ arrived' = Append(arrived, e)
      BY <1>2, <2>1, <2>2 DEF Persist
    <3>2. rows' \in [Events -> EventRow] /\ rows'[e].status = "received"
            /\ \A d \in Events : d # e => rows'[d] = rows[d]
      BY <1>0, <3>1 DEF EventRow
    <3>3. e \notin ToSet(arrived)
      BY <1>0, <2>2
    <3>4. /\ Len(arrived') = Len(arrived) + 1
          /\ \A i \in 1..Len(arrived) : arrived'[i] = arrived[i]
          /\ arrived'[Len(arrived) + 1] = e
          /\ arrived' \in Seq(Events)
      BY <1>0, <3>1
    <3>5. ToSet(arrived') = ToSet(arrived) \cup {e}
      <4>1. ToSet(arrived) = {arrived[i] : i \in 1..Len(arrived)}
        BY <1>0 DEF ToSet
      <4>2. ToSet(arrived') = {arrived'[i] : i \in 1..(Len(arrived) + 1)}
        BY <1>0, <3>4, SMTT(20) DEF ToSet
      <4>3. \A i \in 1..(Len(arrived) + 1) : i \in 1..Len(arrived) \/ i = Len(arrived) + 1
        BY <1>0
      <4>4. \A i \in 1..Len(arrived) : i \in 1..(Len(arrived) + 1)
        BY <1>0
      <4>5. Len(arrived) + 1 \in 1..(Len(arrived) + 1)
        BY <1>0
      <4>6. QED
        BY <3>4, <4>1, <4>2, <4>3, <4>4, <4>5
    <3>6. IsInjective(arrived')
      <4> SUFFICES ASSUME NEW i \in 1..(Len(arrived) + 1), NEW j \in 1..(Len(arrived) + 1),
                          arrived'[i] = arrived'[j]
                   PROVE  i = j
        BY <1>0, <3>4 DEF IsInjective
      <4>1. \A n \in 1..Len(arrived) : arrived[n] # e
        BY <1>0, <3>3 DEF ToSet
      <4>2. CASE i \in 1..Len(arrived) /\ j \in 1..Len(arrived)
        BY <1>0, <3>4, <4>2 DEF IsInjective
      <4>3. CASE i = Len(arrived) + 1 \/ j = Len(arrived) + 1
        BY <1>0, <3>4, <4>1, <4>3
      <4>4. \A n \in 1..(Len(arrived) + 1) : n \in 1..Len(arrived) \/ n = Len(arrived) + 1
        BY <1>0
      <4>5. QED
        BY <4>2, <4>3, <4>4
    <3>7. QED
      BY <1>0, <3>2, <3>4, <3>5, <3>6
  <2>3. CASE rows[e].status # "none"
    BY <1>1, <1>2, <2>1, <2>3 DEF Persist
  <2>4. QED
    BY <2>2, <2>3
<1>3. ASSUME NEW p \in Runs, MarkDelivery(p) \/ MarkRetry(p) PROVE Good
  <2>1. PICK e \in Events : e = runs[p].event
    BY <1>3, RunShape DEF MarkDelivery, MarkRetry
  <2>2. Seen(e) /\ runs[p].ok \in BOOLEAN
    BY <1>3, <2>1, RunShape DEF WorksOnRows, MarkDelivery, MarkRetry, Run
  <2>3. PICK r : r = Attempted(rows[e], runs[p].ok)
    OBVIOUS
  <2>4. r \in EventRow /\ r.status # "none"
    <3>1. rows[e].attempts \in 0..MaxAttempts
      BY <1>0 DEF EventRow
    <3>2. PICK n \in 0..MaxAttempts :
             n = IF rows[e].attempts < MaxAttempts THEN rows[e].attempts + 1 ELSE MaxAttempts
      BY <3>1, LimitsAssumption
    <3>3. r = [status |-> IF runs[p].ok THEN "processed" ELSE "failed", attempts |-> n]
      BY <2>3, <3>2 DEF Attempted
    <3>4. QED
      BY <3>2, <3>3 DEF EventRow
  <2>5. rows' = [rows EXCEPT ![e] = r] /\ UNCHANGED arrived
    BY <1>0, <1>3, <2>1, <2>3 DEF MarkDelivery, MarkRetry
  <2>6. QED
    BY <1>0, <2>2, <2>4, <2>5 DEF Seen
<1>4. ASSUME NEW p \in Runs, Dispatch(p) PROVE Good
  BY <1>1, <1>4 DEF Dispatch
<1>5. \/ \E p \in Runs : Persist(p) \/ MarkDelivery(p) \/ MarkRetry(p) \/ Dispatch(p)
      \/ UNCHANGED <<rows, arrived>>
  BY DEF WebhooksNext, Handle, Work, Deliver, Lookup, Audit, Throw, Tick, Take, Age,
         Disable, TestStore, Restart, Runs
<1>. HIDE DEF Good
<1>6. Good
  BY <1>1, <1>2, <1>3, <1>4, <1>5
<1>7. QED
  BY <1>6 DEF Good

\* A row is not forgotten.
LEMMA SeenStays ==
    ASSUME WebhooksTypeOK, WorksOnRows, WebhooksNext, NEW e \in Events, Seen(e)
    PROVE  Seen(e)'
<1>1. e \in ToSet(arrived)
  BY DEF WebhooksTypeOK, Seen
<1>2. e \in ToSet(arrived')
  BY <1>1, ArrivedMoves
<1>3. QED
  BY <1>2, ArrivedMoves DEF Seen

\* What a run of the worker lists has arrived.
LEMMA TodoMoves ==
    ASSUME WebhooksTypeOK, WorksOnRows, WebhooksNext
    PROVE  /\ todo' \in [Workers -> Seq(Events)]
           /\ \A w \in Workers : \A i \in 1..Len(todo'[w]) : Seen(todo'[w][i])
<1>. DEFINE Good == /\ todo' \in [Workers -> Seq(Events)]
                    /\ \A w \in Workers : \A i \in 1..Len(todo'[w]) : Seen(todo'[w][i])
<1>0. /\ todo \in [Workers -> Seq(Events)]
      /\ \A w \in Workers : \A i \in 1..Len(todo[w]) : Seen(todo[w][i])
  BY DEF WebhooksTypeOK, WorksOnRows
<1>1. UNCHANGED todo => Good
  BY <1>0
<1>2. ASSUME NEW w \in Workers, Tick(w) PROVE Good
  <2>0. PICK n \in 1..Batch : \E list \in [1..n -> StuckPlaces] :
           todo' = [todo EXCEPT ![w] = [j \in 1..n |-> arrived[list[j]]]]
    BY <1>2 DEF Tick
  <2>1. PICK list \in [1..n -> StuckPlaces] :
           todo' = [todo EXCEPT ![w] = [j \in 1..n |-> arrived[list[j]]]]
    BY <2>0
  <2>2. PICK stuck : stuck = [j \in 1..n |-> arrived[list[j]]]
    OBVIOUS
  <2>3. n \in Nat
    BY LimitsAssumption
  <2>4. \A i \in StuckPlaces : arrived[i] \in Events /\ Seen(arrived[i])
    <3>1. arrived \in Seq(Events)
      BY DEF WebhooksTypeOK
    <3>2. \A i \in StuckPlaces : i \in DOMAIN arrived
      BY DEF StuckPlaces
    <3>3. \A i \in DOMAIN arrived : arrived[i] \in Events /\ arrived[i] \in ToSet(arrived)
      BY <3>1 DEF ToSet
    <3>4. QED
      BY <3>2, <3>3 DEF WebhooksTypeOK, Seen
  <2>5. \A j \in 1..n : stuck[j] \in Events /\ Seen(stuck[j])
    BY <2>2, <2>4
  <2>6. stuck \in [1..n -> Events]
    BY <2>2, <2>5
  <2>7. stuck \in Seq(Events) /\ Len(stuck) = n
    BY <2>3, <2>6
  <2>8. todo' = [todo EXCEPT ![w] = stuck]
    BY <2>1, <2>2
  <2>9. todo' \in [Workers -> Seq(Events)]
    BY <1>0, <2>7, <2>8
  <2>10. ASSUME NEW v \in Workers, NEW i \in 1..Len(todo'[v]) PROVE Seen(todo'[v][i])
    <3>1. CASE v = w
      BY <1>0, <2>5, <2>7, <2>8, <2>10, <3>1
    <3>2. CASE v # w
      BY <1>0, <2>8, <2>10, <3>2
    <3>3. QED
      BY <3>1, <3>2
  <2>11. QED
    BY <2>9, <2>10
<1>3. ASSUME NEW w \in Workers, Take(w) PROVE Good
  <2>1. PICK s : s = todo[w]
    OBVIOUS
  <2>2. s \in Seq(Events) /\ s # <<>> /\ \A i \in 1..Len(s) : Seen(s[i])
    BY <1>0, <1>3, <2>1 DEF Take
  <2>3. PICK t : t = Tail(s)
    OBVIOUS
  <2>4. /\ t \in Seq(Events) /\ Len(t) = Len(s) - 1
        /\ \A i \in 1..Len(t) : t[i] = s[i + 1]
    BY <2>2, <2>3
  <2>5. \A i \in 1..Len(t) : Seen(t[i])
    <3>1. \A i \in 1..Len(t) : i + 1 \in 1..Len(s)
      BY <2>2, <2>4
    <3>2. QED
      BY <2>2, <2>4, <3>1
  <2>6. todo' = [todo EXCEPT ![w] = t]
    BY <1>0, <1>3, <2>1, <2>3 DEF Take
  <2>7. ASSUME NEW v \in Workers, NEW i \in 1..Len(todo'[v]) PROVE Seen(todo'[v][i])
    <3>1. CASE v = w
      BY <1>0, <2>5, <2>6, <2>7, <3>1
    <3>2. CASE v # w
      BY <1>0, <2>6, <2>7, <3>2
    <3>3. QED
      BY <3>1, <3>2
  <2>8. QED
    BY <1>0, <2>4, <2>6, <2>7
<1>4. Restart => Good
  BY DEF Restart
<1>5. ASSUME NEW p \in Runs, Dispatch(p) PROVE Good
  BY <1>1, <1>5 DEF Dispatch
<1>6. \/ UNCHANGED todo \/ Restart
      \/ \E w \in Workers : Tick(w) \/ Take(w)
      \/ \E p \in Runs : Dispatch(p)
  BY DEF WebhooksNext, Handle, Work, Deliver, Persist, Lookup, Audit, Throw, MarkDelivery,
         MarkRetry, Age, Disable, TestStore, Runs
<1>. HIDE DEF Good
<1>7. Good
  BY <1>1, <1>2, <1>3, <1>4, <1>5, <1>6
<1>8. QED
  BY <1>7 DEF Good

\* What the other variables may become.
LEMMA RestMoves ==
    ASSUME WebhooksTypeOK, WebhooksNext
    PROVE  /\ ledger' \in Seq(Entry(EventKeys))
           /\ UniqueKeys => UniqueKeys'
           /\ sub' = sub \/ Kind[sub'] = "subscription"
           /\ imported' \subseteq {e \in Events : Kind[e] = "order"}
           /\ conn' \in {"active", "disabled"}
           /\ aged' \subseteq aged \cup ToSet(arrived)
           /\ DOMAIN runs' = Runs /\ runs' = [p \in Runs |-> runs'[p]]
<1>. DEFINE Good == /\ ledger' \in Seq(Entry(EventKeys))
                    /\ UniqueKeys => UniqueKeys'
                    /\ sub' = sub \/ Kind[sub'] = "subscription"
                    /\ imported' \subseteq {e \in Events : Kind[e] = "order"}
            Typed == /\ conn' \in {"active", "disabled"}
                     /\ aged' \subseteq aged \cup ToSet(arrived)
                     /\ DOMAIN runs' = Runs /\ runs' = [p \in Runs |-> runs'[p]]
<1>0. /\ ledger \in Seq(Entry(EventKeys))
      /\ imported \subseteq {e \in Events : Kind[e] = "order"}
      /\ conn \in {"active", "disabled"}
      /\ DOMAIN runs = Runs /\ runs = [p \in Runs |-> runs[p]]
  BY DEF WebhooksTypeOK, EventKeys
<1>1. UNCHANGED <<ledger, sub, imported>> => Good
  BY <1>0 DEF UniqueKeys
<1>2. ASSUME NEW p \in Runs, Dispatch(p) PROVE Good
  BY <1>2, DispatchEffect
<1>3. (\E p \in Runs : Dispatch(p)) \/ UNCHANGED <<ledger, sub, imported>>
  BY DEF WebhooksNext, Handle, Work, Deliver, Persist, Lookup, Audit, Throw, MarkDelivery,
         MarkRetry, Tick, Take, Age, Disable, TestStore, Restart, Runs, tables
<1>4. Typed
  <2>1. ASSUME NEW p \in Runs, Dispatch(p) PROVE Typed
    <3>1. UNCHANGED <<conn, aged>> /\ \E r : runs' = [runs EXCEPT ![p] = r]
      BY <2>1, DispatchEffect DEF Dispatch
    <3>2. QED
      BY <1>0, <3>1
  <2>2. UNCHANGED <<conn, aged, runs>> => Typed
    BY <1>0
  <2>3. ASSUME NEW h \in Runs, NEW e \in Events, Deliver(h, e) PROVE Typed
    BY <1>0, <2>3 DEF Deliver, tables
  <2>4. ASSUME NEW h \in Runs, Persist(h) \/ Lookup(h) PROVE Typed
    BY <1>0, <2>4 DEF Persist, Lookup, ToStep, EndRun, tables
  <2>5. ASSUME NEW p \in Runs, Audit(p) \/ Throw(p) \/ MarkDelivery(p) \/ MarkRetry(p)
        PROVE  Typed
    BY <1>0, <2>5 DEF Audit, Throw, MarkDelivery, MarkRetry, Return, EndRun, tables
  <2>6. ASSUME NEW w \in Workers, Take(w) PROVE Typed
    BY <1>0, <2>6 DEF Take, tables, Runs
  <2>7. Disable \/ TestStore \/ Restart \/ (\E e \in Events : Age(e)) => Typed
    BY <1>0 DEF Disable, TestStore, Restart, Age, tables
  <2>. HIDE DEF Typed
  <2>8. ASSUME NEW h \in Handlers, Handle(h) PROVE Typed
    BY <2>1, <2>4, <2>5, <2>8 DEF Handle, Runs
  <2>9. ASSUME NEW w \in Workers, Work(w) PROVE Typed
    BY <2>1, <2>2, <2>5, <2>6, <2>9 DEF Work, Tick, tables, Runs
  <2>10. QED
    BY <2>3, <2>7, <2>8, <2>9 DEF WebhooksNext, Runs
<1>5. Good
  BY <1>1, <1>2, <1>3
<1>6. QED
  BY <1>4, <1>5

-----------------------------------------------------------------------------

LEMMA WebhooksTypeStep ==
    ASSUME WebhooksTypeOK, WorksOnRows, WebhooksNext
    PROVE  WebhooksTypeOK'
<1>1. runs' \in [Runs -> Run] /\ \A p \in Runs : runs'[p].event = 0 <=> runs'[p] = NoRun
  <2>1. \A p \in Runs : runs'[p] \in Run /\ (runs'[p].event = 0 <=> runs'[p] = NoRun)
    BY RunMoves
  <2>2. QED
    BY <2>1, RestMoves
<1>2. answer' \in [Events -> {"none", "ok", "store disabled"}]
  BY AnswerShape
<1>3. aged' \subseteq ToSet(arrived')
  <2>1. aged \subseteq ToSet(arrived)
    BY DEF WebhooksTypeOK
  <2>2. QED
    BY <2>1, ArrivedMoves, RestMoves
<1>4. sub' = 0 \/ Kind[sub'] = "subscription"
  BY RestMoves DEF WebhooksTypeOK
<1>5. QED
  BY <1>1, <1>2, <1>3, <1>4, ArrivedMoves, TodoMoves, RestMoves
     DEF WebhooksTypeOK, Run, EventKeys

LEMMA WorksOnRowsStep ==
    ASSUME WebhooksTypeOK, WorksOnRows, WebhooksNext
    PROVE  WorksOnRows'
<1>1. ASSUME NEW q \in Runs, runs'[q].pc \in {"lookup", "dispatch", "audit", "mark"}
      PROVE  rows'[runs'[q].event].status # "none"
  <2>. PICK e : e = runs'[q].event
    OBVIOUS
  <2> SUFFICES rows'[e].status # "none"
    OBVIOUS
  <2>1. CASE runs'[q] = runs[q]
    <3>1. e \in Events /\ Seen(e)
      BY <1>1, <2>1, RunShape DEF WorksOnRows
    <3>2. QED
      BY <3>1, SeenStays DEF Seen
  <2>2. CASE runs'[q] = NoRun
    BY <1>1, <2>2, NoRunShape
  <2>3. CASE q \in Workers /\ todo[q] # <<>> /\ UNCHANGED rows /\ e = Head(todo[q])
    <3>1. PICK s \in Seq(Events) : s = todo[q]
      BY <2>3 DEF WebhooksTypeOK
    <3>2. s # <<>> /\ e = s[1] /\ 1 \in 1..Len(s)
      BY <2>3, <3>1
    <3>3. Seen(e)
      BY <2>3, <3>1, <3>2 DEF WorksOnRows
    <3>4. QED
      BY <2>3, <3>3 DEF Seen
  <2>4. CASE /\ e = runs[q].event /\ runs[q].event \in Events
             /\ rows'[runs[q].event].status # "none"
    BY <2>4
  <2>5. CASE /\ e = runs[q].event /\ runs[q].event \in Events
             /\ runs[q].pc \in {"lookup", "dispatch", "audit"} /\ UNCHANGED rows
    BY <2>5 DEF WorksOnRows, Seen
  <2>6. QED
    BY <1>1, <2>1, <2>2, <2>3, <2>4, <2>5, RunMoves
<1>2. ASSUME NEW w \in Workers, NEW i \in 1..Len(todo'[w])
      PROVE  rows'[todo'[w][i]].status # "none"
  <2>1. PICK s \in Seq(Events) : s = todo'[w]
    BY TodoMoves
  <2>2. PICK e \in Events : e = s[i]
    BY <2>1
  <2>3. Seen(e)
    BY <2>1, <2>2, TodoMoves
  <2>4. QED
    BY <2>1, <2>2, <2>3, SeenStays DEF Seen
<1>3. QED
  BY <1>1, <1>2 DEF WorksOnRows, Seen

LEMMA AppliedAtEndStep ==
    ASSUME WebhooksTypeOK, AppliedAtEnd, WebhooksNext
    PROVE  AppliedAtEnd'
<1> SUFFICES ASSUME NEW q \in Runs,
                    runs'[q].pc = "audit" \/ (runs'[q].pc = "mark" /\ runs'[q].ok),
                    NEW e, e = runs'[q].event
             PROVE  Applied(e)'
  BY DEF AppliedAtEnd, Applied
<1>1. CASE runs'[q] = runs[q]
  <2>1. e \in Events /\ Applied(e)
    BY <1>1, RunShape DEF AppliedAtEnd
  <2>2. QED
    BY <2>1, AppliedStays
<1>2. CASE runs'[q] = NoRun
  BY <1>2, NoRunShape
<1>3. CASE /\ runs'[q].event = runs[q].event /\ runs[q].event \in Events
           /\ \A d \in Events : d = runs[q].event => Applied(d)'
  BY <1>3
<1>4. CASE /\ runs'[q].event = runs[q].event /\ runs[q].event \in Events
           /\ runs[q].pc = "audit"
  <2>1. e \in Events /\ Applied(e)
    BY <1>4 DEF AppliedAtEnd
  <2>2. QED
    BY <2>1, AppliedStays
<1>5. QED
  BY <1>1, <1>2, <1>3, <1>4, RunMoves

LEMMA NothingLostStep ==
    ASSUME WebhooksTypeOK, AppliedAtEnd, NothingLost, WebhooksNext
    PROVE  NothingLost'
<1> SUFFICES ASSUME NEW e \in Events, rows'[e].status = "processed" \/ answer'[e] = "ok"
             PROVE  Applied(e)'
  BY DEF NothingLost
<1>1. Applied(e)
  <2>1. \A p \in Runs : runs[p].pc = "mark" /\ runs[p].ok /\ runs[p].event = e => Applied(e)
    BY DEF AppliedAtEnd
  <2>2. CASE rows'[e].status = "processed"
    BY <2>1, <2>2, RowMoves DEF NothingLost
  <2>3. CASE answer'[e] = "ok"
    BY <2>1, <2>3, AnswerMoves DEF NothingLost
  <2>4. QED
    BY <2>2, <2>3
<1>2. QED
  BY <1>1, AppliedStays

LEMMA WebhooksInvInit == WebhooksInit => WebhooksInv
<1> SUFFICES ASSUME WebhooksInit PROVE WebhooksInv
  OBVIOUS
<1>1. WebhooksTypeOK
  <2>1. rows \in [Events -> EventRow] /\ runs \in [Runs -> Run]
    BY NoRunShape, LimitsAssumption DEF WebhooksInit, EventRow
  <2>2. arrived \in Seq(Events) /\ ToSet(arrived) = {} /\ IsInjective(arrived)
    BY DEF WebhooksInit, ToSet, IsInjective
  <2>3. QED
    BY <2>1, <2>2, NoRunShape DEF WebhooksInit, WebhooksTypeOK, Run
<1>2. WorksOnRows /\ AppliedAtEnd
  BY NoRunShape DEF WebhooksInit, WorksOnRows, AppliedAtEnd
<1>3. UniqueKeys /\ NothingLost
  BY DEF WebhooksInit, UniqueKeys, NothingLost
<1>4. QED
  BY <1>1, <1>2, <1>3 DEF WebhooksInv

LEMMA WebhooksInvStep ==
    ASSUME WebhooksInv, WebhooksNext
    PROVE  WebhooksInv'
BY WebhooksTypeStep, WorksOnRowsStep, RestMoves, AppliedAtEndStep, NothingLostStep
   DEF WebhooksInv

LEMMA UniqueKeysDepositOnce ==
    ASSUME NEW S, ledger \in Seq(S), UniqueKeys
    PROVE  DepositOnce
BY OneRow, KeysAssumption DEF DepositOnce

LEMMA WebhooksInvHolds == WebhooksSpec => []WebhooksInv
<1>1. WebhooksInit => WebhooksInv
  BY WebhooksInvInit
<1>2. WebhooksInv /\ [WebhooksNext]_webhookVars => WebhooksInv'
  <2>1. ASSUME WebhooksInv, UNCHANGED webhookVars PROVE WebhooksInv'
    BY <2>1
       DEF webhookVars, tables, WebhooksInv, WebhooksTypeOK, WorksOnRows, Seen, UniqueKeys,
           AppliedAtEnd, Applied, Booked, NothingLost
  <2>2. QED
    BY <2>1, WebhooksInvStep
<1>3. QED
  BY <1>1, <1>2, PTL DEF WebhooksSpec

\* The tables, the handlers and the runs of the worker keep their types, and
\* no event arrives twice (the unique key of webhook_event).
THEOREM WebhooksTyped == WebhooksSpec => []WebhooksTypeOK
<1>1. WebhooksInv => WebhooksTypeOK
  BY DEF WebhooksInv
<1>2. QED
  BY <1>1, WebhooksInvHolds, PTL

\* A top-up is booked once, however often its event is delivered or
\* dispatched again (webhook.ts appends it under the event's id).
THEOREM DepositedOnce == WebhooksSpec => []DepositOnce
<1>1. WebhooksInv => DepositOnce
  BY UniqueKeysDepositOnce DEF WebhooksInv, WebhooksTypeOK
<1>2. QED
  BY <1>1, WebhooksInvHolds, PTL

\* An event that is marked as processed, or whose sender was told to stop,
\* has been applied, whatever failed and whenever the server restarted
\* (webhook.ts and woo-webhook.ts mark and answer after the dispatch).
THEOREM NoEventLost == WebhooksSpec => []NothingLost
<1>1. WebhooksInv => NothingLost
  BY DEF WebhooksInv
<1>2. QED
  BY <1>1, WebhooksInvHolds, PTL

-----------------------------------------------------------------------------

(* The membership. *)

Writer ==
    [pc: {"idle", "read", "write", "notify"},
     via: {"none", "event", "grant", "lapse", "dunning"},
     update: Update, seen: Statuses \cup {"absent"}, overdue: BOOLEAN]

\* The inductive invariant of the membership.
SubscriptionInv == SubscriptionTypeOK /\ MirrorAgrees /\ RecoveryClears

LEMMA NotWritingShape == NotWriting \in Writer /\ NoRow \in StateRow /\ NoUpdate \in Update
BY DEF NotWriting, Writer, NoRow, StateRow, NoUpdate, Update, Statuses, Plans

\* What a writer is asked to write keeps its type.
LEMMA UpsertShape ==
    ASSUME SubscriptionTypeOK, NEW p \in Writers, NEW update \in Update,
           NEW via \in {"none", "event", "grant", "lapse", "dunning"},
           Upsert(p, via, update)
    PROVE  writers' \in [Writers -> Writer]
<1>1. PICK w : w = [NotWriting EXCEPT !.pc = "read", !.via = via, !.update = update]
  OBVIOUS
<1>2. w \in Writer
  BY <1>1 DEF NotWriting, Writer, Statuses
<1>3. writers \in [Writers -> Writer] /\ writers' = [writers EXCEPT ![p] = w]
  BY <1>1 DEF Upsert, SubscriptionTypeOK, Writer
<1>4. QED
  BY <1>2, <1>3

LEMMA FinishShape ==
    ASSUME SubscriptionTypeOK, NEW p \in Writers, Finish(p)
    PROVE  writers' \in [Writers -> Writer]
BY NotWritingShape DEF Finish, SubscriptionTypeOK, Writer

\* The row of an upsert: it is of the type, its status and its plan are the
\* update's, and an active one has no dunning date.
LEMMA UpsertedShape ==
    ASSUME SubscriptionTypeOK, NEW u \in Update, NEW seen
    PROVE  /\ Upserted(u, seen) \in StateRow
           /\ Upserted(u, seen).status = u.status
           /\ u.status = "active" => Upserted(u, seen).pastDueSince = Never
<1>. PICK d : d = Dunning(u.status, seen)
  OBVIOUS
<1>0. row \in StateRow /\ today \in Days
  BY DEF SubscriptionTypeOK
<1>1. /\ d.pastDueSince \in Days \cup {Never} /\ d.notified \in BOOLEAN
      /\ u.status = "active" => d.pastDueSince = Never
  <2>1. CASE u.status = "past_due" /\ seen # "past_due"
    BY <1>0, <2>1 DEF Dunning
  <2>2. CASE u.status = "active"
    BY <1>0, <2>2 DEF Dunning
  <2>3. CASE ~(u.status = "past_due" /\ seen # "past_due") /\ u.status # "active"
    BY <1>0, <2>3 DEF Dunning, StateRow
  <2>4. QED
    BY <2>1, <2>2, <2>3
<1>2. PICK plan \in Plans : plan = IF u.plan = Keep THEN row.plan ELSE u.plan
  BY <1>0 DEF Update, StateRow
<1>3. PICK end \in Days \cup {Never} : end = IF u.end = Keep THEN row.end ELSE u.end
  BY <1>0 DEF Update, StateRow
<1>4. Upserted(u, seen) = [status |-> u.status, plan |-> plan, end |-> end,
                           pastDueSince |-> d.pastDueSince, notified |-> d.notified]
  BY <1>2, <1>3 DEF Upserted
<1>5. QED
  BY <1>1, <1>2, <1>3, <1>4 DEF Update, StateRow

LEMMA SubscriptionStep ==
    ASSUME SubscriptionInv, SubscriptionNext
    PROVE  SubscriptionInv'
<1>0. /\ today \in Days /\ row \in StateRow /\ mirror \in {"pro", "none"}
      /\ writers \in [Writers -> Writer] /\ SubscriptionTypeOK
  BY DEF SubscriptionInv, SubscriptionTypeOK, Writer
<1>1. ASSUME UNCHANGED <<today, row, mirror>>, writers' \in [Writers -> Writer]
      PROVE  SubscriptionInv'
  BY <1>0, <1>1 DEF SubscriptionInv, SubscriptionTypeOK, MirrorAgrees, RecoveryClears, Writer
<1>2. ASSUME NEW p \in Writers, NEW status \in Statuses, NEW plan \in Plans \cup {Keep},
             NEW end \in Ends \cup {Never, Keep}, Event(p, status, plan, end)
      PROVE  SubscriptionInv'
  <2>1. [status |-> status, plan |-> plan, end |-> end] \in Update
    BY DaysAssumption DEF Update, Ends, Days
  <2>2. QED
    BY <1>0, <1>1, <1>2, <2>1, UpsertShape DEF Event
<1>3. ASSUME NEW p \in Writers, NEW plan \in Plans, NEW end \in Ends \cup {Never},
             Grant(p, plan, end)
      PROVE  SubscriptionInv'
  <2>1. [status |-> "active", plan |-> plan, end |-> end] \in Update
    BY DaysAssumption DEF Update, Ends, Days, Statuses
  <2>2. QED
    BY <1>0, <1>1, <1>3, <2>1, UpsertShape DEF Grant
<1>4. ASSUME NEW p \in Writers, UpsertRead(p) PROVE SubscriptionInv'
  <2>1. CASE Finish(p)
    BY <1>0, <1>1, <1>4, <2>1, FinishShape DEF UpsertRead
  <2>2. CASE writers' = [writers EXCEPT ![p].pc = "write", ![p].seen = row.status]
    <3>1. PICK w : w = [writers[p] EXCEPT !.pc = "write", !.seen = row.status]
      OBVIOUS
    <3>2. row.status \in Statuses \cup {"absent"} /\ writers[p] \in Writer
      BY <1>0 DEF StateRow
    <3>3. w \in Writer
      BY <3>1, <3>2 DEF Writer
    <3>4. writers' = [writers EXCEPT ![p] = w]
      BY <1>0, <2>2, <3>1
    <3>5. QED
      BY <1>0, <1>1, <1>4, <3>3, <3>4 DEF UpsertRead
  <2>3. QED
    BY <1>4, <2>1, <2>2 DEF UpsertRead
<1>5. ASSUME NEW p \in Writers, UpsertWrite(p) PROVE SubscriptionInv'
  <2>1. PICK u, seen : u = writers[p].update /\ u \in Update /\ seen = writers[p].seen
    BY <1>0 DEF Writer
  <2>2. row' = Upserted(u, seen)
    BY <1>5, <2>1 DEF UpsertWrite
  <2>3. row' \in StateRow /\ (row'.status = "active" => row'.pastDueSince = Never)
    BY <1>0, <2>1, <2>2, UpsertedShape
  <2>4. /\ mirror' = IF row'.status = "active" /\ row'.plan # "starter" THEN "pro" ELSE "none"
        /\ UNCHANGED today
    BY <1>5 DEF UpsertWrite
  <2>5. writers' \in [Writers -> Writer]
    BY <1>0, <1>5, FinishShape DEF UpsertWrite
  <2>6. QED
    BY <1>0, <2>3, <2>4, <2>5
       DEF SubscriptionInv, SubscriptionTypeOK, MirrorAgrees, RecoveryClears, Writer
<1>6. ASSUME NEW p \in Writers, Notify(p) PROVE SubscriptionInv'
  <2>1. PICK u \in Update : u = writers[p].update
    BY <1>0 DEF Writer
  <2>2. writers' \in [Writers -> Writer]
    BY <1>0, <1>6, <2>1, FinishShape, UpsertShape DEF Notify
  <2>3. row' \in StateRow /\ row'.status = row.status /\ row'.plan = row.plan
          /\ row'.pastDueSince = row.pastDueSince
    BY <1>0, <1>6 DEF Notify, StateRow
  <2>4. UNCHANGED <<today, mirror>>
    BY <1>6 DEF Notify
  <2>5. QED
    BY <1>0, <2>2, <2>3, <2>4
       DEF SubscriptionInv, SubscriptionTypeOK, MirrorAgrees, RecoveryClears, Writer
<1>7. [status |-> "expired", plan |-> row.plan, end |-> Keep] \in Update
  BY <1>0 DEF Update, StateRow, Statuses
<1>8. ASSUME NEW p \in Writers, LapseList(p) PROVE SubscriptionInv'
  BY <1>0, <1>1, <1>7, <1>8, UpsertShape DEF LapseList
<1>9. ASSUME NEW p \in Writers, DunningList(p) PROVE SubscriptionInv'
  <2>1. PICK u \in Update, overdue \in BOOLEAN :
           /\ u = [status |-> "expired", plan |-> row.plan, end |-> Keep]
           /\ overdue = Overdue(row.pastDueSince)
    BY <1>7 DEF Overdue
  <2>2. PICK w : w = [NotWriting EXCEPT !.pc = "notify", !.via = "dunning",
                                        !.update = u, !.overdue = overdue]
    OBVIOUS
  <2>3. w \in Writer
    BY <2>2 DEF NotWriting, Writer, Statuses
  <2>4. Upsert(p, "dunning", u) \/ writers' = [writers EXCEPT ![p] = w]
    BY <1>9, <2>1, <2>2 DEF DunningList
  <2>5. writers' \in [Writers -> Writer]
    BY <1>0, <2>3, <2>4, UpsertShape
  <2>6. QED
    BY <1>1, <1>9, <2>5 DEF DunningList
<1>10. ASSUME NEW p \in Writers, LoseWrite(p) PROVE SubscriptionInv'
  BY <1>0, <1>1, <1>10, FinishShape DEF LoseWrite
<1>11. ASSUME NextDay PROVE SubscriptionInv'
  <2>1. today' \in Days
    BY <1>0, <1>11, DaysAssumption DEF NextDay, Days
  <2>2. UNCHANGED <<row, mirror, writers>>
    BY <1>11 DEF NextDay
  <2>3. QED
    BY <1>0, <2>1, <2>2
       DEF SubscriptionInv, SubscriptionTypeOK, MirrorAgrees, RecoveryClears, Writer
<1>12. QED
  BY <1>2, <1>3, <1>4, <1>5, <1>6, <1>8, <1>9, <1>10, <1>11 DEF SubscriptionNext, Continue

-----------------------------------------------------------------------------

(* What shipping costs. *)

Offers == AllOffers \cup {Estimate}
Option == [carrier: Int, cents: Int]
Batches == UNION {[D -> [carrier: Int, fee: Int]] : D \in (SUBSET Services) \ {{}}}

\* A finite set of numbers has a greatest one.
LEMMA MaxIsIn ==
    ASSUME NEW S, \A x \in S : x \in Int, IsFiniteSet(S), S # {}
    PROVE  Max(S) \in S
<1> DEFINE Top(V) == \E x \in V : \A y \in V : x >= y
           Without == {V \in SUBSET S : V # {} /\ ~Top(V)}
<1>1. ASSUME Without # {} PROVE FALSE
  <2>1. PICK V \in Without : \A U \in SUBSET V : U \in Without => U = V
    <3>1. Without \subseteq SUBSET S
      OBVIOUS
    <3>2. PICK B : B = Without
      OBVIOUS
    <3>3. \E V \in B : \A U \in SUBSET V : U \in B => U = V
      <4>1. B \subseteq SUBSET S /\ B # {}
        BY <1>1, <3>1, <3>2
      <4>2. QED
        BY <4>1, LeastSet
    <3>4. QED
      BY <3>2, <3>3
  <2>2. PICK x \in V : x \in Int
    OBVIOUS
  <2>3. CASE V \ {x} = {}
    <3>1. \A y \in V : y = x
      BY <2>3
    <3>2. QED
      BY <2>2, <3>1
  <2>4. CASE V \ {x} # {}
    <3>1. V \ {x} \in SUBSET V /\ V \ {x} # V
      BY <2>2
    <3>2. V \ {x} \notin Without /\ V \ {x} \subseteq S
      BY <2>1, <3>1
    <3>3. PICK z \in V \ {x} : \A y \in V \ {x} : z >= y
      BY <2>4, <3>2
    <3>4. z \in Int /\ z \in V
      OBVIOUS
    <3>5. CASE x >= z
      <4>1. \A y \in V : y \in Int /\ x >= y
        BY <2>2, <3>3, <3>4, <3>5
      <4>2. QED
        BY <2>2, <4>1
    <3>6. CASE z >= x
      BY <3>3, <3>4, <3>6
    <3>7. QED
      BY <2>2, <3>4, <3>5, <3>6
  <2>5. QED
    BY <2>3, <2>4
<1>2. Top(S)
  <2>1. S \notin Without
    BY <1>1
  <2>2. QED
    BY <2>1
<1>3. QED
  BY <1>2 DEF Max

LEMMA OptionsTyped ==
    ASSUME NEW raw \in Offers \cup {NoOffers}, NEW p \in Pricings, NEW o, o = Options(raw, p)
    PROVE  DOMAIN o \in (SUBSET Services) \ {{}} /\ \A s \in DOMAIN o : o[s] \in Option
<1>1. DOMAIN raw \subseteq Services /\ \A s \in DOMAIN raw : raw[s] \in Nat
  <2>1. CASE raw = NoOffers
    BY <2>1 DEF NoOffers
  <2>2. CASE raw \in Offers
    BY <2>2, QuotesAssumption DEF Offers, AllOffers, Services
  <2>3. QED
    BY <2>1, <2>2
<1>2. p.fee \in Nat /\ FlatCents \in Nat /\ Ground \in Services
  BY QuotesAssumption DEF Services
<1>3. Curated(raw, p) \subseteq DOMAIN raw
  BY DEF Curated
<1>4. QED
  BY <1>1, <1>2, <1>3 DEF Options, FlatOption, Option

LEMMA BatchTyped ==
    ASSUME NEW o, DOMAIN o \in (SUBSET Services) \ {{}}, \A s \in DOMAIN o : o[s] \in Option, NEW p,
           NEW b, b = QuoteRows(o, p)
    PROVE  b \in Batches /\ DOMAIN b = DOMAIN o /\ \A s \in DOMAIN o : b[s].carrier + b[s].fee = o[s].cents
<1>1. DOMAIN b = DOMAIN o /\ \A s \in DOMAIN o : b[s] = [carrier |-> o[s].carrier, fee |-> o[s].cents - o[s].carrier]
  BY DEF QuoteRows, QuoteRow
<1>2. \A s \in DOMAIN o : o[s].carrier \in Int /\ o[s].cents \in Int
  BY DEF Option
<1>3. b \in [DOMAIN o -> [carrier: Int, fee: Int]]
  BY <1>1, <1>2 DEF QuoteRows
<1>4. DOMAIN o \in (SUBSET Services) \ {{}} /\ b \in Batches
  BY <1>3 DEF Batches
<1>5. ASSUME NEW s \in DOMAIN o PROVE b[s].carrier + b[s].fee = o[s].cents
  BY <1>1, <1>2
<1>6. QED
  BY <1>1, <1>4, <1>5

\* A request in flight.
Fields(x) == x = [kind |-> x.kind, pc |-> x.pc, cart |-> x.cart, service |-> x.service, pricing |-> x.pricing,
                  raw |-> x.raw, seen |-> x.seen, alone |-> x.alone]
Asking(x) ==
    /\ Fields(x) /\ x.kind \in {"quote", "place", "checkout", "import"} /\ x.cart \in Carts /\ x.pricing \in Pricings
    /\ x.pc \in {"asked", "rated"} \/ (x.pc = "cleared" /\ x.kind = "checkout")
    /\ x.raw = NoOffers <=> x.pc = "asked"
    /\ x.raw # NoOffers => x.raw \in Tariffs[RatedAs(x.cart)] \cup {Estimate}

RatesInv ==
    /\ tariff = [k \in DOMAIN Tariffs |-> tariff[k]] /\ cache = [k \in DOMAIN Tariffs |-> cache[k]]
    /\ \A k \in DOMAIN Tariffs :
           /\ tariff[k] \in Tariffs[k]
           /\ cache[k] = Blank \/ cache[k] \in (Tariffs[k] \cup {Estimate}) \ {NoOffers}
    /\ pricing \in Pricings

RequestsInv ==
    /\ request = [r \in Requests |-> request[r]]
    /\ \A r \in Requests : request[r] = NoRequest \/ Asking(request[r])

\* The quote that the drawer waits for is one of what its form holds.
DrawerInv ==
    /\ drawer = [open |-> drawer.open, cart |-> drawer.cart, service |-> drawer.service, quote |-> drawer.quote,
                 quoting |-> drawer.quoting, waits |-> drawer.waits, sent |-> drawer.sent,
                 exported |-> drawer.exported, confirm |-> drawer.confirm]
    /\ drawer.open \in BOOLEAN /\ drawer.cart \in Carts \cup {Blank}
    /\ drawer.waits \in Requests => /\ drawer.quoting /\ request[drawer.waits].kind = "quote"
                                    /\ request[drawer.waits].cart = drawer.cart
    /\ drawer.sent \in Requests => request[drawer.sent].kind = "place"
    /\ ~drawer.open => drawer = NoDrawer
    /\ DrawerIsCurrent

\* What is kept of a cart, and was offered to its last checkout, is the same; a checkout that
\* no other crosses has cleared what was kept before.
Hashes == {Hash(c) : c \in Carts}
KeptFor(c) == kept[Hash(c)]
SameAs(b, o) == DOMAIN b = DOMAIN o /\ \A s \in DOMAIN o : b[s].carrier + b[s].fee = o[s].cents
Fresh(r, c) ==
    /\ offered[c] = Blank
    /\ request[r].alone => Checkouts(c) = {r}
    /\ request[r].alone /\ request[r].pc = "cleared" => KeptFor(c) = <<>>
OfferInv ==
    /\ kept \in [Hashes -> Seq(Batches)] /\ offered = [c \in Carts |-> offered[c]]
    /\ \A c \in Carts : offered[c] # Blank => \A i \in DOMAIN KeptFor(c) : SameAs(KeptFor(c)[i], offered[c])
    /\ \A c \in Carts : \A r \in Checkouts(c) : Fresh(r, c)

QuotesInv == RatesInv /\ RequestsInv /\ DrawerInv /\ OfferInv /\ ChargedAsQuoted

LEMMA CartShape ==
    ASSUME NEW c \in Carts
    PROVE  RatedAs(c) \in DOMAIN Tariffs /\ Hash(c) \in Hashes /\ \A d \in Carts : Hash(c) = Hash(d) => c = d
<1>1. RatedAs(c) \in DOMAIN Tariffs /\ Hash(c) \in Hashes
  BY QuotesAssumption DEF RatedAs, Hashes
<1>2. ASSUME NEW d \in Carts, Hash(c) = Hash(d) PROVE c = d
  <2>1. c.items = d.items /\ c.dest = d.dest
    BY <1>2 DEF Hash
  <2>2. c = [items |-> c.items, dest |-> c.dest] /\ d = [items |-> d.items, dest |-> d.dest]
    BY QuotesAssumption
  <2>3. QED
    BY <2>1, <2>2
<1>3. QED
  BY <1>1, <1>2

LEMMA NoRequestShape ==
    NoRequest.kind = "none" /\ NoRequest.pc = "idle" /\ NoRequest.raw = NoOffers /\ Blank \notin Requests /\ Blank \notin Carts
BY QuotesAssumption DEF NoRequest

LEMMA RatingAsks ==
    ASSUME RatesInv, NEW kind \in {"quote", "place", "checkout", "import"}, NEW cart \in Carts,
           NEW service, NEW seen, NEW alone \in BOOLEAN, NEW x, x = Rating(kind, cart, service, seen, alone)
    PROVE  /\ Asking(x) /\ x.kind = kind /\ x.cart = cart /\ x.alone = alone /\ x.pc \in {"asked", "rated"}
<1>1. PICK raw : raw = IF cache[Key(cart)] = Blank THEN NoOffers ELSE cache[Key(cart)]
  OBVIOUS
<1>2. x = [kind |-> kind, pc |-> IF raw = NoOffers THEN "asked" ELSE "rated", cart |-> cart, service |-> service,
           pricing |-> pricing, raw |-> raw, seen |-> seen, alone |-> alone]
  BY <1>1 DEF Rating
<1>3. raw # NoOffers => raw \in Tariffs[RatedAs(cart)] \cup {Estimate}
  BY <1>1, CartShape DEF RatesInv, Key
<1>4. QED
  BY <1>2, <1>3 DEF Asking, Fields, RatesInv

LEMMA SetRequest ==
    ASSUME RequestsInv, NEW r \in Requests, NEW x, request' = [request EXCEPT ![r] = x]
    PROVE  /\ request'[r] = x /\ \A q \in Requests : q # r => request'[q] = request[q]
           /\ x = NoRequest \/ Asking(x) => RequestsInv'
BY DEF RequestsInv

LEMMA BeginAsks ==
    ASSUME RatesInv, RequestsInv, NEW r \in Requests, NEW kind \in {"quote", "place", "checkout", "import"},
           NEW cart \in Carts, NEW service, NEW seen, Begin(r, kind, cart, service, seen)
    PROVE  /\ RequestsInv' /\ request[r] = NoRequest
           /\ request'[r].kind = kind /\ request'[r].cart = cart /\ request'[r].pc \in {"asked", "rated"}
           /\ \A q \in Requests : q # r => request'[q] = request[q]
<1>0. PICK yes \in BOOLEAN : yes = TRUE
  OBVIOUS
<1>1. PICK x : x = Rating(kind, cart, service, seen, yes)
  OBVIOUS
<1>2. Asking(x) /\ x.kind = kind /\ x.cart = cart /\ x.pc \in {"asked", "rated"}
  BY <1>1, RatingAsks
<1>3. request[r] = NoRequest /\ request' = [request EXCEPT ![r] = x]
  BY <1>0, <1>1 DEF Begin
<1>4. QED
  BY <1>2, <1>3, SetRequest

\* The drawer does not see the requests of the store, nor the store those of the drawer.
LEMMA DrawerAside ==
    ASSUME DrawerInv, UNCHANGED drawer,
           \A q \in Requests : request[q].kind \in {"quote", "place"} =>
               request'[q].kind = request[q].kind /\ request'[q].cart = request[q].cart
    PROVE  DrawerInv'
BY DEF DrawerInv, DrawerIsCurrent

LEMMA OfferAside ==
    ASSUME OfferInv, UNCHANGED <<kept, offered>>,
           \A q \in Requests : request'[q].kind = "checkout" =>
               /\ request[q].kind = "checkout" /\ request'[q].cart = request[q].cart
               /\ request'[q].alone => request[q].alone
               /\ request'[q].pc = "cleared" => request[q].pc = "cleared"
    PROVE  OfferInv'
<1>1. /\ kept' \in [Hashes -> Seq(Batches)] /\ offered' = [c \in Carts |-> offered'[c]]
      /\ \A c \in Carts : offered'[c] # Blank => \A i \in DOMAIN KeptFor(c)' : SameAs(KeptFor(c)'[i], offered'[c])
  BY DEF OfferInv, KeptFor
<1>2. ASSUME NEW c \in Carts, NEW r \in Checkouts(c)' PROVE Fresh(r, c)'
  <2>1. r \in Checkouts(c) /\ Fresh(r, c)
    BY <1>2 DEF OfferInv, Checkouts
  <2>2. Checkouts(c)' \subseteq Checkouts(c)
    BY DEF Checkouts
  <2>3. QED
    BY <1>2, <2>1, <2>2 DEF Fresh, KeptFor, Checkouts
<1>3. QED
  BY <1>1, <1>2 DEF OfferInv

LEMMA RatesStep ==
    ASSUME QuotesInv, RatesNext
    PROVE  QuotesInv'
<1>0. RatesInv /\ RequestsInv /\ DrawerInv /\ OfferInv
  BY DEF QuotesInv
<1>1. ASSUME NEW r \in Requests, Carrier(r) PROVE QuotesInv'
  <2>0. PICK c : c = request[r].cart
    OBVIOUS
  <2>1. PICK k : k = RatedAs(c)
    OBVIOUS
  <2>2. Asking(request[r]) /\ c \in Carts /\ k \in DOMAIN Tariffs /\ Key(c) = k /\ request[r].pc = "asked"
    BY <1>0, <1>1, <2>0, <2>1, NoRequestShape, CartShape DEF Carrier, RequestsInv, Asking, Key
  <2>3. PICK raw \in {tariff[k], Estimate} \ {NoOffers} :
            /\ cache' = [cache EXCEPT ![k] = raw]
            /\ request' = [request EXCEPT ![r].pc = "rated", ![r].raw = raw]
    BY <1>1, <2>0, <2>1, <2>2 DEF Carrier
  <2>4. raw # NoOffers /\ raw \in Tariffs[k] \cup {Estimate}
    BY <1>0, <2>2, <2>3 DEF RatesInv
  <2>5. PICK x : x = [request[r] EXCEPT !.pc = "rated", !.raw = raw]
    OBVIOUS
  <2>6. /\ Fields(x) /\ x.kind = request[r].kind /\ x.cart = c /\ x.pricing = request[r].pricing
        /\ x.alone = request[r].alone /\ x.pc = "rated" /\ x.raw = raw
    BY <2>0, <2>2, <2>5 DEF Asking, Fields
  <2>7. Asking(x)
    BY <2>0, <2>1, <2>2, <2>4, <2>6 DEF Asking
  <2>8. request' = [request EXCEPT ![r] = x]
    BY <1>0, <2>3, <2>5 DEF RequestsInv
  <2>9. request'[r] = x /\ (\A q \in Requests : q # r => request'[q] = request[q]) /\ RequestsInv'
    BY <1>0, <2>7, <2>8, SetRequest
  <2>10. RatesInv'
    BY <1>0, <1>1, <2>2, <2>3, <2>4 DEF RatesInv, Carrier
  <2>11. \A q \in Requests : /\ request'[q].kind = request[q].kind /\ request'[q].cart = request[q].cart
                             /\ request'[q].alone => request[q].alone
                             /\ request'[q].pc = "cleared" => request[q].pc = "cleared"
    BY <2>0, <2>6, <2>9
  <2>12. DrawerInv' /\ OfferInv'
    BY <1>0, <1>1, <2>11, DrawerAside, OfferAside DEF Carrier
  <2>13. QED
    BY <1>1, <2>9, <2>10, <2>12 DEF QuotesInv, Carrier, NonePriced, ChargedAsQuoted
<1>2. ASSUME UNCHANGED <<request, drawer, kept, offered>>, RatesInv', NonePriced PROVE QuotesInv'
  <2>1. RequestsInv' /\ DrawerInv' /\ OfferInv'
    BY <1>0, <1>2, DrawerAside, OfferAside DEF RequestsInv
  <2>2. QED
    BY <1>2, <2>1 DEF QuotesInv, NonePriced, ChargedAsQuoted
<1>3. ASSUME NEW k \in DOMAIN Tariffs, CacheExpires(k) PROVE QuotesInv'
  BY <1>0, <1>2, <1>3 DEF CacheExpires, RatesInv
<1>4. ASSUME NEW k \in DOMAIN Tariffs, TariffChanges(k) PROVE QuotesInv'
  BY <1>0, <1>2, <1>4 DEF TariffChanges, RatesInv
<1>5. ASSUME NEW p \in Pricings, PricingChanges(p) PROVE QuotesInv'
  BY <1>0, <1>2, <1>5 DEF PricingChanges, RatesInv
<1>6. QED
  BY <1>1, <1>3, <1>4, <1>5 DEF RatesNext, FeeChanges, RulesChange

\* A request that is answered, or fails, is gone.
LEMMA FreeRequest ==
    ASSUME RequestsInv, NEW r \in Requests, request' = [request EXCEPT ![r] = NoRequest]
    PROVE  /\ RequestsInv' /\ request'[r] = NoRequest /\ \A q \in Requests : q # r => request'[q] = request[q]
BY SetRequest

LEMMA DrawerStep ==
    ASSUME QuotesInv, DrawerNext
    PROVE  QuotesInv'
<1>0. RatesInv /\ RequestsInv /\ DrawerInv /\ OfferInv /\ NoRequest.kind = "none" /\ NoRequest.pc = "idle"
  BY NoRequestShape DEF QuotesInv
<1>1. UNCHANGED <<tariff, cache, pricing, kept, offered>>
  BY DEF DrawerNext, OpenOrder, EditOrder, Quoted, PressPlace, Placed, PlaceFails, PickService, Dismiss, CloseOrder
<1>2. RatesInv'
  BY <1>0, <1>1 DEF RatesInv
\* What is left to show of an action.
<1>3. ASSUME RequestsInv', DrawerInv', ChargedAsQuoted',
             \A q \in Requests : request'[q].kind = "checkout" => request'[q] = request[q]
      PROVE  QuotesInv'
  <2>1. OfferInv'
    BY <1>0, <1>1, <1>3, OfferAside
  <2>2. QED
    BY <1>2, <1>3, <2>1 DEF QuotesInv
<1>4. ASSUME NonePriced PROVE ChargedAsQuoted'
  BY <1>4 DEF NonePriced, ChargedAsQuoted
<1>5. ASSUME NEW r \in Requests, NEW cart \in Carts \cup {Blank}, NEW d, Requote(r, cart, d), NonePriced,
             d = drawer \/ (d.sent = Blank /\ d.waits = Blank /\ d.quote = Blank), d.open = TRUE,
             d = [open |-> d.open, cart |-> d.cart, service |-> d.service, quote |-> d.quote,
                 quoting |-> d.quoting, waits |-> d.waits, sent |-> d.sent,
                 exported |-> d.exported, confirm |-> d.confirm]
      PROVE  QuotesInv'
  <2>1. CASE cart = Blank
    <3>1. drawer' = [d EXCEPT !.cart = Blank, !.quote = Blank, !.waits = Blank] /\ UNCHANGED request
      BY <1>5, <2>1 DEF Requote
    <3>2. RequestsInv'
      BY <1>0, <3>1 DEF RequestsInv
    <3>3. DrawerInv'
      BY <1>0, <1>5, <3>1, NoRequestShape DEF DrawerInv, DrawerIsCurrent
    <3>4. QED
      BY <1>3, <1>4, <1>5, <3>1, <3>2, <3>3
  <2>2. CASE cart # Blank
    <3>1. /\ drawer' = [d EXCEPT !.cart = cart, !.quoting = TRUE, !.waits = r] /\ cart \in Carts
          /\ Begin(r, "quote", cart, Blank, Blank)
      BY <1>5, <2>2 DEF Requote
    <3>2. /\ RequestsInv' /\ request[r] = NoRequest /\ request'[r].kind = "quote" /\ request'[r].cart = cart
          /\ \A q \in Requests : q # r => request'[q] = request[q]
      BY <1>0, <3>1, BeginAsks
    <3>3. DrawerInv'
      BY <1>0, <1>5, <3>1, <3>2, NoRequestShape, ZenonT(40) DEF DrawerInv, DrawerIsCurrent
    <3>4. QED
      BY <1>3, <1>4, <1>5, <3>2, <3>3
  <2>3. QED
    BY <2>1, <2>2
<1>6. ASSUME NEW r \in Requests, OpenOrder(r) PROVE QuotesInv'
  <2>1. CASE Requote(r, Blank, [NoDrawer EXCEPT !.open = TRUE])
    <3>1. PICK d : d = [NoDrawer EXCEPT !.open = TRUE]
      OBVIOUS
    <3>2. /\ d.sent = Blank /\ d.waits = Blank /\ d.quote = Blank /\ d.open = TRUE
          /\ d = [open |-> d.open, cart |-> d.cart, service |-> d.service, quote |-> d.quote,
                  quoting |-> d.quoting, waits |-> d.waits, sent |-> d.sent,
                  exported |-> d.exported, confirm |-> d.confirm]
      BY <3>1 DEF NoDrawer
    <3>3. QED
      BY <1>5, <1>6, <2>1, <3>1, <3>2 DEF OpenOrder
  <2>2. ASSUME NEW cart \in Carts, NEW e,
               Requote(r, cart, [NoDrawer EXCEPT !.open = TRUE, !.service = Ground, !.exported = e])
        PROVE  QuotesInv'
    <3>1. PICK d : d = [NoDrawer EXCEPT !.open = TRUE, !.service = Ground, !.exported = e]
      OBVIOUS
    <3>2. /\ d.sent = Blank /\ d.waits = Blank /\ d.quote = Blank /\ d.open = TRUE
          /\ d = [open |-> d.open, cart |-> d.cart, service |-> d.service, quote |-> d.quote,
                  quoting |-> d.quoting, waits |-> d.waits, sent |-> d.sent,
                  exported |-> d.exported, confirm |-> d.confirm]
      BY <3>1 DEF NoDrawer
    <3>3. QED
      BY <1>5, <1>6, <2>2, <3>1, <3>2 DEF OpenOrder
  <2>3. QED
    BY <1>6, <2>1, <2>2 DEF OpenOrder
<1>7. ASSUME NEW r \in Requests, EditOrder(r) PROVE QuotesInv'
  BY <1>0, <1>5, <1>7 DEF EditOrder, DrawerInv
<1>8. ASSUME NEW r \in Requests, Quoted(r) PROVE QuotesInv'
  <2>1. /\ RequestsInv' /\ request'[r] = NoRequest /\ request[r].kind = "quote"
        /\ \A q \in Requests : q # r => request'[q] = request[q]
    BY <1>0, <1>8, FreeRequest DEF Quoted
  <2>2. DrawerInv'
    <3>1. CASE ~Awaited(r)
      BY <1>0, <1>8, <2>1, <3>1, NoRequestShape DEF Quoted, Awaited, DrawerInv, DrawerIsCurrent
    <3>2. CASE Awaited(r)
      <4>1. PICK quote \in {Blank} \cup {[cart |-> request[r].cart, options |-> OptionsOf(r)]} :
                drawer' = [drawer EXCEPT !.quote = quote, !.quoting = FALSE, !.waits = Blank,
                    !.service = IF quote # Blank /\ @ = Blank THEN First(quote.options) ELSE @]
        BY <1>8, <3>2 DEF Quoted
      <4>2. PICK service : service = IF quote # Blank /\ drawer.service = Blank THEN First(quote.options) ELSE drawer.service
        OBVIOUS
      <4>3. drawer' = [drawer EXCEPT !.quote = quote, !.quoting = FALSE, !.waits = Blank, !.service = service]
        BY <4>1, <4>2
      <4>4. request[r].cart = drawer.cart /\ drawer.waits = r /\ (quote # Blank => quote.cart = request[r].cart)
        BY <1>0, <3>2, <4>1 DEF Awaited, DrawerInv
      <4>5. drawer.open
        BY <1>0, <4>4, NoRequestShape DEF DrawerInv, NoDrawer
      <4>6. QED
        BY <1>0, <2>1, <4>3, <4>4, <4>5, NoRequestShape DEF DrawerInv, DrawerIsCurrent
    <3>3. QED
      BY <3>1, <3>2
  <2>3. QED
    BY <1>0, <1>3, <1>4, <1>8, <2>1, <2>2 DEF Quoted
<1>9. ASSUME NEW r \in Requests, PressPlace(r) PROVE QuotesInv'
  <2>1. CASE drawer.exported /\ ~drawer.confirm
    <3>1. drawer' = [drawer EXCEPT !.confirm = TRUE] /\ drawer.open /\ UNCHANGED request
      BY <1>9, <2>1 DEF PressPlace
    <3>2. RequestsInv' /\ DrawerInv'
      BY <1>0, <3>1 DEF RequestsInv, DrawerInv, DrawerIsCurrent
    <3>3. QED
      BY <1>3, <1>4, <1>9, <3>1, <3>2 DEF PressPlace
  <2>2. CASE ~(drawer.exported /\ ~drawer.confirm)
    <3>1. /\ drawer' = [drawer EXCEPT !.sent = r] /\ drawer.cart \in Carts /\ drawer.open
          /\ Begin(r, "place", drawer.cart, drawer.service, drawer.quote.options)
      BY <1>0, <1>9, <2>2 DEF PressPlace, DrawerInv
    <3>2. /\ RequestsInv' /\ request[r] = NoRequest /\ request'[r].kind = "place"
          /\ \A q \in Requests : q # r => request'[q] = request[q]
      BY <1>0, <3>1, BeginAsks
    <3>3. DrawerInv'
      BY <1>0, <3>1, <3>2, NoRequestShape DEF DrawerInv, DrawerIsCurrent
    <3>4. QED
      BY <1>3, <1>4, <1>9, <3>2, <3>3 DEF PressPlace
  <2>3. QED
    BY <2>1, <2>2
<1>10. ASSUME NEW r \in Requests, Placed(r) PROVE QuotesInv'
  <2>1. /\ RequestsInv' /\ request'[r] = NoRequest
        /\ \A q \in Requests : q # r => request'[q] = request[q]
    BY <1>0, <1>10, FreeRequest DEF Placed
  <2>2. DrawerInv'
    BY <1>10, NoRequestShape DEF Placed, NoDrawer, DrawerInv, DrawerIsCurrent
  <2>3. ChargedAsQuoted'
    BY <1>10 DEF Placed, ChargedAsQuoted, Chosen, Selected
  <2>4. QED
    BY <1>0, <1>3, <2>1, <2>2, <2>3
<1>11. ASSUME NEW r \in Requests, PlaceFails(r) PROVE QuotesInv'
  <2>1. /\ RequestsInv' /\ request'[r] = NoRequest /\ request[r].kind = "place"
        /\ \A q \in Requests : q # r => request'[q] = request[q]
    BY <1>0, <1>11, FreeRequest DEF PlaceFails
  <2>2. DrawerInv'
    <3>1. CASE drawer.sent = r
      <4>1. drawer' = [drawer EXCEPT !.sent = Blank, !.confirm = FALSE]
        BY <1>11, <3>1 DEF PlaceFails
      <4>2. drawer.open
        BY <1>0, <3>1, NoRequestShape DEF DrawerInv, NoDrawer
      <4>3. QED
        BY <1>0, <2>1, <4>1, <4>2, NoRequestShape DEF DrawerInv, DrawerIsCurrent
    <3>2. CASE drawer.sent # r
      BY <1>0, <1>11, <2>1, <3>2 DEF PlaceFails, DrawerInv, DrawerIsCurrent
    <3>3. QED
      BY <3>1, <3>2
  <2>3. QED
    BY <1>0, <1>3, <1>4, <1>11, <2>1, <2>2 DEF PlaceFails
<1>12. ASSUME NEW s, PickService(s) PROVE QuotesInv'
  <2>1. drawer' = [drawer EXCEPT !.service = s] /\ drawer.open /\ UNCHANGED request
    BY <1>12 DEF PickService
  <2>2. RequestsInv' /\ DrawerInv'
    BY <1>0, <2>1 DEF RequestsInv, DrawerInv, DrawerIsCurrent
  <2>3. QED
    BY <1>3, <1>4, <1>12, <2>1, <2>2 DEF PickService
<1>13. ASSUME Dismiss PROVE QuotesInv'
  <2>0. drawer.open
    BY <1>0, <1>13 DEF Dismiss, DrawerInv, NoDrawer
  <2>1. drawer' = [drawer EXCEPT !.confirm = FALSE] /\ UNCHANGED request
    BY <1>13 DEF Dismiss
  <2>2. RequestsInv' /\ DrawerInv'
    BY <1>0, <2>0, <2>1 DEF RequestsInv, DrawerInv, DrawerIsCurrent
  <2>3. QED
    BY <1>3, <1>4, <1>13, <2>1, <2>2 DEF Dismiss
<1>14. ASSUME CloseOrder PROVE QuotesInv'
  <2>1. RequestsInv' /\ DrawerInv'
    BY <1>0, <1>14, NoRequestShape DEF CloseOrder, NoDrawer, RequestsInv, DrawerInv, DrawerIsCurrent
  <2>2. QED
    BY <1>3, <1>4, <1>14, <2>1 DEF CloseOrder
<1>15. QED
  BY <1>6, <1>7, <1>8, <1>9, <1>10, <1>11, <1>12, <1>13, <1>14 DEF DrawerNext

LEMMA OptionsOfTyped ==
    ASSUME RatesInv, NEW r \in Requests, Asking(request[r]), NEW o, o = OptionsOf(r)
    PROVE  DOMAIN o \in (SUBSET Services) \ {{}} /\ \A s \in DOMAIN o : o[s] \in Option
<1>1. request[r].raw \in Offers \cup {NoOffers}
  BY CartShape DEF Asking, Offers, AllOffers
<1>2. QED
  BY <1>1, OptionsTyped DEF OptionsOf, Asking

LEMMA CheckoutStep ==
    ASSUME QuotesInv, NEW r \in Requests, NEW cart \in Carts, Checkout(r, cart)
    PROVE  RequestsInv' /\ DrawerInv' /\ OfferInv'
<1>0. RatesInv /\ RequestsInv /\ DrawerInv /\ OfferInv /\ request[r] = NoRequest
  BY DEF QuotesInv, Checkout
<1>1. PICK yes \in BOOLEAN : yes = (Checkouts(cart) = {})
  OBVIOUS
<1>2. PICK x : x = Rating("checkout", cart, Blank, Blank, yes)
  OBVIOUS
<1>3. Asking(x) /\ x.kind = "checkout" /\ x.cart = cart /\ x.alone = yes /\ x.pc \in {"asked", "rated"}
  BY <1>0, <1>2, RatingAsks
<1>4. request' = [q \in Requests |-> IF q = r THEN x
                      ELSE IF q \in Checkouts(cart) THEN [request[q] EXCEPT !.alone = FALSE] ELSE request[q]]
  BY <1>1, <1>2 DEF Checkout
<1>5. request'[r] = x
  BY <1>4
<1>6. ASSUME NEW q \in Requests, q # r
      PROVE  /\ request'[q] = NoRequest \/ Asking(request'[q])
             /\ request'[q].kind = request[q].kind /\ request'[q].cart = request[q].cart /\ request'[q].pc = request[q].pc
             /\ request'[q].alone => request[q].alone /\ q \notin Checkouts(cart)
  <2>1. CASE q \in Checkouts(cart)
    <3>1. Asking(request[q])
      BY <1>0, <2>1, NoRequestShape DEF RequestsInv, Checkouts
    <3>2. PICK y : y = [request[q] EXCEPT !.alone = FALSE]
      OBVIOUS
    <3>3. /\ Fields(y) /\ y.kind = request[q].kind /\ y.cart = request[q].cart /\ y.pricing = request[q].pricing
          /\ y.alone = FALSE /\ y.pc = request[q].pc /\ y.raw = request[q].raw
      BY <3>1, <3>2 DEF Asking, Fields
    <3>4. Asking(y)
      BY <3>1, <3>3 DEF Asking
    <3>5. request'[q] = y
      BY <1>4, <1>6, <2>1, <3>2
    <3>6. QED
      BY <3>3, <3>4, <3>5
  <2>2. CASE q \notin Checkouts(cart)
    BY <1>0, <1>4, <1>6, <2>2 DEF RequestsInv
  <2>3. QED
    BY <2>1, <2>2
<1>7. RequestsInv'
  BY <1>3, <1>4, <1>5, <1>6 DEF RequestsInv
<1>8. DrawerInv'
  <2>1. UNCHANGED drawer
    BY DEF Checkout
  <2>2. QED
    BY <1>0, <1>6, <2>1, NoRequestShape, DrawerAside
<1>9. OfferInv'
  <2>1. offered' = [offered EXCEPT ![cart] = Blank] /\ kept' = kept
    BY DEF Checkout
  <2>2. /\ kept' \in [Hashes -> Seq(Batches)] /\ offered' = [c \in Carts |-> offered'[c]]
        /\ \A c \in Carts : offered'[c] # Blank => \A i \in DOMAIN KeptFor(c)' : SameAs(KeptFor(c)'[i], offered'[c])
    BY <1>0, <2>1 DEF OfferInv, KeptFor
  <2>3. ASSUME NEW c \in Carts, NEW q \in Checkouts(c)' PROVE Fresh(q, c)'
    <3>1. CASE q = r
      <4>1. c = cart /\ offered'[cart] = Blank
        BY <1>0, <1>3, <1>5, <2>1, <2>3, <3>1 DEF OfferInv, Checkouts
      <4>2. yes => \A y \in Requests \ {r} : ~(request'[y].kind = "checkout" /\ request'[y].cart = cart)
        BY <1>1, <1>6 DEF Checkouts
      <4>3. yes => Checkouts(cart)' = {r}
        BY <1>3, <1>5, <4>2 DEF Checkouts
      <4>4. QED
        BY <1>3, <1>5, <3>1, <4>1, <4>3 DEF Fresh
    <3>2. CASE q # r
      <4>1. q \in Checkouts(c) /\ Fresh(q, c) /\ q \in Requests
        BY <1>0, <1>6, <2>3, <3>2 DEF OfferInv, Checkouts
      <4>2. offered'[c] = Blank /\ KeptFor(c)' = KeptFor(c)
        BY <1>0, <2>1, <4>1 DEF OfferInv, Fresh, KeptFor
      <4>3. request'[q].alone => request[q].alone /\ c # cart
        BY <1>6, <3>2, <4>1
      <4>4. c # cart => Checkouts(c)' = Checkouts(c)
        <5>1. SUFFICES ASSUME c # cart, NEW y \in Requests
                       PROVE  (request'[y].kind = "checkout" /\ request'[y].cart = c)
                                <=> (request[y].kind = "checkout" /\ request[y].cart = c)
          BY DEF Checkouts
        <5>2. CASE y = r
          BY <1>0, <1>3, <1>5, <5>1, <5>2, NoRequestShape
        <5>3. CASE y # r
          BY <1>6, <5>3
        <5>4. QED
          BY <5>2, <5>3
      <4>5. request'[q].pc = request[q].pc
        BY <1>6, <3>2, <4>1
      <4>6. QED
        BY <4>1, <4>2, <4>3, <4>4, <4>5 DEF Fresh
    <3>3. QED
      BY <3>1, <3>2
  <2>4. QED
    BY <2>2, <2>3 DEF OfferInv
<1>10. QED
  BY <1>7, <1>8, <1>9

\* An order is charged what the checkout it came from was shown.
LEMMA ImportCharges ==
    ASSUME OfferInv, NEW cart \in Carts, NEW service, Matches(cart, service) # {}, Shown(cart, service) # Blank
    PROVE  Newest(cart, service).carrier + Newest(cart, service).fee = Shown(cart, service)
<1>1. PICK k : k = KeptFor(cart) /\ k \in Seq(Batches)
  BY CartShape DEF OfferInv, KeptFor
<1>2. PICK n \in Nat : n = Len(k)
  BY <1>1
<1>3. Matches(cart, service) \subseteq 1..n
  BY <1>1, <1>2 DEF Matches, KeptFor
<1>4. IsFiniteSet(Matches(cart, service)) /\ \A i \in Matches(cart, service) : i \in Int
  <2>1. IsFiniteSet(1..n)
    BY FS_Interval
  <2>2. IsFiniteSet(Matches(cart, service))
    BY <1>3, <2>1, FS_Subset
  <2>3. QED
    BY <1>3, <2>2
<1>5. Max(Matches(cart, service)) \in Matches(cart, service)
  BY <1>4, MaxIsIn
<1>6. PICK i : i = Max(Matches(cart, service))
  OBVIOUS
<1>7. i \in DOMAIN k /\ Newest(cart, service) = k[i][service]
  BY <1>1, <1>5, <1>6 DEF Matches, Newest, KeptFor
<1>8. offered[cart] # Blank /\ service \in DOMAIN offered[cart] /\ Shown(cart, service) = offered[cart][service].cents
  BY DEF Shown
<1>9. SameAs(k[i], offered[cart])
  BY <1>1, <1>7, <1>8 DEF OfferInv
<1>10. QED
  BY <1>7, <1>8, <1>9 DEF SameAs

LEMMA StoreStep ==
    ASSUME QuotesInv, StoreNext
    PROVE  QuotesInv'
<1>0. RatesInv /\ RequestsInv /\ DrawerInv /\ OfferInv /\ NoRequest.kind = "none" /\ NoRequest.pc = "idle"
  BY NoRequestShape DEF QuotesInv
<1>1. UNCHANGED <<tariff, cache, pricing, drawer>>
  BY DEF StoreNext, Checkout, Import, FallBack, Supersede, KeepQuote, Imported, RowsExpire
<1>2. RatesInv'
  BY <1>0, <1>1 DEF RatesInv
<1>3. ASSUME NonePriced PROVE ChargedAsQuoted'
  BY <1>3 DEF NonePriced, ChargedAsQuoted
<1>4. ASSUME NEW r \in Requests, NEW cart \in Carts, Checkout(r, cart) PROVE QuotesInv'
  BY <1>2, <1>3, <1>4, CheckoutStep DEF QuotesInv, Checkout
<1>5. ASSUME NEW r \in Requests, NEW cart \in Carts, NEW service, Import(r, cart, service) PROVE QuotesInv'
  <2>1. CASE Matches(cart, service) = {}
    <3>1. Begin(r, "import", cart, service, Blank) /\ NonePriced /\ UNCHANGED <<kept, offered>>
      BY <1>5, <2>1 DEF Import
    <3>2. /\ RequestsInv' /\ request[r] = NoRequest /\ request'[r].kind = "import"
          /\ \A q \in Requests : q # r => request'[q] = request[q]
      BY <1>0, <3>1, BeginAsks
    <3>3. DrawerInv' /\ OfferInv'
      BY <1>0, <1>1, <3>1, <3>2, DrawerAside, OfferAside
    <3>4. QED
      BY <1>2, <1>3, <3>1, <3>2, <3>3 DEF QuotesInv
  <2>2. CASE Matches(cart, service) # {}
    <3>1. PICK newest : newest = Newest(cart, service)
      OBVIOUS
    <3>2. /\ priced' = [cents |-> newest.carrier + newest.fee, promised |-> Shown(cart, service)]
          /\ UNCHANGED <<request, kept, offered>>
      BY <1>5, <2>2, <3>1 DEF Import
    <3>3. ChargedAsQuoted'
      BY <1>0, <2>2, <3>1, <3>2, ImportCharges DEF ChargedAsQuoted
    <3>4. RequestsInv' /\ DrawerInv' /\ OfferInv'
      BY <1>0, <1>1, <3>2, DrawerAside, OfferAside DEF RequestsInv
    <3>5. QED
      BY <1>2, <3>3, <3>4 DEF QuotesInv
  <2>3. QED
    BY <2>1, <2>2
<1>6. ASSUME NEW r \in Requests, FallBack(r) \/ Imported(r) PROVE QuotesInv'
  <2>1. /\ RequestsInv' /\ request'[r] = NoRequest /\ request[r].kind \in {"checkout", "import"}
        /\ \A q \in Requests : q # r => request'[q] = request[q]
    BY <1>0, <1>6, FreeRequest DEF FallBack, Imported
  <2>2. DrawerInv' /\ OfferInv'
    BY <1>0, <1>1, <1>6, <2>1, DrawerAside, OfferAside DEF FallBack, Imported
  <2>3. ChargedAsQuoted'
    BY <1>3, <1>6 DEF FallBack, Imported, ChargedAsQuoted
  <2>4. QED
    BY <1>2, <2>1, <2>2, <2>3 DEF QuotesInv
<1>7. ASSUME NEW r \in Requests, Supersede(r) PROVE QuotesInv'
  <2>1. PICK c : c = request[r].cart
    OBVIOUS
  <2>2. Asking(request[r]) /\ request[r].kind = "checkout" /\ request[r].pc = "rated" /\ c \in Carts
    BY <1>0, <1>7, <2>1 DEF Supersede, RequestsInv, Asking
  <2>3. PICK x : x = [request[r] EXCEPT !.pc = "cleared"]
    OBVIOUS
  <2>4. /\ Fields(x) /\ x.kind = "checkout" /\ x.cart = c /\ x.pricing = request[r].pricing
        /\ x.alone = request[r].alone /\ x.pc = "cleared" /\ x.raw = request[r].raw
    BY <2>1, <2>2, <2>3 DEF Asking, Fields
  <2>5. Asking(x)
    BY <2>1, <2>2, <2>4 DEF Asking
  <2>6. request' = [request EXCEPT ![r] = x]
    BY <1>0, <1>7, <2>3 DEF Supersede, RequestsInv
  <2>7. request'[r] = x /\ (\A q \in Requests : q # r => request'[q] = request[q]) /\ RequestsInv'
    BY <1>0, <2>5, <2>6, SetRequest
  <2>8. \A q \in Requests : /\ request'[q].kind = request[q].kind /\ request'[q].cart = request[q].cart
                            /\ request'[q].alone = request[q].alone
    BY <2>1, <2>2, <2>4, <2>7
  <2>9. kept' = [kept EXCEPT ![Hash(c)] = <<>>] /\ offered' = offered
    BY <1>7, <2>1 DEF Supersede
  <2>10. OfferInv'
    <3>1. kept' \in [Hashes -> Seq(Batches)]
      BY <1>0, <2>2, <2>9, CartShape DEF OfferInv
    <3>2. ASSUME NEW d \in Carts PROVE KeptFor(d)' = <<>> \/ KeptFor(d)' = KeptFor(d)
      BY <1>0, <2>2, <2>9, CartShape DEF OfferInv, KeptFor
    <3>3. ASSUME NEW d \in Carts, offered'[d] # Blank, NEW i \in DOMAIN KeptFor(d)'
          PROVE  SameAs(KeptFor(d)'[i], offered'[d])
      BY <1>0, <2>9, <3>2, <3>3 DEF OfferInv
    <3>4. ASSUME NEW d \in Carts, NEW q \in Checkouts(d)' PROVE Fresh(q, d)'
      <4>1. q \in Checkouts(d) /\ Fresh(q, d) /\ q \in Requests /\ Checkouts(d)' = Checkouts(d)
        BY <1>0, <2>8, <3>4 DEF OfferInv, Checkouts
      <4>2. offered'[d] = Blank /\ request'[q].alone = request[q].alone
        BY <2>8, <2>9, <4>1 DEF Fresh
      <4>3. q = r => KeptFor(d)' = <<>>
        BY <1>0, <2>1, <2>2, <2>9, <4>1, CartShape DEF OfferInv, KeptFor, Checkouts
      <4>4. q # r => request'[q] = request[q]
        BY <2>7, <4>1
      <4>5. QED
        BY <3>2, <4>1, <4>2, <4>3, <4>4 DEF Fresh
    <3>5. QED
      BY <1>0, <2>9, <3>1, <3>3, <3>4 DEF OfferInv
  <2>11. DrawerInv'
    BY <1>0, <1>1, <2>8, DrawerAside
  <2>12. QED
    BY <1>2, <1>3, <1>7, <2>7, <2>10, <2>11 DEF QuotesInv, Supersede
<1>8. ASSUME NEW r \in Requests, KeepQuote(r) PROVE QuotesInv'
  <2>1. PICK c : c = request[r].cart
    OBVIOUS
  <2>2. Asking(request[r]) /\ request[r].kind = "checkout" /\ request[r].pc = "cleared" /\ c \in Carts
    BY <1>0, <1>8, <2>1 DEF KeepQuote, RequestsInv, Asking
  <2>3. /\ RequestsInv' /\ request'[r] = NoRequest /\ \A q \in Requests : q # r => request'[q] = request[q]
    BY <1>0, <1>8, FreeRequest DEF KeepQuote
  <2>4. PICK o : o = OptionsOf(r)
    OBVIOUS
  <2>5. PICK b : b = QuoteRows(o, request[r].pricing)
    OBVIOUS
  <2>6. b \in Batches /\ SameAs(b, o)
    BY <1>0, <2>2, <2>4, <2>5, OptionsOfTyped, BatchTyped DEF SameAs
  <2>7. /\ kept' = [kept EXCEPT ![Hash(c)] = Append(@, b)]
        /\ offered' = [offered EXCEPT ![c] = IF request[r].alone THEN o ELSE Blank]
    BY <1>8, <2>1, <2>4, <2>5 DEF KeepQuote
  <2>8. PICK k : k = KeptFor(c) /\ k \in Seq(Batches)
    BY <1>0, <2>2, CartShape DEF OfferInv, KeptFor
  <2>9. /\ kept' \in [Hashes -> Seq(Batches)] /\ KeptFor(c)' = Append(k, b)
        /\ \A d \in Carts : d # c => KeptFor(d)' = KeptFor(d)
    BY <1>0, <2>2, <2>6, <2>7, <2>8, CartShape DEF OfferInv, KeptFor
  <2>10. OfferInv'
    <3>1. offered' = [d \in Carts |-> offered'[d]] /\ \A d \in Carts : d # c => offered'[d] = offered[d]
      BY <1>0, <2>7 DEF OfferInv
    <3>2. ASSUME NEW d \in Carts, offered'[d] # Blank, NEW i \in DOMAIN KeptFor(d)'
          PROVE  SameAs(KeptFor(d)'[i], offered'[d])
      <4>1. CASE d # c
        BY <1>0, <2>9, <3>1, <3>2, <4>1 DEF OfferInv
      <4>2. CASE d = c
        <5>1. request[r].alone /\ offered'[c] = o
          BY <1>0, <2>2, <2>7, <3>2, <4>2 DEF OfferInv
        <5>2. r \in Checkouts(c)
          BY <2>1, <2>2 DEF Checkouts
        <5>3. k = <<>>
          BY <1>0, <2>2, <2>8, <5>1, <5>2 DEF OfferInv, Fresh
        <5>4. i = 1 /\ KeptFor(c)'[1] = b
          BY <2>8, <2>9, <3>2, <4>2, <5>3
        <5>5. QED
          BY <2>6, <4>2, <5>1, <5>4
      <4>3. QED
        BY <4>1, <4>2
    <3>3. ASSUME NEW d \in Carts, NEW q \in Checkouts(d)' PROVE Fresh(q, d)'
      <4>1. q # r /\ request'[q] = request[q] /\ q \in Checkouts(d) /\ Fresh(q, d)
        BY <1>0, <2>3, <3>3 DEF OfferInv, Checkouts
      <4>2. r \in Checkouts(c)
        BY <2>1, <2>2 DEF Checkouts
      <4>3. d = c => ~request[q].alone /\ ~request[r].alone
        BY <1>0, <4>1, <4>2 DEF OfferInv, Fresh
      <4>4. offered'[d] = Blank
        BY <1>0, <2>2, <2>7, <3>1, <4>1, <4>3 DEF OfferInv, Fresh
      <4>5. d # c => Checkouts(d)' = Checkouts(d)
        BY <1>0, <2>1, <2>2, <2>3 DEF Checkouts
      <4>6. QED
        BY <2>9, <4>1, <4>3, <4>4, <4>5 DEF Fresh
    <3>4. QED
      BY <2>9, <3>1, <3>2, <3>3 DEF OfferInv
  <2>11. DrawerInv'
    BY <1>0, <1>1, <2>2, <2>3, DrawerAside
  <2>12. QED
    BY <1>2, <1>3, <1>8, <2>3, <2>10, <2>11 DEF QuotesInv, KeepQuote
<1>9. ASSUME RowsExpire PROVE QuotesInv'
  <2>1. PICK h \in Hashes : kept[h] # <<>> /\ kept' = [kept EXCEPT ![h] = Tail(@)]
    BY <1>0, <1>9 DEF RowsExpire, OfferInv
  <2>2. UNCHANGED <<request, offered>> /\ NonePriced
    BY <1>9 DEF RowsExpire
  <2>3. PICK k : k = kept[h] /\ k \in Seq(Batches)
    BY <1>0 DEF OfferInv
  <2>4. Tail(k) \in Seq(Batches) /\ \A i \in DOMAIN Tail(k) : i + 1 \in DOMAIN k /\ Tail(k)[i] = k[i + 1]
    BY <2>1, <2>3
  <2>5. kept' \in [Hashes -> Seq(Batches)] /\ kept'[h] = Tail(k) /\ \A g \in Hashes : g # h => kept'[g] = kept[g]
    BY <1>0, <2>1, <2>3, <2>4 DEF OfferInv
  <2>6. ASSUME NEW c \in Carts, NEW i \in DOMAIN KeptFor(c)'
        PROVE  \E j \in DOMAIN KeptFor(c) : KeptFor(c)'[i] = KeptFor(c)[j]
    <3>1. Hash(c) \in Hashes
      BY CartShape
    <3>2. PICK g \in Hashes : g = Hash(c)
      BY <3>1
    <3>3. KeptFor(c) = kept[g] /\ KeptFor(c)' = kept'[g]
      BY <3>2 DEF KeptFor
    <3>4. CASE g = h
      <4>1. i + 1 \in DOMAIN k /\ KeptFor(c)'[i] = k[i + 1]
        BY <2>4, <2>5, <2>6, <3>3, <3>4
      <4>2. QED
        BY <2>3, <3>3, <3>4, <4>1
    <3>5. CASE g # h
      BY <2>5, <2>6, <3>3, <3>5
    <3>6. QED
      BY <3>4, <3>5
  <2>7. ASSUME NEW c \in Carts, KeptFor(c) = <<>> PROVE KeptFor(c)' = <<>>
    BY <2>1, <2>5, <2>7, CartShape DEF KeptFor
  <2>8. OfferInv'
    <3>1. ASSUME NEW c \in Carts, NEW q \in Checkouts(c)' PROVE Fresh(q, c)'
      BY <1>0, <2>2, <2>7, <3>1 DEF OfferInv, Checkouts, Fresh
    <3>2. ASSUME NEW c \in Carts, offered'[c] # Blank, NEW i \in DOMAIN KeptFor(c)'
          PROVE  SameAs(KeptFor(c)'[i], offered'[c])
      BY <1>0, <2>2, <2>6, <3>2 DEF OfferInv
    <3>3. QED
      BY <1>0, <2>2, <2>5, <3>1, <3>2 DEF OfferInv
  <2>9. RequestsInv' /\ DrawerInv'
    BY <1>0, <1>1, <2>2, DrawerAside DEF RequestsInv
  <2>10. QED
    BY <1>2, <1>3, <2>2, <2>8, <2>9 DEF QuotesInv
<1>10. QED
  BY <1>4, <1>5, <1>6, <1>7, <1>8, <1>9 DEF StoreNext

LEMMA QuotesInvInit ==
    ASSUME QuotesInit
    PROVE  QuotesInv
<1>1. RatesInv
  BY DEF QuotesInit, RatesInv
<1>2. RequestsInv /\ DrawerInv
  BY NoRequestShape DEF QuotesInit, RequestsInv, DrawerInv, DrawerIsCurrent, NoDrawer
<1>3. OfferInv
  <2>1. \A c \in Carts : Checkouts(c) = {}
    BY NoRequestShape DEF QuotesInit, Checkouts
  <2>2. kept \in [Hashes -> Seq(Batches)] /\ offered = [c \in Carts |-> Blank]
    BY DEF QuotesInit, Hashes
  <2>3. QED
    BY <2>1, <2>2 DEF OfferInv
<1>4. QED
  BY <1>1, <1>2, <1>3 DEF QuotesInit, QuotesInv, ChargedAsQuoted

LEMMA QuotesUntouched ==
    ASSUME QuotesInv, UNCHANGED quoteVars
    PROVE  QuotesInv'
<1>1. RatesInv' /\ RequestsInv' /\ DrawerInv' /\ OfferInv'
  BY DrawerAside, OfferAside DEF QuotesInv, quoteVars, RatesInv, RequestsInv
<1>2. QED
  BY <1>1 DEF QuotesInv, quoteVars, ChargedAsQuoted

\* The types, and that what shipping costs is what was shown.
LEMMA QuotesHonoured ==
    ASSUME QuotesInv
    PROVE  QuotesTypeOK /\ DrawerIsCurrent /\ ChargedAsQuoted /\ RatesOfTheParcel
<1>0. RatesInv /\ RequestsInv /\ DrawerInv /\ OfferInv
  BY DEF QuotesInv
<1>1. \A k \in DOMAIN Tariffs : tariff[k] \in Tariffs[k] /\ (cache[k] = Blank \/ cache[k] \in AllOffers \cup {Estimate})
  BY <1>0 DEF RatesInv, AllOffers
<1>2. ASSUME NEW r \in Requests
      PROVE  request[r] = NoRequest \/
                 /\ request[r].kind \in {"quote", "place", "checkout", "import"} /\ request[r].cart \in Carts
                 /\ request[r].pc \in {"asked", "rated", "cleared"}
                 /\ request[r].raw = NoOffers <=> request[r].pc = "asked"
  BY <1>0 DEF RequestsInv, Asking
<1>3. \A h \in DOMAIN kept : \A i \in DOMAIN kept[h] : DOMAIN kept[h][i] # {}
  <2>1. ASSUME NEW h \in Hashes, NEW k, k = kept[h], NEW i \in DOMAIN k PROVE DOMAIN k[i] # {}
    <3>1. k \in Seq(Batches)
      BY <1>0, <2>1 DEF OfferInv
    <3>2. k[i] \in Batches
      BY <2>1, <3>1
    <3>3. QED
      BY <3>2 DEF Batches
  <2>2. QED
    BY <1>0, <2>1 DEF OfferInv
<1>4. RatesOfTheParcel
  BY <1>0, NoRequestShape DEF RequestsInv, Asking, RatesOfTheParcel
<1>5. QED
  BY <1>0, <1>1, <1>2, <1>3, <1>4 DEF QuotesInv, QuotesTypeOK, RatesInv, DrawerInv

-----------------------------------------------------------------------------

(* The account. *)

accountVars == <<ledger, claimTables, eventTables, subscriptionVars, quoteVars, scenario>>

Claiming == At({"resolutions", "queue", "triage"})

\* What a scenario does not move is as it was at its start.
NoClaims == claims = [c \in ClaimIds |-> NoClaim] /\ reships = <<>>
NoEvents == \A e \in Events : rows[e].status = "none" /\ answer[e] = "none"

AtWork == {p \in Clerks : clerks[p] # AtRest}

\* Where no triage meets a resolution the invariant of one administrator at a
\* time holds.
Serial == At({"resolutions", "queue"}) => SerialInv /\ IsFiniteSet(AtWork)

\* The inductive invariant of the account.
AccountInv ==
    /\ scenario \in Scenarios
    /\ IF Claiming THEN ClaimsInv ELSE NoClaims
    /\ IF At({"events"}) THEN WebhooksInv ELSE NoEvents
    /\ Claiming \/ At({"events"}) \/ ledger = <<>>
    /\ SubscriptionInv
    /\ Serial

LEMMA ClaimsUntouched ==
    ASSUME UNCHANGED claimVars
    PROVE  /\ ClaimsInv => ClaimsInv'
           /\ SerialInv => SerialInv'
           /\ NoClaims => NoClaims'
           /\ IsFiniteSet(AtWork) => IsFiniteSet(AtWork')
<1>1. ClaimsInv => ClaimsInv'
  BY DEF claimVars, ClaimsInv, ClaimsShape, UniqueKeys, BookedAtGate, CreditedIsBooked, Booked
<1>2. TriageAlone /\ TriageIsFresh /\ NoOrphanReship
        => TriageAlone' /\ TriageIsFresh' /\ NoOrphanReship'
  BY DEF claimVars, TriageAlone, TriageIsFresh, NoOrphanReship
<1>3. QED
  BY <1>1, <1>2 DEF SerialInv, NoClaims, claimVars, AtWork

LEMMA EventsUntouched ==
    ASSUME UNCHANGED <<ledger, eventTables>>
    PROVE  (WebhooksInv => WebhooksInv') /\ (NoEvents => NoEvents')
BY DEF eventTables, WebhooksInv, WebhooksTypeOK, WorksOnRows, Seen, UniqueKeys,
       AppliedAtEnd, Applied, Booked, NothingLost, NoEvents

LEMMA MembershipUntouched ==
    ASSUME SubscriptionInv, UNCHANGED subscriptionVars
    PROVE  SubscriptionInv'
BY DEF subscriptionVars, SubscriptionInv, SubscriptionTypeOK, MirrorAgrees, RecoveryClears

LEMMA MembershipInit == SubscriptionInit => SubscriptionInv
<1>1. SubscriptionInit => SubscriptionTypeOK
  BY NotWritingShape, DaysAssumption DEF SubscriptionInit, SubscriptionTypeOK, Writer, Days
<1>2. SubscriptionInit => MirrorAgrees /\ RecoveryClears
  BY DEF SubscriptionInit, MirrorAgrees, RecoveryClears, NoRow
<1>3. QED
  BY <1>1, <1>2 DEF SubscriptionInv

\* A step of the claims is a step of one request.
LEMMA OneClerkMoves ==
    ASSUME ClaimsShape, ClaimsNext
    PROVE  \E p : \A q \in Clerks : q # p => clerks'[q] = clerks[q]
<1>0. clerks \in [Clerks -> Clerk]
  BY DEF ClaimsShape
<1>1. CASE clerks' = clerks
  BY <1>1
<1>2. ASSUME NEW p \in Clerks, NEW r, clerks' = [clerks EXCEPT ![p] = r]
      PROVE  \E x : \A q \in Clerks : q # x => clerks'[q] = clerks[q]
  BY <1>0, <1>2
<1>3. ASSUME NEW p \in Clerks,
             \/ TriageWrite(p) \/ Credit(p) \/ Price(p) \/ Gate(p) \/ LoseRequest(p)
             \/ \E c \in ClaimIds, to \in Unresolved \cup {"none"} : TriageRead(p, c, to)
             \/ \E c \in ClaimIds, resolution \in Resolutions, amount \in Amounts \cup {0},
                   comp \in BOOLEAN : ResolveRead(p, c, resolution, amount, comp)
      PROVE  \A q \in Clerks : q # p => clerks'[q] = clerks[q]
  BY <1>0, <1>3 DEF TriageWrite, Credit, Price, Gate, LoseRequest, Leave, TriageRead, ResolveRead
<1>4. QED
  BY <1>1, <1>3 DEF ClaimsNext, Open, Deposit

LEMMA FewAtWork ==
    ASSUME ClaimsShape, ClaimsNext, IsFiniteSet(AtWork)
    PROVE  IsFiniteSet(AtWork')
<1>1. PICK p : \A q \in Clerks : q # p => clerks'[q] = clerks[q]
  BY OneClerkMoves
<1>2. AtWork' \subseteq AtWork \cup {p}
  BY <1>1 DEF AtWork
<1>3. IsFiniteSet(AtWork \cup {p})
  BY FS_AddElement
<1>4. QED
  BY <1>2, <1>3, FS_Subset

\* Where the scenario has one request at a time, two at work are the same.
LEMMA QueueIsAlone ==
    ASSUME At({"queue"}), UNCHANGED scenario, Follows', IsFiniteSet(AtWork')
    PROVE  ClerkAlone'
<1>1. Cardinality(AtWork') <= 1
  BY DEF Follows, At, AtWork
<1>2. SUFFICES ASSUME NEW p \in Clerks, NEW q \in Clerks, clerks'[p] # AtRest,
                      clerks'[q] # AtRest, p # q
               PROVE  FALSE
  BY DEF ClerkAlone
<1>3. {p, q} \subseteq AtWork'
  BY <1>2 DEF AtWork
<1>4. Cardinality({p, q}) <= Cardinality(AtWork')
  BY <1>3, FS_Subset
<1>5. Cardinality({p, q}) = 2
  <2>1. IsFiniteSet({p}) /\ Cardinality({p}) = 1
    BY FS_Singleton
  <2>2. q \notin {p} /\ {p} \cup {q} = {p, q}
    BY <1>2
  <2>3. Cardinality({p} \cup {q}) = Cardinality({p}) + 1
    BY <2>1, <2>2, FS_AddElement
  <2>4. QED
    BY <2>1, <2>2, <2>3
<1>6. Cardinality(AtWork') \in Nat
  BY FS_CardinalityType
<1>7. QED
  BY <1>1, <1>4, <1>5, <1>6

\* The scenarios without a triage, and those with one request at a time, have
\* no triage that meets another request.
LEMMA NoTriageMeets ==
    ASSUME At({"resolutions", "queue"}), UNCHANGED scenario, Follows', IsFiniteSet(AtWork')
    PROVE  TriageAlone'
<1>1. CASE At({"resolutions"})
  <2>1. \A p \in Clerks : clerks'[p].pc # "triage"
    BY <1>1 DEF Follows, At
  <2>2. QED
    BY <2>1 DEF TriageAlone
<1>2. CASE At({"queue"})
  <2>1. ClerkAlone'
    BY <1>2, QueueIsAlone
  <2>2. \A p \in Clerks : clerks'[p].pc = "triage" => clerks'[p] # AtRest
    BY RestShape
  <2>3. QED
    BY <2>1, <2>2 DEF ClerkAlone, TriageAlone
<1>3. QED
  BY <1>1, <1>2 DEF At

LEMMA AccountInvInit == MCInit => AccountInv
<1> SUFFICES ASSUME MCInit PROVE AccountInv
  OBVIOUS
<1>1. ClaimsInv /\ SerialInv /\ WebhooksInv /\ SubscriptionInv
  BY ClaimsInvInit, SerialInvInit, WebhooksInvInit, MembershipInit DEF MCInit
<1>2. NoClaims /\ NoEvents /\ ledger = <<>>
  BY DEF MCInit, ClaimsInit, WebhooksInit, NoClaims, NoEvents
<1>3. IsFiniteSet(AtWork)
  <2>1. AtWork = {}
    BY RestShape DEF MCInit, ClaimsInit, AtWork
  <2>2. QED
    BY <2>1, FS_EmptySet
<1>4. QED
  BY <1>1, <1>2, <1>3 DEF AccountInv, Serial, MCInit

LEMMA AccountInvStep ==
    ASSUME AccountInv, [MCNext]_accountVars
    PROVE  AccountInv'
<1>0. UNCHANGED scenario
  BY DEF MCNext, accountVars
<1>1. CASE UNCHANGED accountVars
  <2>1. UNCHANGED claimVars /\ UNCHANGED <<ledger, eventTables>> /\ UNCHANGED subscriptionVars
    BY <1>1 DEF accountVars, claimTables, claimVars
  <2>2. QED
    BY <1>0, <2>1, ClaimsUntouched, EventsUntouched, MembershipUntouched
       DEF AccountInv, Serial, Claiming, At, claimVars
<1>2. ASSUME Claiming, ClaimsNext, Follows', UNCHANGED <<eventTables, subscriptionVars>>
      PROVE  AccountInv'
  <2>1. ClaimsInv /\ ClaimsInv' /\ ClaimsShape
    BY <1>2, ClaimsInvStep DEF AccountInv, ClaimsInv
  <2>2. ~At({"events"}) /\ NoEvents'
    BY <1>2 DEF AccountInv, Claiming, At, NoEvents, eventTables
  <2>3. SubscriptionInv'
    BY <1>2, MembershipUntouched DEF AccountInv
  <2>4. Serial'
    <3>1. SUFFICES ASSUME At({"resolutions", "queue"}) PROVE SerialInv' /\ IsFiniteSet(AtWork')
      BY <1>0 DEF Serial, At
    <3>2. SerialInv /\ IsFiniteSet(AtWork)
      BY <3>1 DEF AccountInv, Serial
    <3>3. IsFiniteSet(AtWork')
      BY <1>2, <2>1, <3>2, FewAtWork
    <3>4. TriageAlone'
      BY <1>0, <1>2, <3>1, <3>3, NoTriageMeets
    <3>5. QED
      BY <1>2, <3>2, <3>3, <3>4, SerialInvStep
  <2>5. QED
    BY <1>0, <1>2, <2>1, <2>2, <2>3, <2>4 DEF AccountInv, Claiming, At
<1>3. ASSUME At({"events"}), WebhooksNext, UNCHANGED <<claimTables, subscriptionVars>>
      PROVE  AccountInv'
  <2>1. ~Claiming /\ WebhooksInv' /\ NoClaims'
    BY <1>3, WebhooksInvStep DEF AccountInv, Claiming, At, NoClaims, claimTables
  <2>2. SubscriptionInv'
    BY <1>3, MembershipUntouched DEF AccountInv
  <2>3. QED
    BY <1>0, <1>3, <2>1, <2>2 DEF AccountInv, Claiming, At, Serial
<1>4. ASSUME At({"membership", "drawer", "checkout"}),
             UNCHANGED <<ledger, claimTables, eventTables>>,
             SubscriptionNext \/ UNCHANGED subscriptionVars
      PROVE  AccountInv'
  <2>1. ~Claiming /\ ~At({"events"}) /\ ledger = <<>> /\ NoClaims /\ NoEvents
    BY <1>4 DEF AccountInv, Claiming, At
  <2>2. UNCHANGED claimVars
    BY <1>4 DEF claimTables, claimVars
  <2>3. NoClaims' /\ NoEvents' /\ ledger' = <<>>
    BY <1>4, <2>1, <2>2, ClaimsUntouched, EventsUntouched
  <2>4. SubscriptionInv'
    BY <1>4, SubscriptionStep, MembershipUntouched DEF AccountInv
  <2>5. QED
    BY <1>0, <1>4, <2>1, <2>3, <2>4 DEF AccountInv, Claiming, At, Serial
<1>5. QED
  BY <1>1, <1>2, <1>3, <1>4 DEF MCNext, Claiming, At

LEMMA AccountInvHolds == MCSpec => []AccountInv
<1>1. QED
  BY AccountInvInit, AccountInvStep, PTL DEF MCSpec, accountVars

\* However claims, top-ups and their events share the ledger of the brand, a
\* claim is credited and a top-up booked at most once (MCAccounts.PaidOnce).
THEOREM AccountPaidOnce == MCSpec => []PaidOnce
<1>1. AccountInv => PaidOnce
  <2> SUFFICES ASSUME AccountInv PROVE PaidOnce
    OBVIOUS
  <2>1. \E S : ledger \in Seq(S)
    <3>1. CASE Claiming
      BY <3>1 DEF AccountInv, ClaimsInv, ClaimsShape
    <3>2. CASE At({"events"})
      BY <3>2 DEF AccountInv, WebhooksInv, WebhooksTypeOK, Claiming, At
    <3>3. CASE ledger = <<>>
      <4>1. ledger \in Seq({})
        BY <3>3
      <4>2. QED
        BY <4>1
    <3>4. QED
      BY <3>1, <3>2, <3>3 DEF AccountInv
  <2>2. UniqueKeys
    BY DEF AccountInv, ClaimsInv, WebhooksInv, UniqueKeys
  <2>3. QED
    BY <2>1, <2>2, UniqueKeysCreditOnce, UniqueKeysDepositOnce DEF PaidOnce
<1>2. QED
  BY <1>1, AccountInvHolds, PTL

\* No event is settled that was not applied, whatever else happens to the
\* account of the brand (webhook.ts:89).
THEOREM AccountNothingLost == MCSpec => []NothingLost
<1>1. AccountInv => NothingLost
  BY DEF AccountInv, WebhooksInv, NoEvents, NothingLost
<1>2. QED
  BY <1>1, AccountInvHolds, PTL

\* Whichever of its four writers wrote last, the mirror of the membership and
\* its dunning date agree with its status (subscription.ts:55-89).
THEOREM AccountMembershipAgrees == MCSpec => []MembershipAgrees
<1>1. AccountInv => MembershipAgrees
  BY DEF AccountInv, SubscriptionInv, MembershipAgrees
<1>2. QED
  BY <1>1, AccountInvHolds, PTL

\* As long as no triage meets a resolution, a resolved claim has the remedy
\* that it says, and no remedy is without its claim (claims.ts:58).
THEOREM AccountRemedyGiven ==
    ASSUME "triage" \notin Scenarios
    PROVE  MCSpec => []RemedyGiven
<1>1. AccountInv => RemedyGiven
  <2> SUFFICES ASSUME AccountInv PROVE RemedyGiven
    OBVIOUS
  <2>1. CASE At({"resolutions", "queue"})
    BY <2>1 DEF AccountInv, Serial, SerialInv, ClaimsInv, RemedyGiven
  <2>2. CASE ~Claiming
    BY <2>2 DEF AccountInv, NoClaims, NoClaim, RemedyGiven, CreditedIsBooked, NoOrphanReship
  <2>3. QED
    BY <2>1, <2>2 DEF AccountInv, Claiming, At
<1>2. QED
  BY <1>1, AccountInvHolds, PTL

\* As long as no triage meets a resolution, the remedy of a claim is decided
\* once (claims.ts:57-75).
THEOREM AccountResolvedIsFinal ==
    ASSUME "triage" \notin Scenarios
    PROVE  MCSpec => ResolvedIsFinal
<1>1. AccountInv /\ [MCNext]_accountVars
        => [\A c \in ClaimIds :
              claims[c].status = "resolved" => claims'[c] = claims[c]]_claimVars
  <2> SUFFICES ASSUME AccountInv, MCNext, NEW c \in ClaimIds, claims[c].status = "resolved"
               PROVE  claims'[c] = claims[c]
    BY DEF accountVars, claimTables, claimVars
  <2>1. CASE ClaimsNext /\ Claiming
    <3>1. At({"resolutions", "queue"})
      BY <2>1 DEF AccountInv, Claiming, At
    <3>2. ClaimsShape /\ TriageIsFresh
      BY <3>1 DEF AccountInv, Serial, SerialInv, ClaimsInv
    <3>3. QED
      BY <2>1, <3>2, ResolvedStays
  <2>2. CASE UNCHANGED claimTables
    BY <2>2 DEF claimTables
  <2>3. QED
    BY <2>1, <2>2 DEF MCNext, Claiming
<1>2. QED
  BY <1>1, AccountInvHolds, PTL DEF MCSpec, accountVars, ResolvedIsFinal

\* One request at a time, and what it saw of the wallet still there.
Queued == At({"queue"}) => ClerkAlone /\ CoveredAtGate /\ ReshipBacked

LEMMA QueuedStep ==
    ASSUME AccountInv, AccountInv', Queued, [MCNext]_accountVars
    PROVE  Queued'
<1>0. UNCHANGED scenario
  BY DEF MCNext, accountVars
<1>1. SUFFICES ASSUME At({"queue"}) PROVE ClerkAlone' /\ CoveredAtGate' /\ ReshipBacked'
  BY <1>0 DEF Queued, At
<1>2. ClerkAlone /\ CoveredAtGate /\ ReshipBacked /\ ClaimsShape /\ IsFiniteSet(AtWork')
  BY <1>0, <1>1 DEF Queued, AccountInv, Claiming, Serial, ClaimsInv, At
<1>3. CASE ClaimsNext /\ Follows'
  <2>1. ClerkAlone'
    BY <1>0, <1>1, <1>2, <1>3, QueueIsAlone
  <2>2. QED
    BY <1>2, <1>3, <2>1, CoveredStep
<1>4. CASE UNCHANGED accountVars
  <2>1. Held' = Held /\ GetBalance' = GetBalance /\ UNCHANGED clerks
    BY <1>2, <1>4, ClaimBalance DEF accountVars, claimTables
  <2>2. QED
    BY <1>2, <2>1 DEF ClerkAlone, CoveredAtGate, ReshipBacked
<1>5. QED
  BY <1>1, <1>3, <1>4 DEF MCNext, At

\* As long as one request of claims is at work at a time, what the second
\* shipments hold is in the wallet of the brand (wallet.ts:13): the look at the
\* money, outside the transaction that creates the order, is still true then.
THEOREM AccountQueueIsBacked == MCSpec => []QueueIsBacked
<1>1. MCInit => Queued
  BY CoveredInit DEF MCInit, Queued
<1>2. Queued => QueueIsBacked
  BY DEF Queued, QueueIsBacked
<1>3. QED
  BY <1>1, <1>2, QueuedStep, AccountInvHolds, PTL DEF MCSpec, accountVars

LEMMA QuotesKept == MCSpec => []QuotesInv
<1>1. MCInit => QuotesInv
  BY QuotesInvInit DEF MCInit
<1>2. QuotesInv /\ [MCNext]_accountVars => QuotesInv'
  BY RatesStep, DrawerStep, StoreStep, QuotesUntouched DEF MCNext, accountVars
<1>3. QED
  BY <1>1, <1>2, PTL DEF MCSpec, accountVars

\* In whatever order the quotes of the order drawer are answered, and however
\* the checkouts of a cart, the carriers' rates and the fees of the brand move,
\* the drawer shows the price of what its form holds, an order costs the
\* shipping that was shown for it, and no parcel is priced as another one
\* (Orders.tsx:366, rate-quote.ts:36-59, rate-cache.ts:20).
THEOREM AccountPriceIsHonoured == MCSpec => []PriceIsHonoured
<1>1. QuotesInv => PriceIsHonoured
  BY QuotesHonoured DEF PriceIsHonoured
<1>2. QED
  BY <1>1, QuotesKept, PTL

\* The state of an account keeps its type: the claims and their second
\* shipments, the events, the membership and the quotes.
THEOREM AccountTyped == MCSpec => []TypeOK
<1>1. AccountInv /\ QuotesInv => TypeOK
  <2>1. ASSUME ClaimsShape PROVE ClaimsTypeOK
    BY <2>1 DEF ClaimsShape, ClaimsTypeOK, ClaimKeys, Clerk
  <2>2. QED
    BY <2>1, QuotesHonoured
       DEF AccountInv, Claiming, ClaimsInv, WebhooksInv, SubscriptionInv, TypeOK, At
<1>2. QED
  BY <1>1, AccountInvHolds, QuotesKept, PTL
=============================================================================
