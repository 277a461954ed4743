------------------------------ MODULE Webhooks ------------------------------
(***************************************************************************)
(* Webhook events, from the first delivery until they are settled: the     *)
(* Stripe receiver (routes/webhook.ts), the WooCommerce receiver           *)
(* (routes/woo-webhook.ts) and the reconciliation worker that dispatches   *)
(* again what got stuck (services/reconciliation.ts).                      *)
(*                                                                         *)
(* The senders deliver an event again until they are answered with a 2xx,  *)
(* in any order, also while an earlier delivery is still being handled.    *)
(* Receivers and worker share the webhook_event table and nothing locks a  *)
(* row of it.  All of them are handlers of one Node process, which may be  *)
(* restarted at any time.                                                  *)
(***************************************************************************)
EXTENDS Wallet, FiniteSets, SequencesExt

CONSTANTS
    LastEvent,      \* events are 1..LastEvent, in the order they happened
    Kind,           \* what each of them reports
    Amount,         \* amount of a top-up
    Handlers,       \* deliveries that can be handled at once
    Workers,        \* reconciliation runs that can overlap
    MaxAttempts,    \* MAX_WEBHOOK_ATTEMPTS
    Batch,          \* how many events a run takes (100 in the code)
    MaxRestarts,    \* bound on the restarts of the server
    InOrder         \* the sender makes first deliveries in order

Events == 1..LastEvent
Runs == Handlers \cup Workers
EventKinds == {"topup", "subscription", "order", "other"}

ASSUME EventsAssumption ==
    LastEvent \in Nat /\ Kind \in [Events -> EventKinds] /\ InOrder \in BOOLEAN
ASSUME LimitsAssumption ==
    /\ Amount \in Nat \ {0} /\ MaxAttempts \in Nat \ {0}
    /\ Batch \in Nat \ {0} /\ MaxRestarts \in Nat
ASSUME RunsAssumption == Handlers \cap Workers = {}
ASSUME KeysAssumption == \A e \in Events : TopUpKey(e) # NoKey

VARIABLES
    rows,       \* webhook_event, by event
    arrived,    \* the events of the table by createdAt
    aged,       \* events whose row is older than RETRY_GRACE_MS
    runs,      \* what each handler and each run of the worker is doing
    todo,       \* what a run of the worker has listed and not yet taken
    answer,     \* the 2xx that stopped the sender of an event, if any
    sub,        \* subscription event the brand's membership reflects, 0: none
    imported,   \* order events whose order exists
    conn,       \* status of the store connection
    restarts    \* how often the server was restarted

tables == <<ledger, sub, imported, conn>>
webhookVars == <<tables, rows, arrived, aged, runs, todo, answer, restarts>>

-----------------------------------------------------------------------------

\* attempts counts up to MaxAttempts, beyond which nothing tells it apart.
EventRow ==
    [status: {"none", "received", "failed", "processed"},
     attempts: 0..MaxAttempts]

NoRun == [pc |-> "idle", event |-> 0, ok |-> TRUE]

WebhooksTypeOK ==
    /\ ledger \in Seq(Entry({TopUpKey(e) : e \in Events}))
    /\ rows \in [Events -> EventRow]
    /\ arrived \in Seq(Events) /\ IsInjective(arrived)
    /\ \A e \in Events : rows[e].status # "none" <=> e \in ToSet(arrived)
    /\ aged \subseteq ToSet(arrived)
    /\ runs \in [Runs ->
         [pc: {"idle", "persist", "lookup", "dispatch", "audit", "mark"},
          event: Events \cup {0}, ok: BOOLEAN]]
    /\ \A p \in Runs : runs[p].event = 0 <=> runs[p] = NoRun
    /\ todo \in [Workers -> Seq(Events)]
    /\ answer \in [Events -> {"none", "ok", "store disabled"}]
    /\ sub = 0 \/ Kind[sub] = "subscription"
    /\ imported \subseteq {e \in Events : Kind[e] = "order"}
    /\ conn \in {"active", "disabled"}

WebhooksInit ==
    /\ ledger = <<>>
    /\ rows = [e \in Events |-> [status |-> "none", attempts |-> 0]]
    /\ arrived = <<>>
    /\ aged = {}
    /\ runs = [p \in Runs |-> NoRun]
    /\ todo = [w \in Workers |-> <<>>]
    /\ answer = [e \in Events |-> "none"]
    /\ sub = 0
    /\ imported = {}
    /\ conn = "active"
    /\ restarts = 0

-----------------------------------------------------------------------------

ToStep(p, pc) == runs' = [runs EXCEPT ![p].pc = pc]

\* The dispatch of p's event returns, or throws.
Return(p, ok) == runs' = [runs EXCEPT ![p].pc = "mark", ![p].ok = ok]

EndRun(p) == runs' = [runs EXCEPT ![p] = NoRun]

\* The sender delivers an event.  A disabled store is answered at once: its
\* order is not wanted, and the sender stops.
Deliver(h, e) ==
    /\ runs[h] = NoRun
    /\ answer[e] = "none"
    /\ InOrder => \A d \in 1..(e - 1) : answer[d] # "none" \/ rows[d].status # "none"
    /\ IF Kind[e] = "order" /\ conn = "disabled"
       THEN answer' = [answer EXCEPT ![e] = "store disabled"] /\ UNCHANGED runs
       ELSE /\ runs' = [runs EXCEPT ![h] = [NoRun EXCEPT !.pc = "persist", !.event = e]]
            /\ UNCHANGED answer
    /\ UNCHANGED <<tables, rows, arrived, aged, todo, restarts>>

\* Without the unique key (source, external_id).
PersistUnindexed(h) ==
    LET e == runs[h].event IN
    /\ runs[h].pc = "persist"
    /\ rows' = [rows EXCEPT ![e].status = "received"]
    /\ arrived' = Append(arrived, e)
    /\ ToStep(h, "dispatch")
    /\ UNCHANGED <<tables, aged, todo, answer, restarts>>

\* The row is inserted, or its unique key is found taken.
Persist(h) ==
    LET e == runs[h].event IN
    /\ runs[h].pc = "persist"
    /\ IF rows[e].status = "none"
       THEN /\ rows' = [rows EXCEPT ![e].status = "received"]
            /\ arrived' = Append(arrived, e)
            /\ ToStep(h, "dispatch")
       ELSE ToStep(h, "lookup") /\ UNCHANGED <<rows, arrived>>
    /\ UNCHANGED <<tables, aged, todo, answer, restarts>>

\* Without the retry of an event that is there but not processed.
LookupAcksAll(h) ==
    /\ runs[h].pc = "lookup"
    /\ answer' = [answer EXCEPT ![runs[h].event] = "ok"]
    /\ EndRun(h)
    /\ UNCHANGED <<tables, rows, arrived, aged, todo, restarts>>

\* An event that is there already is acknowledged if it was processed, and
\* dispatched again if not.
Lookup(h) ==
    LET e == runs[h].event IN
    /\ runs[h].pc = "lookup"
    /\ IF rows[e].status = "processed"
       THEN answer' = [answer EXCEPT ![e] = "ok"] /\ EndRun(h)
       ELSE ToStep(h, "dispatch") /\ UNCHANGED answer
    /\ UNCHANGED <<tables, rows, arrived, aged, todo, restarts>>

-----------------------------------------------------------------------------

\* dispatch and importWooOrder, by kind.  A top-up is appended under the
\* event's id; a subscription event is written over the membership, whatever
\* was written before; an order that exists is left alone; other events
\* change nothing.  A deposit that is new, and every change of a membership,
\* is audited after it was committed.
Dispatch(p) ==
    LET e == runs[p].event IN
    /\ runs[p].pc = "dispatch"
    /\ \/ /\ Kind[e] = "topup"
          /\ AppendEntry("deposit", Amount, TopUpKey(e))
          /\ IF Duplicate(TopUpKey(e)) THEN Return(p, TRUE) ELSE ToStep(p, "audit")
          /\ UNCHANGED <<sub, imported>>
       \/ /\ Kind[e] = "subscription"
          /\ sub' = e
          /\ ToStep(p, "audit")
          /\ UNCHANGED <<ledger, imported>>
       \/ /\ Kind[e] = "order"
          /\ imported' = imported \cup {e}
          /\ Return(p, TRUE)
          /\ UNCHANGED <<ledger, sub>>
       \/ /\ Kind[e] = "other"
          /\ Return(p, TRUE)
          /\ UNCHANGED <<ledger, sub, imported>>
    /\ UNCHANGED <<rows, arrived, aged, todo, answer, conn, restarts>>

\* The audit row, which nothing reads, is written.
Audit(p) ==
    /\ runs[p].pc = "audit"
    /\ Return(p, TRUE)
    /\ UNCHANGED <<tables, rows, arrived, aged, todo, answer, restarts>>

\* The dispatch, or the audit after it, throws: nothing of the statement that
\* threw is committed.
Throw(p) ==
    /\ runs[p].pc \in {"dispatch", "audit"}
    /\ Return(p, FALSE)
    /\ UNCHANGED <<tables, rows, arrived, aged, todo, answer, restarts>>

\* The row after an attempt, whatever another attempt has made of it.
Attempted(row, ok) ==
    [status |-> IF ok THEN "processed" ELSE "failed",
     attempts |-> IF row.attempts < MaxAttempts THEN row.attempts + 1 ELSE MaxAttempts]

\* The receiver records the attempt and answers 200 or 500; the answer may be
\* lost on its way.
MarkDelivery(h) ==
    LET e == runs[h].event IN
    /\ h \in Handlers
    /\ runs[h].pc = "mark"
    /\ rows' = [rows EXCEPT ![e] = Attempted(@, runs[h].ok)]
    /\ \/ runs[h].ok /\ answer' = [answer EXCEPT ![e] = "ok"]
       \/ UNCHANGED answer
    /\ EndRun(h)
    /\ UNCHANGED <<tables, arrived, aged, todo, restarts>>

-----------------------------------------------------------------------------

\* What a run lists, but for events that were received and never finished.
StuckFailed(e) ==
    e \in aged /\ rows[e].status = "failed" /\ rows[e].attempts < MaxAttempts

\* An event that is old enough, not processed, and has attempts left.
Stuck(e) ==
    /\ e \in aged
    /\ rows[e].status \in {"received", "failed"}
    /\ rows[e].attempts < MaxAttempts

\* The places of the stuck events, in the order they arrived in.
StuckPlaces == {i \in DOMAIN arrived : Stuck(arrived[i])}

\* retryStuckWebhooks lists the oldest of them, once for the whole run ...
Tick(w) ==
    /\ runs[w] = NoRun
    /\ todo[w] = <<>>
    /\ \E n \in 1..Batch : \E list \in [1..n -> StuckPlaces] :
          /\ \A i, j \in 1..n : i < j => list[i] < list[j]
          /\ \A i \in StuckPlaces \ {list[j] : j \in 1..n} : n = Batch /\ list[n] < i
          /\ todo' = [todo EXCEPT ![w] = [j \in 1..n |-> arrived[list[j]]]]
    /\ UNCHANGED <<tables, rows, arrived, aged, runs, answer, restarts>>

\* ... and dispatches one after the other, as they were listed.  The store
\* connection of an order is looked up and its status is not.
Take(w) ==
    /\ runs[w] = NoRun
    /\ todo[w] # <<>>
    /\ runs' = [runs EXCEPT ![w] = [NoRun EXCEPT !.pc = "dispatch",
                                                  !.event = Head(todo[w])]]
    /\ todo' = [todo EXCEPT ![w] = Tail(@)]
    /\ UNCHANGED <<tables, rows, arrived, aged, answer, restarts>>

MarkRetry(w) ==
    /\ w \in Workers
    /\ runs[w].pc = "mark"
    /\ rows' = [rows EXCEPT ![runs[w].event] = Attempted(@, runs[w].ok)]
    /\ EndRun(w)
    /\ UNCHANGED <<tables, arrived, aged, todo, answer, restarts>>

-----------------------------------------------------------------------------

\* Two minutes go by after an event arrived.
Age(e) ==
    /\ e \in ToSet(arrived) \ aged
    /\ aged' = aged \cup {e}
    /\ UNCHANGED <<tables, rows, arrived, runs, todo, answer, restarts>>

\* An operator disables the store connection, in the database.
Disable ==
    /\ \E e \in Events : Kind[e] = "order"
    /\ conn' = "disabled"
    /\ UNCHANGED <<ledger, sub, imported, rows, arrived, aged, runs,
                   todo, answer, restarts>>

\* The brand tests its store, which leaves it enabled, disabled or not.  (A
\* connection whose keys fail is in error, which disables nothing.)
TestStore ==
    /\ conn' = "active"
    /\ UNCHANGED <<ledger, sub, imported, rows, arrived, aged, runs,
                   todo, answer, restarts>>

\* The server stops and starts: every handler and every run is gone.
Restart ==
    /\ restarts < MaxRestarts
    /\ restarts' = restarts + 1
    /\ runs' = [p \in Runs |-> NoRun]
    /\ todo' = [w \in Workers |-> <<>>]
    /\ UNCHANGED <<tables, rows, arrived, aged, answer>>

Work(w) ==
    Tick(w) \/ Take(w) \/ Dispatch(w) \/ Audit(w) \/ Throw(w) \/ MarkRetry(w)

Handle(h) ==
    \/ Persist(h) \/ Lookup(h) \/ Dispatch(h) \/ Audit(h) \/ Throw(h)
    \/ MarkDelivery(h)

WebhooksNext ==
    \/ \E h \in Handlers, e \in Events : Deliver(h, e)
    \/ \E h \in Handlers : Handle(h)
    \/ \E w \in Workers : Work(w)
    \/ \E e \in Events : Age(e)
    \/ Disable \/ TestStore
    \/ Restart

-----------------------------------------------------------------------------

\* What an event was sent for has happened.
Applied(e) ==
    CASE Kind[e] = "topup" -> Booked(TopUpKey(e))
      [] Kind[e] = "subscription" -> sub # 0
      [] Kind[e] = "order" -> e \in imported
      [] OTHER -> TRUE

\* A top-up is booked once, however often its event is delivered, and however
\* many deliveries and runs of the worker dispatch it at the same time
\* (webhook.ts:89).
DepositOnce ==
    \A e \in Events :
        Cardinality({i \in DOMAIN ledger : ledger[i].key = TopUpKey(e)}) <= 1

\* Nothing is lost: an event that the system stops working on (marked as
\* processed, or answered with ok, so that it is not sent again) has been
\* applied, whatever attempts failed before or after.
NothingLost ==
    \A e \in Events :
        \/ rows[e].status = "processed"
        \/ answer[e] = "ok"
        => Applied(e)

\* Every event that has been received is processed or dead-lettered, even if
\* its sender never sends it again and the handler died on it
\* (reconciliation.ts: "heal missed/failed webhooks").
EventuallySettled ==
    \A e \in Events :
        rows[e].status # "none"
            ~> (rows[e].status = "processed" \/ rows[e].attempts = MaxAttempts)

\* Dispatching an event again is safe: it does not take the membership back
\* to an earlier event (reconciliation.ts:9, webhook.ts:89).
RerunsAreSafe == [][sub' >= sub]_webhookVars

=============================================================================
