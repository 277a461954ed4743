---------------------------- MODULE Subscription ----------------------------
(***************************************************************************)
(* The membership of one brand (services/subscription.ts): what billing    *)
(* webhooks (routes/webhook.ts) and administrators (admin-brands.ts) write *)
(* to it, and the two hourly workers that end it: the lapse sweep, when    *)
(* the paid-through date has passed, and dunning (services/dunning.ts),    *)
(* when a failed payment was not made good in time.  Each worker lists the *)
(* memberships first and goes through the list afterwards, so a membership *)
(* can change between the list and the write.                              *)
(***************************************************************************)
EXTENDS Integers, FiniteSets

CONSTANTS
    Writers,          \* requests and sweeps that can be in flight at once
    LapseGrace,     \* LAPSE_GRACE_DAYS (3)
    DunningGrace,   \* DUNNING_GRACE_DAYS (7 by default)
    MaxDay,         \* bound on the days of a behaviour
    LastEventDay,   \* bound on the days on which payments are reported
    Never,          \* a date that is null
    Keep,           \* a date or a plan that an update omits
    Ops             \* the operations a run allows, by name

ASSUME GraceAssumption == LapseGrace \in Nat /\ DunningGrace \in Nat
\* The bounds leave a day after the last payment, so that a membership can end.
ASSUME DaysAssumption ==
    MaxDay \in Nat /\ LastEventDay \in 0..MaxDay - 1 /\ Never \notin Nat

VARIABLES
    today,      \* the day it is
    row,        \* subscription_state of the brand
    mirror,     \* subscription_status of the brand: pro or none
    writers       \* what each request or sweep is doing

subscriptionVars == <<today, row, mirror, writers>>

-----------------------------------------------------------------------------

Days == 0..MaxDay
Plans == {"starter", "pro"}
Statuses == {"active", "past_due", "expired", "cancelled", "suspended"}

StateRow ==
    [status: Statuses \cup {"absent"}, plan: Plans, end: Days \cup {Never},
     pastDueSince: Days \cup {Never}, notified: BOOLEAN]

NoRow ==
    [status |-> "absent", plan |-> "starter", end |-> Never,
     pastDueSince |-> Never, notified |-> FALSE]

\* What an upsert is asked to write; Keep is a field that it omits.
Update ==
    [status: Statuses, plan: Plans \cup {Keep}, end: Days \cup {Never, Keep}]

NoUpdate == [status |-> "active", plan |-> Keep, end |-> Keep]

NotWriting == [pc |-> "idle", via |-> "none", update |-> NoUpdate, seen |-> "absent",
         overdue |-> FALSE]

SubscriptionTypeOK ==
    /\ today \in Days
    /\ row \in StateRow
    /\ mirror \in {"pro", "none"}
    /\ writers \in [Writers ->
         [pc: {"idle", "read", "write", "notify"},
          via: {"none", "event", "grant", "lapse", "dunning"},
          update: Update, seen: Statuses \cup {"absent"}, overdue: BOOLEAN]]

SubscriptionInit ==
    /\ today = 0
    /\ row = NoRow
    /\ mirror = "none"
    /\ writers = [p \in Writers |-> NotWriting]

-----------------------------------------------------------------------------

Allowed(op) == op \in Ops

Finish(p) == writers' = [writers EXCEPT ![p] = NotWriting]

\* A request or a sweep goes on to upsertSubscriptionState.
Upsert(p, via, update) ==
    writers' = [writers EXCEPT ![p] = [NotWriting EXCEPT !.pc = "read", !.via = via,
                                               !.update = update]]

\* The paid-through date has passed by more than the grace margin.
Lapsed == row.end # Never /\ today > row.end + LapseGrace

\* What the brand is entitled to.
EffectivePlan ==
    IF row.status \in {"active", "past_due"} /\ ~Lapsed
    THEN row.plan ELSE "starter"

\* A payment that failed on `since` has used up its grace.
Overdue(since) == since # Never /\ today - since >= DunningGrace

-----------------------------------------------------------------------------

\* A billing webhook reports the subscription.  The price may not resolve to a
\* tier, and only an activation carries the paid-through date (or lacks it).
Event(p, status, plan, end) ==
    /\ writers[p] = NotWriting
    /\ today <= LastEventDay
    /\ status # "expired"
    /\ end = Keep <=> status # "active"
    /\ Upsert(p, "event", [status |-> status, plan |-> plan, end |-> end])
    /\ UNCHANGED <<today, row, mirror>>

\* An administrator records a payment, or grants a membership without an end.
Grant(p, plan, end) ==
    /\ writers[p] = NotWriting
    /\ today <= LastEventDay
    /\ end # Never => end >= today
    /\ Upsert(p, "grant", [status |-> "active", plan |-> plan, end |-> end])
    /\ UNCHANGED <<today, row, mirror>>

\* The upsert reads the status, and throws if there is no row and no tier.
UpsertRead(p) ==
    /\ writers[p].pc = "read"
    /\ IF row.status = "absent" /\ writers[p].update.plan = Keep
       THEN Finish(p)
       ELSE writers' = [writers EXCEPT ![p].pc = "write", ![p].seen = row.status]
    /\ UNCHANGED <<today, row, mirror>>

\* A payment that recovers leaves the dunning dates as they are.
DunningNotCleared(status, seen) ==
    IF status = "past_due" /\ seen # "past_due"
    THEN [pastDueSince |-> today, notified |-> FALSE]
    ELSE [pastDueSince |-> row.pastDueSince, notified |-> row.notified]

\* The dunning dates: stamped when past_due is entered (from the status that
\* was read), cleared when the payment recovers, kept otherwise.
Dunning(status, seen) ==
    CASE status = "past_due" /\ seen # "past_due" ->
            [pastDueSince |-> today, notified |-> FALSE]
      [] status = "active" ->
            [pastDueSince |-> Never, notified |-> FALSE]
      [] OTHER ->
            [pastDueSince |-> row.pastDueSince, notified |-> row.notified]

\* The row that the upsert leaves.
Upserted(u, seen) ==
    [status |-> u.status,
     plan |-> IF u.plan = Keep THEN row.plan ELSE u.plan,
     end |-> IF u.end = Keep THEN row.end ELSE u.end,
     pastDueSince |-> Dunning(u.status, seen).pastDueSince,
     notified |-> Dunning(u.status, seen).notified]

\* The mirror is taken from the update and not from the row.
MirrorOfUpdate(p) ==
    /\ writers[p].pc = "write"
    /\ row' = Upserted(writers[p].update, writers[p].seen)
    /\ mirror' = IF writers[p].update.status = "active" /\ writers[p].update.plan # "starter"
                 THEN "pro" ELSE "none"
    /\ Finish(p)
    /\ UNCHANGED today

\* The upsert and the brand's mirror commit together.
UpsertWrite(p) ==
    /\ writers[p].pc = "write"
    /\ row' = Upserted(writers[p].update, writers[p].seen)
    /\ mirror' = IF row'.status = "active" /\ row'.plan # "starter"
                 THEN "pro" ELSE "none"
    /\ Finish(p)
    /\ UNCHANGED today

-----------------------------------------------------------------------------

\* A sweep that leaves the memberships it thinks are paid.
LapseListPastDue(p) ==
    /\ writers[p] = NotWriting
    /\ row.status = "past_due" /\ Lapsed
    /\ Upsert(p, "lapse", [status |-> "expired", plan |-> row.plan, end |-> Keep])
    /\ UNCHANGED <<today, row, mirror>>

\* sweepLapsedSubscriptions lists the memberships that lapsed; each is
\* expired, on the plan it was listed with, when its turn comes.
LapseList(p) ==
    /\ writers[p] = NotWriting
    /\ row.status \in {"active", "past_due"} /\ Lapsed
    /\ Upsert(p, "lapse", [status |-> "expired", plan |-> row.plan, end |-> Keep])
    /\ UNCHANGED <<today, row, mirror>>

\* Dunning that does not look again at a membership it has sent a notice.
DunningListOnce(p) ==
    /\ writers[p] = NotWriting
    /\ row.status = "past_due" /\ ~row.notified
    /\ writers' = [writers EXCEPT ![p] =
         [NotWriting EXCEPT !.pc = "notify", !.via = "dunning",
           !.overdue = Overdue(row.pastDueSince),
           !.update = [status |-> "expired", plan |-> row.plan, end |-> Keep]]]
    /\ UNCHANGED <<today, row, mirror>>

\* sweepDunning lists the memberships that are past due.  Those without a
\* notice get one; those listed with an old failed payment are expired.
DunningList(p) ==
    /\ writers[p] = NotWriting
    /\ row.status = "past_due"
    /\ LET expire == [status |-> "expired", plan |-> row.plan, end |-> Keep]
           overdue == Overdue(row.pastDueSince) IN
       IF row.notified
       THEN overdue /\ Upsert(p, "dunning", expire)
       ELSE writers' = [writers EXCEPT ![p] =
              [NotWriting EXCEPT !.pc = "notify", !.via = "dunning",
                           !.update = expire, !.overdue = overdue]]
    /\ UNCHANGED <<today, row, mirror>>

\* The notice has been sent (or could not be): it is stamped on the row,
\* whatever its status is by now.
Notify(p) ==
    /\ writers[p].pc = "notify"
    /\ row' = [row EXCEPT !.notified = TRUE]
    /\ IF writers[p].overdue THEN Upsert(p, "dunning", writers[p].update) ELSE Finish(p)
    /\ UNCHANGED <<today, mirror>>

-----------------------------------------------------------------------------

\* A request or a sweep is lost: the process dies, or a statement throws.
LoseWrite(p) ==
    /\ Allowed("fail")
    /\ writers[p] # NotWriting
    /\ Finish(p)
    /\ UNCHANGED <<today, row, mirror>>

\* What has begun is over within the day (the sweeps run hourly).
NextDay ==
    /\ today < MaxDay
    /\ \A p \in Writers : writers[p] = NotWriting
    /\ today' = today + 1
    /\ UNCHANGED <<row, mirror, writers>>

Continue(p) == UpsertRead(p) \/ UpsertWrite(p) \/ Notify(p)

Ends == 0..(LastEventDay + 1)

SubscriptionNext ==
    \/ \E p \in Writers, status \in Statuses, plan \in Plans \cup {Keep},
          end \in Ends \cup {Never, Keep} : Event(p, status, plan, end)
    \/ \E p \in Writers, plan \in Plans, end \in Ends \cup {Never} : Grant(p, plan, end)
    \/ \E p \in Writers : Continue(p) \/ LapseList(p) \/ DunningList(p) \/ LoseWrite(p)
    \/ NextDay

-----------------------------------------------------------------------------

\* The brand's mirror says pro exactly when the row is active on a paid plan,
\* whichever of the four writers wrote last.
MirrorAgrees ==
    mirror = "pro" <=> row.status = "active" /\ row.plan # "starter"

\* A membership whose payment recovered carries no dunning date into its next
\* failure, whatever raced with the recovery.
RecoveryClears == row.status = "active" => row.pastDueSince = Never

Expires(via) == \E p \in Writers :
    writers[p].pc = "write" /\ writers[p].via = via /\ writers'[p] = NotWriting /\ row' # row

\* The lapse sweep expires only what has lapsed: a membership that was renewed
\* after it was listed keeps its plan (subscription.ts:160).
SweepOnlyLapsed == [][Expires("lapse") => Lapsed]_subscriptionVars

\* A row that says active or past due although its date has lapsed is
\* corrected (subscription.ts:168).
RowCatchesUp ==
    row.status \in {"active", "past_due"} /\ Lapsed
        ~> ~(row.status \in {"active", "past_due"} /\ Lapsed)

\* Past due does not last: the payment recovers or the membership ends.
GraceEnds == row.status = "past_due" ~> row.status # "past_due"
=============================================================================
