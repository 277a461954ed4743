------------------------------- MODULE MCLive -------------------------------
(***************************************************************************)
(* What must happen in the end, by the timers of the server and of the     *)
(* browser: stuck events are settled, memberships end, the badge is right. *)
(* A behaviour follows a scenario, chosen at its start, in which one of    *)
(* the three moves.                                                        *)
(***************************************************************************)
EXTENDS Webhooks, Subscription, Inbox, TLC

CONSTANT Scenarios

VARIABLE scenario

At(s) == scenario \in s

SubscriptionAndOther == <<"subscription", "other">>
NoFailures == {}
NoForms == {}

inboxVariables == <<announcementVars, inboxVars>>
liveVars == <<webhookVars, subscriptionVars, inboxVariables, scenario>>

\* Two broadcasts are out when the browser starts, the second of them for later.  It starts
\* anywhere ("bell"), or on the page of all notifications ("page"), where the user presses once,
\* or twice if nothing else happens but time and the answers.
Published(audience, brand, publishAt) ==
    [audience |-> audience, brand |-> brand, publishAt |-> publishAt, expiresAt |-> Unset, text |-> 1,
     status |-> "published", born |-> 0]
Broadcasts == <<Published("all_brands", Unset, Unset), Published("single_brand", Home, 1)>>

BroadcastsInit ==
    /\ announcement = IF At({"bell", "page"}) THEN Broadcasts ELSE NoneYet
    /\ now = 0 /\ sentCalls = 0 /\ losses = 0
    /\ desk = [x \in Authors |-> [list |-> announcement, sent |-> Unset]]
    /\ call = [x \in Authors |-> NoWork]
    /\ lists = [x \in Authors |-> <<>>]
    /\ saved = [r \in Ids |-> Unset] /\ aired = {}

MCInit ==
    /\ scenario \in Scenarios
    /\ WebhooksInit /\ SubscriptionInit /\ BroadcastsInit /\ InboxInit
    /\ page.at <=> At({"page"})

\* Meanwhile the operator archives and restores from a list that he does not load again.
Operator ==
    /\ \/ Pass
       \/ \E x \in Authors : PressStatus(x) \/ ServeCall(x) \/ Answer(x)
    /\ UNCHANGED inboxVars

PageFollows == At({"page"}) => presses <= 1 \/ (losses = 0 /\ sentCalls = 0)

MCNext ==
    /\ UNCHANGED scenario
    /\ \/ At({"events"}) /\ WebhooksNext /\ UNCHANGED <<subscriptionVars, inboxVariables>>
       \/ At({"membership"}) /\ SubscriptionNext /\ UNCHANGED <<webhookVars, inboxVariables>>
       \/ At({"bell", "page"}) /\ (Operator \/ InboxNext) /\ PageFollows'
          /\ UNCHANGED <<webhookVars, subscriptionVars>>

\* Time goes by and the timers go on firing, each in its scenario.  Nothing is assumed of the
\* senders or receivers of events: a delivery may be the last one, and its handler may hang.
\* The sweeps of the memberships do not wait for a free slot of Writers, which only bounds what
\* is in flight, so what is enabled again and again happens.  The browser asks once a minute;
\* its requests are served and answered, or fail.
Fair ==
    /\ \A e \in Events : WF_webhookVars(At({"events"}) /\ Age(e))
    /\ \A w \in Workers : WF_webhookVars(At({"events"}) /\ Work(w))
    /\ SF_subscriptionVars(At({"membership"}) /\ NextDay)
    /\ \A p \in Writers : /\ WF_subscriptionVars(At({"membership"}) /\ Continue(p))
                          /\ SF_subscriptionVars(At({"membership"}) /\ LapseList(p))
                          /\ SF_subscriptionVars(At({"membership"}) /\ DunningList(p))
    /\ WF_inboxVariables(At({"bell", "page"}) /\ Poll) /\ WF_inboxVariables(At({"bell", "page"}) /\ ServeInbox)
    /\ WF_inboxVariables(At({"bell", "page"}) /\ InboxArrives)

MCSpec == MCInit /\ [][MCNext]_liveVars /\ Fair

-----------------------------------------------------------------------------

\* A row that was read stays read as of its first time, and the badge of the bell is right in
\* the end (notifications.ts:82, NotificationBell.tsx:98).
InboxSettles == []InboxTypeOK /\ FirstReadKept /\ BadgeSettles
=============================================================================
