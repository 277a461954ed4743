------------------------------- MODULE Inbox -------------------------------
\* The inbox of one brand user: the read side of the announcements (notifications.ts), the
\* bell in the top bar (NotificationBell.tsx) and the page of all notifications
\* (Notifications.tsx).  Nothing is delivered: a feed is worked out when it is asked for, and
\* only what was read leaves a row.
EXTENDS Announcements

CONSTANTS Home,         \* the brand of the user
          PanelLimit,   \* how many the panel of the bell shows
          MaxPresses    \* presses of the user

VARIABLES
    receipt,   \* announcement_read: when the user read a row
    bell,      \* the badge, and the panel with what it lists
    page,      \* the page: its list and its tab
    flight,    \* requests of the browser on their way, a set
    presses

inboxVars == <<receipt, bell, page, flight, presses>>

Seen(r) == receipt[r] # Unset
InFeed(r) == announcement[r] # Unset /\ (announcement[r] # Unset => VisibleTo(announcement[r], Home))

\* getFeed: newest first by the publication date; Postgres puts the rows without one first.
Later(r, q) ==
    LET a == announcement[r]  b == announcement[q] IN
    \/ a.publishAt = Unset /\ b.publishAt # Unset
    \/ a.publishAt # Unset /\ b.publishAt # Unset /\ a.publishAt > b.publishAt
    \/ a.publishAt = b.publishAt /\ r > q

\* Each listed row with whether it was read.
GetFeed(unreadOnly, limit) ==
    LET asked == {r \in Ids : InFeed(r) /\ (unreadOnly => ~Seen(r))}
        kept == {r \in asked : Cardinality({q \in asked : Later(q, r)}) < limit}
    IN [r \in kept |-> Seen(r)]

GetUnreadCount == Cardinality({r \in Ids : InFeed(r) /\ ~Seen(r)})

NoItems == [r \in {} |-> FALSE]

Request(what, rows, tab) ==
    [what |-> what, press |-> presses, pc |-> "sent", rows |-> rows, data |-> 0, items |-> NoItems, tab |-> tab]

\* The app is opened, on the page or elsewhere: the bell asks for its count, the page for its list.
InboxInit ==
    /\ receipt = NoneYet
    /\ bell = [badge |-> 0, open |-> FALSE, items |-> NoItems, loading |-> FALSE]
    /\ presses = 0
    /\ \E at \in BOOLEAN :
          /\ page = [at |-> at, items |-> NoItems, unreadOnly |-> FALSE, loading |-> at]
          /\ flight = {Request("poll", {}, FALSE)} \cup (IF at THEN {Request("list", {}, FALSE)} ELSE {})

Ask(f, what, rows, tab) == flight' = f \cup {Request(what, rows, tab)}
Without(q) == flight \ {q}
Now(q, r) == flight' = Without(q) \cup {r}
Kinds == {"poll", "panel", "list", "open", "sweep", "mark", "clear"}

(* The API. *)

\* GET of the count, of the panel and of the page.
ServeRead(q) ==
    /\ q.pc = "sent"
    /\ CASE q.what = "poll" -> Now(q, [q EXCEPT !.pc = "done", !.data = GetUnreadCount])
         [] q.what = "panel" -> Now(q, [q EXCEPT !.pc = "done", !.items = GetFeed(FALSE, PanelLimit)])
         [] q.what = "list" -> Now(q, [q EXCEPT !.pc = "done", !.items = GetFeed(q.tab, Cardinality(Ids))])
         [] OTHER -> FALSE
    /\ UNCHANGED receipt

\* markRead finds the row among those the brand sees; markAllRead finds the unread ones.
FindUnread(q) ==
    /\ q.pc = "sent" /\ q.what \in {"open", "mark", "sweep", "clear"}
    /\ LET one == q.what \in {"open", "mark"}
           found == IF one THEN {r \in q.rows : InFeed(r)} ELSE {r \in Ids : InFeed(r) /\ ~Seen(r)} IN
       Now(q, [q EXCEPT !.pc = IF one /\ found = {} THEN "failed" ELSE "found", !.rows = found])
    /\ UNCHANGED receipt

\* A slip: the upsert writes the time again.
WriteReceiptAgain(q) ==
    /\ q.pc = "found"
    /\ IF \E r \in q.rows : announcement[r] = Unset
       THEN Now(q, [q EXCEPT !.pc = "failed"]) /\ UNCHANGED receipt
       ELSE /\ receipt' = [r \in Ids |-> IF r \in q.rows THEN now ELSE receipt[r]]
            /\ Now(q, [q EXCEPT !.pc = "done"])

\* A row that is gone breaks the foreign key; one that was read meanwhile is skipped.
WriteReceipt(q) ==
    /\ q.pc = "found"
    /\ IF \E r \in q.rows : announcement[r] = Unset
       THEN Now(q, [q EXCEPT !.pc = "failed"]) /\ UNCHANGED receipt
       ELSE /\ receipt' = [r \in Ids |-> IF r \in q.rows /\ ~Seen(r) THEN now ELSE receipt[r]]
            /\ Now(q, [q EXCEPT !.pc = "done"])

ServeInbox ==
    /\ \E q \in flight : ServeRead(q) \/ FindUnread(q) \/ WriteReceipt(q)
    /\ UNCHANGED <<announcementVars, bell, page, presses>>

FailInbox ==
    /\ losses < MaxLosses /\ losses' = losses + 1
    /\ \E q \in flight : q.pc = "sent" /\ Now(q, [q EXCEPT !.pc = "failed"])
    /\ UNCHANGED <<announcement, now, desk, call, lists, sentCalls, saved, aired, receipt, bell, page, presses>>

(* The bell. *)

Polling == \E q \in flight : q.what = "poll"

\* A slip: the count is asked for once.
PollOnce ==
    /\ FALSE
    /\ UNCHANGED <<announcementVars, inboxVars>>

\* Once a minute, which is longer than an answer takes.
Poll ==
    /\ ~Polling
    /\ Ask(flight, "poll", {}, FALSE)
    /\ UNCHANGED <<announcementVars, receipt, bell, page, presses>>

Press == presses < MaxPresses /\ presses' = presses + 1

Toggle ==
    /\ Press
    /\ bell' = [bell EXCEPT !.open = ~@, !.loading = @ \/ ~bell.open]
    /\ IF bell.open THEN UNCHANGED flight ELSE Ask(flight, "panel", {}, FALSE)
    /\ UNCHANGED <<announcementVars, receipt, page>>

\* The page is opened with the list of everything.
Visit(f) ==
    /\ page' = IF page.at THEN page ELSE [page EXCEPT !.at = TRUE, !.loading = TRUE]
    /\ IF page.at THEN flight' = f ELSE Ask(f, "list", {}, FALSE)

\* An unread item is marked first; the panel closes when that is answered.
OpenItem ==
    /\ Press /\ bell.open /\ ~bell.loading
    /\ \E r \in DOMAIN bell.items :
          IF bell.items[r] THEN bell' = [bell EXCEPT !.open = FALSE] /\ Visit(flight)
          ELSE Ask(flight, "open", {r}, FALSE) /\ UNCHANGED <<bell, page>>
    /\ UNCHANGED <<announcementVars, receipt>>

SweepBell ==
    /\ Press /\ bell.open /\ bell.badge > 0
    /\ Ask(flight, "sweep", {}, FALSE)
    /\ UNCHANGED <<announcementVars, receipt, bell, page>>

(* The page. *)

ChangeTab ==
    /\ Press /\ page.at
    /\ page' = [page EXCEPT !.unreadOnly = ~@, !.loading = TRUE]
    /\ Ask(flight, "list", {}, ~page.unreadOnly)
    /\ UNCHANGED <<announcementVars, receipt, bell>>

MarkItem ==
    /\ Press /\ page.at /\ ~page.loading
    /\ \E r \in DOMAIN page.items : ~page.items[r] /\ Ask(flight, "mark", {r}, FALSE)
    /\ UNCHANGED <<announcementVars, receipt, bell, page>>

ClearPage ==
    /\ Press /\ page.at /\ \E r \in DOMAIN page.items : ~page.items[r]
    /\ Ask(flight, "clear", {}, FALSE)
    /\ UNCHANGED <<announcementVars, receipt, bell, page>>

(* The answers. *)

Marked(items, rows) == [r \in DOMAIN items |-> items[r] \/ r \in rows]
LeftOf(items, rows) == [r \in DOMAIN items \ rows |-> items[r]]
OneLess(n) == IF n > 0 THEN n - 1 ELSE 0

\* What the bell does with an answer.
BellArrives(q) ==
    LET ok == q.pc = "done" IN
    \/ /\ q.what = "poll"
       /\ bell' = IF ok THEN [bell EXCEPT !.badge = q.data] ELSE bell
       /\ flight' = Without(q) /\ UNCHANGED page
    \/ /\ q.what = "panel"
       /\ bell' = [bell EXCEPT !.items = q.items, !.loading = FALSE]
       /\ flight' = Without(q) /\ UNCHANGED page
    \/ /\ q.what = "open"
       /\ bell' = [bell EXCEPT !.items = IF ok THEN Marked(@, q.rows) ELSE @,
                               !.badge = IF ok THEN OneLess(@) ELSE @, !.open = FALSE]
       /\ Visit(Without(q))
    \/ /\ q.what = "sweep"
       /\ bell' = IF ok THEN [bell EXCEPT !.items = Marked(@, DOMAIN @), !.badge = 0] ELSE bell
       /\ IF ok \/ Polling THEN flight' = Without(q) ELSE Ask(Without(q), "poll", {}, FALSE)
       /\ UNCHANGED page

\* What the page does with one: the last list to arrive is shown, under whichever tab.
PageArrives(q) ==
    LET ok == q.pc = "done" IN
    \/ /\ q.what = "list"
       /\ page' = [page EXCEPT !.items = IF ok THEN q.items ELSE @, !.loading = FALSE]
       /\ flight' = Without(q)
    \/ /\ q.what = "mark"
       /\ page' = IF ~ok THEN page
                  ELSE [page EXCEPT !.items = IF page.unreadOnly THEN LeftOf(@, q.rows) ELSE Marked(@, q.rows)]
       /\ flight' = Without(q)
    \/ /\ q.what = "clear"
       /\ page' = IF ok THEN [page EXCEPT !.loading = TRUE] ELSE page
       /\ IF ok THEN Ask(Without(q), "list", {}, page.unreadOnly) ELSE flight' = Without(q)

InboxArrives ==
    /\ \E q \in flight :
          /\ q.pc \in {"done", "failed"}
          /\ BellArrives(q) \/ (PageArrives(q) /\ UNCHANGED bell)
    /\ UNCHANGED <<announcementVars, receipt, presses>>

InboxNext ==
    \/ ServeInbox \/ FailInbox \/ InboxArrives \/ Poll
    \/ Toggle \/ OpenItem \/ SweepBell \/ ChangeTab \/ MarkItem \/ ClearPage

(* Properties. *)

InboxTypeOK ==
    /\ receipt \in [Ids -> Moments \cup {Unset}]
    /\ bell.badge \in 0..Cardinality(Ids) /\ DOMAIN bell.items \subseteq Ids /\ DOMAIN page.items \subseteq Ids
    /\ \A q \in flight : q.what \in Kinds /\ q.rows \subseteq Ids

\* "Re-reading keeps the ORIGINAL read_at" (notifications.ts:82), also when the panel, the page
\* and two "mark all" race for the same row.
FirstReadKept == [][\A r \in Ids : receipt[r] # Unset => receipt'[r] = receipt[r]]_receipt

\* Whatever the user pressed and whatever answers came late, the badge is right in the end:
\* "the count self-corrects on the next poll" (NotificationBell.tsx:98).
BadgeSettles == <>[](bell.badge = GetUnreadCount)
=============================================================================
