--------------------------- MODULE Announcements ---------------------------
\* The broadcasts of the operator (admin-announcements.ts) and the screen they are
\* written on (Announcements.tsx).  A broadcast is one row; who sees it and when is worked
\* out from the row whenever somebody looks.
EXTENDS Integers, Sequences, FiniteSets

CONSTANTS Ids,         \* announcements, 1..n in the order of their creation
          Readers,      \* brands
          Authors,      \* administrators
          Forms,        \* what the compose form may hold, a set of records
          Horizon,      \* the last moment
          MaxCalls,     \* requests sent by all authors together
          MaxLosses,    \* requests that the database fails
          Unset

VARIABLES
    announcement,   \* the table
    now,
    desk,           \* the screen of each author
    call,           \* the request of each author that the API serves
    lists,          \* lists on their way to an author's screen
    sentCalls, losses,
    saved,          \* what was last saved of a row, as a whole
    aired           \* rows that were published at some time

announcementVars == <<announcement, now, desk, call, lists, sentCalls, losses, saved, aired>>

Moments == 0..Horizon
Form == [audience: {"all_brands", "single_brand"}, brand: Readers \cup {Unset},
         publishAt: Moments \cup {Unset}, expiresAt: Moments \cup {Unset}, text: Nat]
AnnouncementStatuses == {"draft", "published", "archived"}
Announcement == [audience: {"all_brands", "single_brand"}, brand: Readers \cup {Unset},
                 publishAt: Moments \cup {Unset}, expiresAt: Moments \cup {Unset}, text: Nat,
                 status: AnnouncementStatuses, born: Moments]
FormOf(r) == [f \in {"audience", "brand", "publishAt", "expiresAt", "text"} |-> r[f]]
NewRow(f, pair) == [audience |-> pair[1], brand |-> pair[2], publishAt |-> f.publishAt, expiresAt |-> f.expiresAt,
                    text |-> f.text, status |-> "draft", born |-> now]

ASSUME AnnouncementAssumption ==
    /\ Horizon \in Nat /\ Forms \subseteq Form
    /\ Readers # {} /\ Unset \notin Readers \cup Form \cup Announcement

\* audienceRefinement: the pair must agree.
PairOk(audience, brand) == (audience = "single_brand") <=> (brand # Unset)

(* Who sees a row: isAnnouncementVisible, the filter of the feed, the policy of the database. *)

Reached(t) == t = Unset \/ t <= now
NotOver(t) == t = Unset \/ t > now

IsAnnouncementVisible(a, b) ==
    /\ a.status = "published"
    /\ ~(a.publishAt # Unset /\ a.publishAt > now)
    /\ ~(a.expiresAt # Unset /\ a.expiresAt <= now)
    /\ a.audience = "all_brands" \/ (a.audience = "single_brand" /\ a.brand = b)

\* A slip at the boundary: the last moment still counts.
VisibleToAtExpiry(a, b) ==
    /\ a.status = "published"
    /\ Reached(a.publishAt)
    /\ a.expiresAt = Unset \/ a.expiresAt >= now
    /\ a.audience = "all_brands" \/ (a.audience = "single_brand" /\ a.brand = b)

VisibleTo(a, b) ==
    /\ a.status = "published"
    /\ Reached(a.publishAt)
    /\ NotOver(a.expiresAt)
    /\ a.audience = "all_brands" \/ (a.audience = "single_brand" /\ a.brand = b)

TenantSelect(a, b) ==
    /\ a.status = "published"
    /\ Reached(a.publishAt)
    /\ NotOver(a.expiresAt)
    /\ a.audience = "all_brands" \/ a.brand = b

DisplayState(a) ==
    IF a.status # "published" THEN a.status
    ELSE IF a.publishAt # Unset /\ a.publishAt > now THEN "scheduled"
    ELSE IF a.expiresAt # Unset /\ a.expiresAt <= now THEN "expired"
    ELSE "live"

NoWork == [pc |-> "idle", kind |-> "none", row |-> Unset, form |-> Unset, status |-> Unset, pair |-> <<Unset, Unset>>]
NoneYet == [r \in Ids |-> Unset]

AnnouncementsInit ==
    /\ announcement = NoneYet /\ now = 0
    /\ desk = [x \in Authors |-> [list |-> NoneYet, sent |-> Unset]]
    /\ call = [x \in Authors |-> NoWork]
    /\ lists = [x \in Authors |-> <<>>]
    /\ sentCalls = 0 /\ losses = 0
    /\ saved = NoneYet /\ aired = {}

(* The API. *)

Goto(x, pc) == call' = [call EXCEPT ![x].pc = pc]

\* Every announcement begins as a draft.
CreateDraft(x) ==
    /\ call[x].kind = "create" /\ call[x].pc = "read"
    /\ LET f == call[x].form IN
       IF ~PairOk(f.audience, f.brand) THEN Goto(x, "refused") /\ UNCHANGED <<announcement, saved>>
       ELSE \E r \in Ids :
            /\ r = 1 + Cardinality({q \in Ids : saved[q] # Unset})
            /\ announcement' = [announcement EXCEPT ![r] = NewRow(f, <<f.audience, f.brand>>)]
            /\ saved' = [saved EXCEPT ![r] = f]
            /\ call' = [call EXCEPT ![x].pc = "done", ![x].row = r]
    /\ UNCHANGED aired

\* A slip: the schema of the update is the one of the create, whose audience has a default.
PairDefaulted(x, a) == IF call[x].form # Unset THEN <<call[x].form.audience, call[x].form.brand>>
                       ELSE <<"all_brands", Unset>>

\* Audience and brand are resolved together, against the row as it was read.
Pair(x, a) == IF call[x].form # Unset THEN <<call[x].form.audience, call[x].form.brand>>
              ELSE <<a.audience, a.brand>>

PatchRead(x) ==
    /\ call[x].kind = "patch" /\ call[x].pc = "read"
    /\ LET a == announcement[call[x].row] IN
       IF a = Unset THEN Goto(x, "refused")
       ELSE LET pair == Pair(x, a) IN
            IF ~PairOk(pair[1], pair[2]) THEN Goto(x, "refused")
            ELSE call' = [call EXCEPT ![x].pc = "write", ![x].pair = pair]
    /\ UNCHANGED <<announcement, saved, aired>>

\* The pair is written even when the request did not name it.
PatchWrite(x) ==
    /\ call[x].kind = "patch" /\ call[x].pc = "write"
    /\ LET c == call[x]
           a == announcement[c.row]
           edited == IF c.form = Unset THEN a
                     ELSE [a EXCEPT !.publishAt = c.form.publishAt, !.expiresAt = c.form.expiresAt, !.text = c.form.text]
           updated == [edited EXCEPT !.audience = c.pair[1], !.brand = c.pair[2],
                                     !.status = IF c.status = Unset THEN @ ELSE c.status]
       IN \/ a = Unset /\ Goto(x, "refused") /\ UNCHANGED <<announcement, saved, aired>>
          \/ /\ a # Unset
             /\ announcement' = [announcement EXCEPT ![c.row] = updated]
             /\ saved' = [saved EXCEPT ![c.row] = IF c.form = Unset THEN @ ELSE c.form]
             /\ aired' = IF updated.status = "published" THEN aired \cup {c.row} ELSE aired
             /\ Goto(x, "done")

\* A slip: whatever the status.
DeleteReadAnything(x) ==
    /\ call[x].kind = "delete" /\ call[x].pc = "read"
    /\ Goto(x, IF announcement[call[x].row] = Unset THEN "refused" ELSE "write")
    /\ UNCHANGED <<announcement, saved, aired>>

\* Only a draft is deleted.
DeleteRead(x) ==
    /\ call[x].kind = "delete" /\ call[x].pc = "read"
    /\ LET a == announcement[call[x].row] IN
       Goto(x, IF a = Unset \/ (a # Unset /\ a.status # "draft") THEN "refused" ELSE "write")
    /\ UNCHANGED <<announcement, saved, aired>>

DeleteWrite(x) ==
    /\ call[x].kind = "delete" /\ call[x].pc = "write"
    /\ LET r == call[x].row IN
       \/ announcement[r] = Unset /\ Goto(x, "refused") /\ UNCHANGED announcement
       \/ /\ announcement[r] # Unset
          /\ announcement' = [announcement EXCEPT ![r] = Unset]
          /\ Goto(x, "done")
    /\ UNCHANGED <<saved, aired>>

\* The request throws before it has written anything.
FailCall(x) ==
    /\ call[x].pc \in {"read", "write"} /\ losses < MaxLosses
    /\ losses' = losses + 1 /\ Goto(x, "refused")
    /\ UNCHANGED <<announcement, now, desk, lists, sentCalls, saved, aired>>

ServeCall(x) ==
    /\ CreateDraft(x) \/ PatchRead(x) \/ PatchWrite(x) \/ DeleteRead(x) \/ DeleteWrite(x)
    /\ UNCHANGED <<now, desk, lists, sentCalls, losses>>

(* The screen. *)

Send(x, kind, row, form, status) ==
    /\ call[x].pc = "idle" /\ sentCalls < MaxCalls
    /\ call' = [call EXCEPT ![x] = [NoWork EXCEPT !.pc = "read", !.kind = kind, !.row = row,
                                                  !.form = form, !.status = status]]
    /\ sentCalls' = sentCalls + 1

LoadList(x) == lists' = [lists EXCEPT ![x] = Append(@, announcement)]

\* The screen is opened; a list that is empty is opened again.
OpenScreen(x) ==
    /\ lists[x] = <<>> /\ desk[x].sent = Unset /\ desk[x].list = NoneYet /\ announcement # NoneYet
    /\ LoadList(x)
    /\ UNCHANGED <<announcement, now, desk, call, sentCalls, losses, saved, aired>>

\* A list arrives; the last to arrive is shown.
ListArrives(x) ==
    /\ \E i \in DOMAIN lists[x] :
          /\ desk' = [desk EXCEPT ![x].list = lists[x][i]]
          /\ lists' = [lists EXCEPT ![x] = SubSeq(@, 1, i - 1) \o SubSeq(@, i + 1, Len(@))]
    /\ UNCHANGED <<announcement, now, call, sentCalls, losses, saved, aired>>

\* Publish, archive or restore from the list: the button of the state that is listed.
PressStatus(x) ==
    /\ desk[x].sent = Unset
    /\ \E r \in Ids :
          /\ desk[x].list[r] # Unset
          /\ Send(x, "patch", r, Unset, IF desk[x].list[r].status = "published" THEN "archived" ELSE "published")
          /\ desk' = [desk EXCEPT ![x].sent = "status"]
    /\ UNCHANGED <<announcement, now, lists, losses, saved, aired>>

PressDelete(x) ==
    /\ desk[x].sent = Unset
    /\ \E r \in Ids :
          /\ desk[x].list[r] # Unset /\ desk[x].list[r].status = "draft"
          /\ Send(x, "delete", r, Unset, Unset)
          /\ desk' = [desk EXCEPT ![x].sent = "delete"]
    /\ UNCHANGED <<announcement, now, lists, losses, saved, aired>>

\* The dialogue, opened on a listed row or a new one, holds any form.  "Save draft" needs no
\* brand, "Publish now" does.  A new row is published by a second request.
PressSave(x) ==
    /\ desk[x].sent = Unset
    /\ \E d \in {Unset} \cup {r \in Ids : desk[x].list[r] # Unset}, f \in Forms, publish \in BOOLEAN :
          /\ publish => PairOk(f.audience, f.brand)
          /\ IF d = Unset THEN Send(x, "create", Unset, f, Unset)
             ELSE Send(x, "patch", d, f, IF publish THEN "published" ELSE Unset)
          /\ desk' = [desk EXCEPT ![x].sent = IF d = Unset /\ publish THEN "save first" ELSE "save"]
    /\ UNCHANGED <<announcement, now, lists, losses, saved, aired>>

\* On success the list is loaded again; on an error the dialogue stays open, its draft behind it.
Answer(x) ==
    /\ call[x].pc \in {"done", "refused"}
    /\ LET second == desk[x].sent = "save first" /\ call[x].pc = "done" IN
       /\ call' = [call EXCEPT ![x] = IF second THEN [NoWork EXCEPT !.pc = "read", !.kind = "patch", !.row = call[x].row,
                                                                    !.status = "published"]
                                      ELSE NoWork]
       /\ desk' = [desk EXCEPT ![x].sent = IF second THEN "save" ELSE Unset]
       /\ IF call[x].pc = "done" /\ ~second THEN LoadList(x) ELSE UNCHANGED lists
    /\ UNCHANGED <<announcement, now, sentCalls, losses, saved, aired>>

Pass ==
    /\ now < Horizon /\ now' = now + 1
    /\ UNCHANGED <<announcement, desk, call, lists, sentCalls, losses, saved, aired>>

AnnouncementsNext ==
    \/ Pass
    \/ \E x \in Authors :
          \/ ServeCall(x) \/ FailCall(x)
          \/ OpenScreen(x) \/ ListArrives(x)
          \/ PressStatus(x) \/ PressDelete(x) \/ PressSave(x) \/ Answer(x)

(* Properties. *)

AnnouncementsTypeOK ==
    /\ \A r \in Ids : announcement[r] # Unset => announcement[r] \in Announcement
    /\ now \in Moments /\ aired \subseteq Ids
    /\ \A x \in Authors : desk[x].sent \in {Unset, "status", "delete", "save", "save first"}

\* One rule in three places: the API's predicate, the filter of the feed and the policy
\* of the database show a row to the same brands, and the state that the operator reads is
\* "live" exactly when somebody sees it (notifications.ts:15 "If one changes, change all three").
OneRule ==
    \A r \in Ids : announcement[r] # Unset =>
        LET a == announcement[r] IN
        /\ \A b \in Readers : /\ IsAnnouncementVisible(a, b) <=> VisibleTo(a, b)
                              /\ TenantSelect(a, b) <=> VisibleTo(a, b)
        /\ DisplayState(a) = "live" <=> \E b \in Readers : VisibleTo(a, b)

\* A row is what was last saved of it, as a whole: publishing or archiving it changes
\* neither its audience nor its text (admin-announcements.ts:145).
LastSaveStands == \A r \in Ids : announcement[r] # Unset => FormOf(announcement[r]) = saved[r]

\* "Hard delete is drafts-only — anything that was ever published is archived instead, so
\* the audit trail always has the broadcast it refers to" (admin-announcements.ts:196).
KeptForAudit == \A r \in aired : announcement[r] # Unset
=============================================================================
