----------------------------- MODULE Onboarding -----------------------------
\* The welcome tour of a brand user: one browser tab in which people sign in and out, the
\* provider that decides once per session whether the tour opens (onboarding.tsx,
\* WelcomeTour.tsx), and the completion time on the server (services/onboarding.ts).
EXTENDS Integers, FiniteSets

CONSTANTS Users, LastSlide, MaxSignIns, MaxTourPosts, NoUser

ASSUME TourAssumption == LastSlide \in Nat /\ MaxTourPosts \in Nat /\ NoUser \notin Users

VARIABLES
    completedAt,    \* the completion time in each profile; 0 when there is none
    tab,            \* identity and screen, and what the provider remembers
    meRead,         \* reads of /me on their way, each with the identity it was asked for
    posts,          \* completions on their way
    signIns, postsSent

tourVars == <<completedAt, tab, meRead, posts, signIns, postsSent>>

NoRead == [user |-> NoUser, done |-> FALSE, seen |-> 0]
Forgotten(t) == [t EXCEPT !.checked = FALSE, !.open = FALSE, !.greets = NoUser, !.slide = 0]
Eligible(t) == t.user # NoUser /\ t.inApp

TourInit ==
    /\ completedAt \in [Users -> {0}]
    /\ tab = [user |-> NoUser, inApp |-> FALSE, checked |-> FALSE, open |-> FALSE, greets |-> NoUser, slide |-> 0]
    /\ meRead = NoRead /\ posts = {} /\ signIns = 0 /\ postsSent = 0

\* The effect after a render: a read is asked for when the user is eligible and nothing is
\* known; when either changes, the read that is on its way is cancelled.
Asks(t) == Eligible(t) /\ ~t.checked
Render(t) ==
    /\ tab' = t
    /\ meRead' = CASE ~Asks(t) -> NoRead
                   [] Asks(t) /\ ~Asks(tab) -> [user |-> t.user, done |-> FALSE, seen |-> 0]
                   [] OTHER -> meRead

\* A slip: forget only when nobody is signed in (the guard the comment at :69 tells of).
IdentityIfSignedOut(u) ==
    LET t == [tab EXCEPT !.user = u] IN
    IF u # NoUser THEN t ELSE Forgotten(t)

\* What was learned is forgotten whenever the identity changes, not just on sign-out.
Identity(u) ==
    LET t == [tab EXCEPT !.user = u] IN
    IF u = tab.user THEN t ELSE Forgotten(t)

\* The login screen does not turn a signed-in visitor away.
SignIn ==
    /\ ~tab.inApp /\ signIns < MaxSignIns /\ signIns' = signIns + 1
    /\ \E u \in Users : Render(Identity(u))
    /\ UNCHANGED <<completedAt, posts, postsSent>>

SignOut ==
    /\ tab.user # NoUser
    /\ Render([Identity(NoUser) EXCEPT !.inApp = FALSE])
    /\ UNCHANGED <<completedAt, posts, signIns, postsSent>>

\* In and out of the app shell: a link, the back button, a typed address.
Wander ==
    /\ tab.user # NoUser
    /\ Render([tab EXCEPT !.inApp = ~@])
    /\ UNCHANGED <<completedAt, posts, signIns, postsSent>>

ServeMe ==
    /\ meRead # NoRead /\ ~meRead.done
    /\ meRead' = [meRead EXCEPT !.done = TRUE, !.seen = completedAt[meRead.user]]
    /\ UNCHANGED <<completedAt, tab, posts, signIns, postsSent>>

MeArrives ==
    /\ meRead.done /\ meRead' = NoRead
    /\ tab' = [tab EXCEPT !.checked = TRUE, !.greets = meRead.user, !.open = @ \/ meRead.seen = 0]
    /\ UNCHANGED <<completedAt, posts, signIns, postsSent>>

\* A read that failed counts as "already onboarded".
MeFails ==
    /\ meRead # NoRead /\ meRead' = NoRead
    /\ tab' = [tab EXCEPT !.checked = TRUE]
    /\ UNCHANGED <<completedAt, posts, signIns, postsSent>>

(* The tour. *)

Shown == tab.open /\ Eligible(tab)

\* Account, Replay: at the first slide again.
Replay ==
    /\ Eligible(tab) /\ ~tab.open
    /\ tab' = [tab EXCEPT !.open = TRUE, !.slide = 0]
    /\ UNCHANGED <<completedAt, meRead, posts, signIns, postsSent>>

Turn ==
    /\ Shown
    /\ \E s \in {tab.slide - 1, tab.slide + 1} : s \in 0..LastSlide /\ tab' = [tab EXCEPT !.slide = s]
    /\ UNCHANGED <<completedAt, meRead, posts, signIns, postsSent>>

\* Skip, close, or finish: the tour closes first, and nobody waits for the request.
Dismiss ==
    /\ Shown /\ postsSent < MaxTourPosts
    /\ tab' = [tab EXCEPT !.open = FALSE]
    /\ postsSent' = postsSent + 1
    /\ posts' = posts \cup {[user |-> tab.user, at |-> postsSent + 1, pc |-> "sent"]}
    /\ UNCHANGED <<completedAt, meRead, signIns>>

\* completeOnboarding: the profile is read; one that has a time keeps it.
ReadProfile ==
    /\ \E q \in posts :
          /\ q.pc = "sent"
          /\ posts' = (posts \ {q}) \cup (IF completedAt[q.user] # 0 THEN {} ELSE {[q EXCEPT !.pc = "write"]})
    /\ UNCHANGED <<completedAt, tab, meRead, signIns, postsSent>>

WriteProfile ==
    /\ \E q \in posts :
          /\ q.pc = "write"
          /\ completedAt' = [completedAt EXCEPT ![q.user] = q.at]
          /\ posts' = posts \ {q}
    /\ UNCHANGED <<tab, meRead, signIns, postsSent>>

PostLost ==
    /\ \E q \in posts : posts' = posts \ {q}
    /\ UNCHANGED <<completedAt, tab, meRead, signIns, postsSent>>

TourNext ==
    \/ SignIn \/ SignOut \/ Wander \/ ServeMe \/ MeArrives \/ MeFails
    \/ Replay \/ Turn \/ Dismiss \/ ReadProfile \/ WriteProfile \/ PostLost

(* Properties. *)

TourTypeOK ==
    /\ completedAt \in [Users -> 0..MaxTourPosts]
    /\ tab.user \in Users \cup {NoUser} /\ tab.greets \in Users \cup {NoUser} /\ tab.slide \in 0..LastSlide
    /\ meRead.user \in Users \cup {NoUser}
    /\ \A q \in posts : q.user \in Users

\* Whoever signed in over whom, and whichever answer came late: the tour greets the user who
\* is signed in, not the one before (onboarding.tsx:64).
TourForTheRightUser == Shown /\ tab.greets # NoUser => tab.greets = tab.user
=============================================================================
