-------------------------------- MODULE Team --------------------------------
\* The people of one brand: who signs it up, who is invited, and who may do what
\* (brand.ts, brand-members.ts, guards.ts, Team.tsx).  Accounts live in Supabase Auth and
\* memberships in the database, so that two systems are written for every new person.
EXTENDS Integers, FiniteSets

CONSTANTS People,
          Outsiders,    \* those who have an account with another brand
          MaxVisits,    \* requests of all people together
          MaxFaults,    \* failures and deaths of requests
          Nobody

VARIABLES
    member,     \* brand_member: role and status of each person
    account,    \* Supabase Auth: who has an account
    founded,    \* the brand exists
    visit,      \* the request of each person that the API serves
    roster,     \* what the team screen of each person shows
    excused,    \* accounts left over by a failed undo or a death
    entitled,   \* people who were active owners at some time since they sent their request
    visits, faults

teamVars == <<member, account, founded, visit, roster, excused, entitled, visits, faults>>

Roles == {"owner", "staff"}
Membership == [role: Roles, status: {"active", "suspended"}]
ASSUME TeamAssumption == Outsiders \subseteq People /\ Nobody \notin People \cup Roles \cup Membership
Owner == [role |-> "owner", status |-> "active"]
IsOwner(u) == member[u] = Owner
NoVisit == [pc |-> "idle", op |-> "none", target |-> Nobody, role |-> Nobody, seen |-> Nobody]
NoRoster == [u \in People |-> Nobody]

TeamInit ==
    /\ member = NoRoster /\ account = Outsiders /\ founded = FALSE
    /\ visit = [u \in People |-> NoVisit]
    /\ roster = [u \in People |-> NoRoster]
    /\ excused = {} /\ entitled = {} /\ visits = 0 /\ faults = 0

(* Requests. *)

Proceed(u, pc) == visit' = [visit EXCEPT ![u].pc = pc]

Begin(u, op, target, role) ==
    /\ visit[u].pc = "idle" /\ visits < MaxVisits
    /\ visit' = [visit EXCEPT ![u] = [NoVisit EXCEPT !.pc = "arrived", !.op = op, !.target = target, !.role = role]]
    /\ visits' = visits + 1
    /\ entitled' = IF IsOwner(u) THEN entitled \cup {u} ELSE entitled \ {u}

\* requireBrandSurface("members"): the live row of the person who asks.
Admit(u) ==
    /\ visit[u].pc = "arrived" /\ visit[u].op # "signup"
    /\ Proceed(u, IF IsOwner(u) THEN "read" ELSE "refused")
    /\ UNCHANGED <<member, account, founded, excused>>

\* Signup and invitation make the account first; an address that is known is refused.
MakeAccount(u) ==
    /\ \/ visit[u].op = "signup" /\ visit[u].pc = "arrived"
       \/ visit[u].op = "invite" /\ visit[u].pc = "read"
    /\ LET t == visit[u].target IN
       IF t \in account THEN Proceed(u, "refused") /\ UNCHANGED account
       ELSE account' = account \cup {t} /\ Proceed(u, "insert")
    /\ UNCHANGED <<member, founded, excused>>

\* The rows of the database, all or none.
InsertMember(u) ==
    /\ visit[u].pc = "insert"
    /\ member' = [member EXCEPT ![visit[u].target] = [role |-> visit[u].role, status |-> "active"]]
    /\ founded' = TRUE
    /\ Proceed(u, "done")
    /\ UNCHANGED <<account, excused>>

InsertThrows(u) ==
    /\ visit[u].pc = "insert" /\ faults < MaxFaults
    /\ Proceed(u, "undo")
    /\ UNCHANGED <<member, account, founded, excused>>

\* A slip: the error is passed on and the account stays.
UndoAccountForgotten(u) ==
    /\ visit[u].pc = "undo"
    /\ Proceed(u, "refused")
    /\ UNCHANGED <<member, account, founded, excused>>

\* The account is deleted again.
UndoAccount(u) ==
    /\ visit[u].pc = "undo"
    /\ account' = account \ {visit[u].target}
    /\ Proceed(u, "refused")
    /\ UNCHANGED <<member, founded, excused>>

\* The delete fails too, which is swallowed.
UndoFails(u) ==
    /\ visit[u].pc = "undo" /\ faults < MaxFaults
    /\ excused' = excused \cup {visit[u].target}
    /\ Proceed(u, "refused")
    /\ UNCHANGED <<member, account, founded>>

\* The process dies between the two systems.
Die(u) ==
    /\ visit[u].pc \in {"insert", "undo"} /\ faults < MaxFaults
    /\ excused' = excused \cup {visit[u].target}
    /\ Proceed(u, "refused")
    /\ UNCHANGED <<member, account, founded>>

ReadMember(u) ==
    /\ visit[u].pc = "read" /\ visit[u].op \in {"role", "remove", "restore"}
    /\ LET v == visit[u]  m == member[v.target] IN
       visit' = [visit EXCEPT ![u].seen = m,
                              ![u].pc = IF (v.op = "remove" /\ v.target = u) \/ m = Nobody THEN "refused"
                                       ELSE CASE v.op = "role" /\ m.role = v.role -> "done"
                                              [] v.op = "restore" -> IF m.status = "active" THEN "done" ELSE "write"
                                              [] OTHER -> "count"]
    /\ UNCHANGED <<member, account, founded, excused>>

OwnerCount == Cardinality({u \in People : IsOwner(u)})

WouldOrphanBrand(v) == v.seen.role = "owner" /\ (v.op = "role" => v.role # "owner") /\ OwnerCount <= 1

CountOwners(u) ==
    /\ visit[u].pc = "count"
    /\ Proceed(u, IF WouldOrphanBrand(visit[u]) THEN "refused" ELSE "write")
    /\ UNCHANGED <<member, account, founded, excused>>

\* Unconditional updates, in a transaction of their own.
WriteMember(u) ==
    /\ visit[u].pc = "write"
    /\ LET v == visit[u] IN
       member' = [member EXCEPT ![v.target] =
           CASE v.op = "role" -> [@ EXCEPT !.role = v.role]
             [] v.op = "remove" -> [@ EXCEPT !.status = "suspended"]
             [] OTHER -> [@ EXCEPT !.status = "active"]]
    /\ Proceed(u, "done")
    /\ UNCHANGED <<account, founded, excused>>

ServeVisit(u) ==
    /\ \/ (Admit(u) \/ MakeAccount(u) \/ InsertMember(u) \/ UndoAccount(u) \/ ReadMember(u)
             \/ CountOwners(u) \/ WriteMember(u)) /\ UNCHANGED faults
       \/ (InsertThrows(u) \/ UndoFails(u) \/ Die(u)) /\ faults' = faults + 1
    /\ entitled' = entitled \cup {p \in People : member'[p] = Owner}
    /\ UNCHANGED <<roster, visits>>

(* The screens. *)

\* The first account of the brand.
SignUp(u) ==
    /\ ~founded /\ \A p \in People : visit[p].op # "signup"
    /\ Begin(u, "signup", u, "owner")
    /\ UNCHANGED <<member, account, founded, roster, excused, faults>>

LoadTeam(u) ==
    /\ member[u] # Nobody /\ (member[u] # Nobody => member[u].status = "active")
    /\ roster' = [roster EXCEPT ![u] = member]
    /\ UNCHANGED <<member, account, founded, visit, excused, entitled, visits, faults>>

Invite(u) ==
    /\ roster[u][u] = Owner
    /\ \E t \in People \ {u}, r \in Roles : Begin(u, "invite", t, r)
    /\ UNCHANGED <<member, account, founded, roster, excused, faults>>

\* The buttons of the other members: restore, or the other role and revoke, as they are listed.
PressMember(u) ==
    /\ roster[u][u] = Owner
    /\ \E t \in People \ {u} :
          /\ roster[u][t] # Nobody
          /\ IF roster[u][t].status = "suspended" THEN Begin(u, "restore", t, Nobody)
             ELSE \/ Begin(u, "role", t, IF roster[u][t].role = "owner" THEN "staff" ELSE "owner")
                  \/ Begin(u, "remove", t, Nobody)
    /\ UNCHANGED <<member, account, founded, roster, excused, faults>>

\* The route takes the caller too: an owner who steps down.
StepDown(u) ==
    /\ member[u] # Nobody
    /\ Begin(u, "role", u, "staff") \/ Begin(u, "remove", u, Nobody)
    /\ UNCHANGED <<member, account, founded, roster, excused, faults>>

\* The list is loaded again when the request succeeded.
TeamAnswer(u) ==
    /\ visit[u].pc \in {"done", "refused"}
    /\ visit' = [visit EXCEPT ![u] = NoVisit]
    /\ entitled' = entitled \ {u}
    /\ roster' = IF visit[u].pc = "done" THEN [roster EXCEPT ![u] = member] ELSE roster
    /\ UNCHANGED <<member, account, founded, excused, visits, faults>>

TeamNext == \E u \in People :
    \/ SignUp(u) \/ LoadTeam(u) \/ Invite(u) \/ PressMember(u) \/ StepDown(u)
    \/ ServeVisit(u) \/ TeamAnswer(u)

(* Properties. *)

TeamTypeOK ==
    /\ member \in [People -> Membership \cup {Nobody}] /\ account \subseteq People
    /\ \A u \in People : visit[u].target \in People \cup {Nobody} /\ roster[u] \in [People -> Membership \cup {Nobody}]

\* "A brand must always retain at least one owner" (brand-roles.ts:74) who is active:
\* billing and dunning look the owner up.  Two requests that overlap both count two owners.
KeepsOwner == founded => \E u \in People : IsOwner(u)

\* A forced failure leaves "NO orphan rows" (brand.ts:35): once nobody is being signed up or
\* invited, everybody with an account here is a member, but for a failed undo or a death.
NoOrphanAccount ==
    \A t \in account \ (Outsiders \cup excused) :
        member[t] = Nobody => \E u \in People : visit[u].target = t /\ visit[u].pc \in {"insert", "undo"}

\* "So revocation takes effect immediately" (guards.ts:27): whoever changes or adds a member
\* was an active owner at some time since the request was sent.
RevokedActsNoMore ==
    [][\A u \in People : visit[u].op # "signup" /\ visit[u].pc \in {"insert", "write"} /\ visit'[u].pc = "done"
           => u \in entitled]_<<visit, member>>
=============================================================================
