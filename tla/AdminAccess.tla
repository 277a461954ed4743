---------------------------- MODULE AdminAccess ----------------------------
\* An administrator at work: login, the session whose access token expires and is renewed
\* behind the screens (admin-auth.ts, lib/api.ts), the guard of every route (guards.ts), and
\* the super_admin who changes role and status (admin-users.ts, AdminUsers.tsx).
EXTENDS Integers, Sequences, FiniteSets

CONSTANTS Calls,          \* requests the screens may have on their way at one time
          MaxSessions,
          MaxChanges,     \* changes of role and status, by the super_admin
          MaxLogins,
          NoSession

ASSUME AccessAssumption == NoSession \notin Nat

VARIABLES
    staff,      \* the administrator's row: role and status
    session,    \* his sessions, in the order they were issued: revoked or not
    stale,      \* sessions whose access token has expired
    browser,    \* the session whose two tokens the browser keeps, or NoSession
    login,      \* the login or enrolment on its way
    rpc,        \* the requests of the screens
    wrong,      \* requests that a refusal ended although the administrator was entitled all along
    mark,       \* how many sessions there were when he was last suspended
    changes, logins

accessVars == <<staff, session, stale, browser, login, rpc, wrong, mark, changes, logins>>

AdminRoles == {"super_admin", "operations"}
Sids == 1..Len(session)
NoRpc == [pc |-> "idle", sid |-> NoSession, retry |-> TRUE, access |-> "view"]

\* One surface as an example: both roles view it, only one writes.
CanWrite(role) == role = "super_admin"
Allowed(role, access) == access = "view" \/ CanWrite(role)

AccessInit ==
    /\ staff = [role |-> "super_admin", status |-> "active", mfa |-> FALSE]
    /\ session = <<>> /\ stale = {} /\ browser = NoSession
    /\ login = "none" /\ rpc = [c \in Calls |-> NoRpc]
    /\ wrong = {} /\ mark = 0 /\ changes = 0 /\ logins = 0

(* Login. *)

Issue == session' = Append(session, "live")

\* The password is checked; a suspended administrator is refused, one without a factor enrols.
SubmitCredentials ==
    /\ login = "none" /\ browser = NoSession /\ logins < MaxLogins
    /\ logins' = logins + 1
    /\ login' = IF staff.status # "active" THEN "none" ELSE IF staff.mfa THEN "code" ELSE "enrol"
    /\ UNCHANGED <<staff, session, stale, browser, rpc, wrong, mark, changes>>

\* The code is right: the factor is on, and a session is issued for the row as it was read.
SubmitEnrol ==
    /\ login = "enrol" /\ Len(session) < MaxSessions
    /\ staff' = [staff EXCEPT !.mfa = TRUE] /\ Issue
    /\ login' = "issued"
    /\ UNCHANGED <<stale, browser, rpc, wrong, mark, changes, logins>>

SubmitTotp ==
    /\ login = "code" /\ Len(session) < MaxSessions
    /\ IF staff.status = "active" THEN Issue /\ login' = "issued" ELSE login' = "none" /\ UNCHANGED session
    /\ UNCHANGED <<staff, stale, browser, rpc, wrong, mark, changes, logins>>

LoginArrives ==
    /\ login = "issued"
    /\ browser' = Len(session) /\ login' = "none"
    /\ UNCHANGED <<staff, session, stale, rpc, wrong, mark, changes, logins>>

\* The session of the refresh token is revoked and the browser forgets the tokens.
Logout ==
    /\ browser # NoSession
    /\ session' = [session EXCEPT ![browser] = "revoked"] /\ browser' = NoSession
    /\ UNCHANGED <<staff, stale, login, rpc, wrong, mark, changes, logins>>

(* The requests of the screens. *)

Rpc(c, r) == rpc' = [rpc EXCEPT ![c] = r]

SendRpc(c) ==
    /\ rpc[c].pc = "idle" /\ browser # NoSession
    /\ \E access \in {"view", "write"} : Rpc(c, [NoRpc EXCEPT !.pc = "sent", !.sid = browser, !.access = access])
    /\ UNCHANGED <<staff, session, stale, browser, login, wrong, mark, changes, logins>>

\* A quarter of an hour after it was issued, which is longer than a renewed request is on its way.
AccessExpires ==
    /\ \E s \in Sids \ stale :
          /\ session[s] = "live" /\ \A c \in Calls : rpc[c].sid = s => rpc[c].pc # "rotated" /\ rpc[c].retry
          /\ stale' = stale \cup {s}
    /\ UNCHANGED <<staff, session, browser, login, rpc, wrong, mark, changes, logins>>

\* A slip: the token says who he is, and it is still valid.
RequireToken(c) ==
    /\ rpc[c].pc = "sent"
    /\ Rpc(c, [rpc[c] EXCEPT !.pc =
           IF rpc[c].sid \in stale THEN "unauthorized"
           ELSE IF Allowed(staff.role, rpc[c].access) THEN "served" ELSE "forbidden"])
    /\ UNCHANGED <<staff, session, stale, browser, login, wrong, mark, changes, logins>>

\* requireAdmin: the token, the session, the administrator and the live role, in this order.
RequireAdmin(c) ==
    /\ rpc[c].pc = "sent"
    /\ Rpc(c, [rpc[c] EXCEPT !.pc =
           IF rpc[c].sid \in stale \/ session[rpc[c].sid] # "live" \/ staff.status # "active" THEN "unauthorized"
           ELSE IF Allowed(staff.role, rpc[c].access) THEN "served" ELSE "forbidden"])
    /\ UNCHANGED <<staff, session, stale, browser, login, wrong, mark, changes, logins>>

\* A 401 is tried once more, with the tokens a refresh gives.
AskRefresh(c) ==
    /\ rpc[c].pc = "unauthorized" /\ rpc[c].retry
    /\ Rpc(c, IF browser = NoSession THEN [rpc[c] EXCEPT !.retry = FALSE]
              ELSE [rpc[c] EXCEPT !.pc = "refresh", !.sid = browser])
    /\ UNCHANGED <<staff, session, stale, browser, login, wrong, mark, changes, logins>>

\* /auth/admin/refresh, up to the rotation.
RefreshRead(c) ==
    /\ rpc[c].pc = "refresh"
    /\ Rpc(c, IF session[rpc[c].sid] = "live" /\ staff.status = "active" THEN [rpc[c] EXCEPT !.pc = "rotate"]
              ELSE [rpc[c] EXCEPT !.pc = "unauthorized", !.retry = FALSE])
    /\ UNCHANGED <<staff, session, stale, browser, login, wrong, mark, changes, logins>>

\* A slip: the old session is revoked after the new one was answered, by its number.
RotateNothing(c) ==
    /\ rpc[c].pc = "rotate" /\ Len(session) < MaxSessions
    /\ session' = Append([session EXCEPT ![rpc[c].sid] = "revoked"], "live")
    /\ Rpc(c, [rpc[c] EXCEPT !.pc = "rotated"])
    /\ UNCHANGED <<staff, stale, browser, login, wrong, mark, changes, logins>>

\* The old session is revoked and a new one is issued.
Rotate(c) ==
    /\ rpc[c].pc = "rotate" /\ Len(session) < MaxSessions
    /\ session' = Append([session EXCEPT ![rpc[c].sid] = "revoked"], "live")
    /\ Rpc(c, [rpc[c] EXCEPT !.pc = "rotated", !.sid = Len(session) + 1])
    /\ UNCHANGED <<staff, stale, browser, login, wrong, mark, changes, logins>>

\* The browser keeps the new tokens and sends the request again, once.
RefreshArrives(c) ==
    /\ rpc[c].pc = "rotated"
    /\ browser' = rpc[c].sid
    /\ Rpc(c, [rpc[c] EXCEPT !.pc = "sent", !.retry = FALSE])
    /\ UNCHANGED <<staff, session, stale, login, wrong, mark, changes, logins>>

\* The answer reaches the screen; the ghost notes a refusal for no reason of his own.
RpcAnswer(c) ==
    /\ rpc[c].pc \in {"served", "forbidden"} \/ (rpc[c].pc = "unauthorized" /\ ~rpc[c].retry)
    /\ wrong' = IF rpc[c].pc = "unauthorized" /\ changes = 0 THEN wrong \cup {c} ELSE wrong
    /\ Rpc(c, NoRpc)
    /\ UNCHANGED <<staff, session, stale, browser, login, mark, changes, logins>>

(* The super_admin. *)

Change == changes < MaxChanges /\ changes' = changes + 1

ChangeRole ==
    /\ Change
    /\ \E r \in AdminRoles \ {staff.role} : staff' = [staff EXCEPT !.role = r]
    /\ UNCHANGED <<session, stale, browser, login, rpc, wrong, mark, logins>>

\* A slip: the sessions are left to expire.
SuspendOnly ==
    /\ Change /\ staff.status = "active"
    /\ staff' = [staff EXCEPT !.status = "suspended"]
    /\ mark' = Len(session)
    /\ UNCHANGED <<session, stale, browser, login, rpc, wrong, logins>>

\* In one transaction with the revocation of all his sessions.
Suspend ==
    /\ Change /\ staff.status = "active"
    /\ staff' = [staff EXCEPT !.status = "suspended"]
    /\ session' = [s \in Sids |-> "revoked"]
    /\ mark' = Len(session)
    /\ UNCHANGED <<stale, browser, login, rpc, wrong, logins>>

Reinstate ==
    /\ Change /\ staff.status = "suspended"
    /\ staff' = [staff EXCEPT !.status = "active"]
    /\ UNCHANGED <<session, stale, browser, login, rpc, wrong, mark, logins>>

AccessNext ==
    \/ SubmitCredentials \/ SubmitEnrol \/ SubmitTotp \/ LoginArrives \/ Logout
    \/ AccessExpires \/ ChangeRole \/ Suspend \/ Reinstate
    \/ \E c \in Calls : SendRpc(c) \/ RequireAdmin(c) \/ AskRefresh(c) \/ RefreshRead(c) \/ Rotate(c)
                          \/ RefreshArrives(c) \/ RpcAnswer(c)

(* Properties. *)

AccessTypeOK ==
    /\ staff.role \in AdminRoles /\ staff.status \in {"active", "suspended"}
    /\ \A s \in Sids : session[s] \in {"live", "revoked"}
    /\ stale \subseteq Sids /\ browser \in Sids \cup {NoSession} /\ mark \in 0..Len(session)
    /\ \A c \in Calls : rpc[c].sid \in Sids \cup {NoSession}

\* "Suspend REVOKES the admin's active sessions immediately" (admin-users.ts:132), and for
\* good: a session from before the suspension serves no request after it, also when he is
\* activated again.
SuspensionEndsSessions ==
    [][\A c \in Calls : rpc[c].pc = "sent" /\ rpc'[c].pc = "served" =>
          rpc[c].sid > mark /\ staff.status = "active"]_<<rpc, mark>>

\* The screens never see that a token expired: the client "transparently refreshes on 401"
\* (lib/api.ts:3), so that nobody whose account was not changed is refused.  One request at a
\* time; two that find the token expired share one refresh token, and the second is refused.
ExpiryIsTransparent == wrong = {}
=============================================================================
