----------------------------- MODULE MCPlatform -----------------------------
(***************************************************************************)
(* What administrators and brands do apart from money and goods: plans and *)
(* their prices, broadcasts, the members of a brand, sessions and the      *)
(* welcome tour.  They share no state; a behaviour follows a scenario,     *)
(* chosen at its start, in which one of them moves.                        *)
(***************************************************************************)
EXTENDS PlanRegistry, PlanPrice, Announcements, Team, AdminAccess, Onboarding, TLC

CONSTANT Scenarios

VARIABLE scenario

At(s) == scenario \in s

\* Where no price is at stake, it is the lowest one.
Lowest == CHOOSE c \in Amounts : \A d \in Amounts : c <= d

platformVars == <<registryVars, priceVars, announcementVars, teamVars, accessVars, tourVars, scenario>>

\* Forms of three kinds: a broadcast that ends, one to a single brand that is due later, and
\* one whose brand is still missing.
Drafts ==
    LET b == CHOOSE b \in Readers : TRUE
        F(audience, brand, publishAt, expiresAt, text) ==
            [audience |-> audience, brand |-> brand, publishAt |-> publishAt, expiresAt |-> expiresAt, text |-> text]
    IN {F("all_brands", Unset, Unset, 1, 1), F("single_brand", b, 1, Unset, 2), F("single_brand", Unset, Unset, Unset, 1)}

MCInit ==
    /\ RegistryInit /\ PriceInit /\ AnnouncementsInit /\ TeamInit /\ AccessInit /\ TourInit
    /\ scenario \in Scenarios
    /\ ~At({"race", "days"}) => rows[1].cents = Lowest

-----------------------------------------------------------------------------

(* How the steps of a scenario meet. *)

\* "race": administrators and brands at the same time, on one day; "days": one administrator.
PriceFollows ==
    CASE scenario = "race" -> today = 0
      [] scenario = "days" -> Cardinality({a \in Admins : admins[a].pc # "closed"}) <= 1

\* No two authors' requests overlap, though their screens do; a request that fails is one of two.
DeskFollows ==
    /\ Cardinality({x \in Authors : call[x].pc \in {"read", "write"}}) <= 1
    /\ losses > 0 => sentCalls <= 2

\* "owners": whatever the owners send overlaps; "team": a change of a member is served alone.
Serving(ops) == {u \in People : visit[u].op \in ops /\ visit[u].pc \notin {"idle", "arrived", "done", "refused"}}
TeamFollows ==
    At({"team"}) => /\ Cardinality(Serving({"role", "remove", "restore"})) <= 1
                    /\ Serving({"role", "remove", "restore"}) # {} => Serving({"signup", "invite"}) = {}

\* "clerk": one request of the screens at a time, which he waits for before he leaves;
\* "suspension": requests that only look, whatever the role.
AccessFollows ==
    /\ At({"suspension"}) => staff'.role = staff.role /\ \A c \in Calls : rpc'[c].access = "view"
    /\ At({"clerk"}) => /\ Cardinality({c \in Calls : rpc'[c].pc # "idle"}) <= 1
                        /\ browser # NoSession /\ browser' = NoSession => \A c \in Calls : rpc[c].pc = "idle"

MCNext ==
    /\ UNCHANGED scenario
    /\ \/ At({"registry"}) /\ RegistryNext
          /\ UNCHANGED <<priceVars, announcementVars, teamVars, accessVars, tourVars>>
       \/ At({"race", "days"}) /\ PriceNext /\ PriceFollows'
          /\ UNCHANGED <<registryVars, announcementVars, teamVars, accessVars, tourVars>>
       \/ At({"desks"}) /\ AnnouncementsNext /\ DeskFollows'
          /\ UNCHANGED <<registryVars, priceVars, teamVars, accessVars, tourVars>>
       \/ At({"team", "owners"}) /\ TeamNext /\ TeamFollows'
          /\ UNCHANGED <<registryVars, priceVars, announcementVars, accessVars, tourVars>>
       \/ At({"clerk", "suspension"}) /\ AccessNext /\ AccessFollows
          /\ UNCHANGED <<registryVars, priceVars, announcementVars, teamVars, tourVars>>
       \/ At({"tour"}) /\ TourNext
          /\ UNCHANGED <<registryVars, priceVars, announcementVars, teamVars, accessVars>>

MCSpec == MCInit /\ [][MCNext]_platformVars

Symmetry == Permutations(Authors) \cup Permutations(Admins)

-----------------------------------------------------------------------------

TypeOK == RegistryTypeOK /\ PriceTypeOK /\ AnnouncementsTypeOK /\ TeamTypeOK /\ AccessTypeOK /\ TourTypeOK

\* A price that was replaced is archived at Stripe by the worker, and a checkout session that
\* was opened before is completed in time (reconciliation.ts:22, :60).
ArchivedInTime == SessionsComplete /\ NoneFallsOut

\* What a checkout offers can be paid, and is what the brand is charged (plan-price.ts:175, :188).
OfferIsHonoured == OfferIsPayable /\ ChargedAsShown

\* A broadcast is what was last saved of it and is kept once it went out.
BroadcastStands == LastSaveStands /\ KeptForAudit

\* Who lost a role, or was suspended, acts no more, on either side of the platform; and one
\* request at a time never shows that a token expired (guards.ts:27, admin-users.ts:132, lib/api.ts:3).
RenewalIsInvisible == [][At({"clerk"}) => ExpiryIsTransparent']_accessVars
AccessIsCurrent == RevokedActsNoMore /\ SuspensionEndsSessions /\ RenewalIsInvisible
=============================================================================
