--------------------------- MODULE StoreConnection ---------------------------
(***************************************************************************)
(* The connection of a brand to its WooCommerce store: the store screen    *)
(* (Store.tsx), connect, test and disconnect (routes/brand-store.ts), the  *)
(* webhooks registered at the store (services/woo.ts) and the tracking     *)
(* written back when an order ships (hooks/order-shipped.ts).              *)
(***************************************************************************)
EXTENDS Naturals, FiniteSets

CONSTANTS
    Screens,        \* store screens of the owners of the brand
    MaxConnections, \* bound on the connections of a behaviour
    MaxFaults,      \* bound on the calls that fail and the restarts
    Nothing

ASSUME ConnectionAssumption ==
    MaxConnections \in Nat /\ MaxFaults \in Nat /\ Nothing \notin Nat

VARIABLES
    connection,     \* the row of the brand, or Nothing: one at most
    hooks,          \* the webhooks at the store: connection and topic
    screen,         \* the screens, each with the request it waits for
    made,           \* connections made so far
    planAllows,     \* the plan of the brand has store connections
    shipping,       \* the connection a shipped order writes its tracking to
    faults

connectionVars == <<connection, hooks, screen, made, planAllows, shipping, faults>>

-----------------------------------------------------------------------------

Topics == {"order.created", "order.updated"}

ConnIds == 1..MaxConnections

Hook == [to: ConnIds, topic: Topics]

Connection == [id: ConnIds, webhookIds: SUBSET Hook, status: {"active", "error"},
               lastError: BOOLEAN]

ASSUME RowAssumption == Nothing \notin Connection

\* A screen shows the upsell, the form or a connection; `pc` is where its
\* request is, `conn` the connection that the request has read or made.
Screen == [sees: {"loading", "upsell", "form", "connected"}, manual: BOOLEAN,
           pc: {"idle", "verify", "create", "hook1", "hook2", "save", "failed",
                "test", "tested", "untested", "unhook", "delete"},
           conn: ConnIds \cup {Nothing}, got: SUBSET Hook]

Loading == [sees |-> "loading", manual |-> FALSE, pc |-> "idle", conn |-> Nothing, got |-> {}]

ConnectionTypeOK ==
    /\ connection \in Connection \cup {Nothing}
    /\ hooks \in SUBSET Hook
    /\ screen \in [Screens -> Screen]
    /\ made \in 0..MaxConnections
    /\ planAllows \in BOOLEAN
    /\ shipping \in ConnIds \cup {Nothing}
    /\ faults \in 0..MaxFaults

ConnectionInit ==
    /\ connection = Nothing
    /\ hooks = {}
    /\ screen = [s \in Screens |-> Loading]
    /\ made = 0
    /\ planAllows = TRUE
    /\ shipping = Nothing
    /\ faults = 0

-----------------------------------------------------------------------------

Connected(c) == connection # Nothing /\ connection.id = c

At(s, sees, pc) == screen[s].sees = sees /\ screen[s].pc = pc

Fault == faults < MaxFaults /\ faults' = faults + 1

\* The request of a screen goes on, or ends and the screen loads again.
Goes(s, pc) == screen' = [screen EXCEPT ![s].pc = pc]
Reloads(s) == screen' = [screen EXCEPT ![s] = [Loading EXCEPT !.manual = screen[s].manual]]
ShowsError(s) == screen' = [screen EXCEPT ![s] = [@ EXCEPT !.pc = "idle", !.conn = Nothing, !.got = {}]]

\* The screen loads: what it shows is what the API answers now.
Load(s) ==
    /\ At(s, "loading", "idle")
    /\ screen' = [screen EXCEPT ![s].sees = IF ~planAllows THEN "upsell"
                                            ELSE IF connection = Nothing THEN "form" ELSE "connected"]
    /\ UNCHANGED <<connection, hooks, made, planAllows, shipping, faults>>

\* The screen is opened again; the setup that was shown is gone.
Open(s) ==
    /\ screen[s].pc = "idle"
    /\ screen[s] # Loading
    /\ screen' = [screen EXCEPT ![s] = Loading]
    /\ UNCHANGED <<connection, hooks, made, planAllows, shipping, faults>>

-----------------------------------------------------------------------------
(* Connect.                                                                *)

\* The form is sent: the plan and the absence of a connection are checked, and
\* the keys are tried at the store.
Connect(s) ==
    /\ At(s, "form", "idle")
    /\ planAllows /\ connection = Nothing
    /\ Goes(s, "create")
    /\ UNCHANGED <<connection, hooks, made, planAllows, shipping, faults>>

\* One of the checks refuses, or the keys do not work.
ConnectRefused(s) ==
    /\ At(s, "form", "idle")
    /\ ShowsError(s)
    /\ UNCHANGED <<connection, hooks, made, planAllows, shipping, faults>>

\* The row is inserted, unless another request has just inserted one.
CreateConnection(s) ==
    /\ screen[s].pc = "create"
    /\ made < MaxConnections
    /\ IF connection # Nothing
       THEN ShowsError(s) /\ UNCHANGED <<connection, made>>
       ELSE /\ made' = made + 1
            /\ connection' = [id |-> made + 1, webhookIds |-> {}, status |-> "active", lastError |-> FALSE]
            /\ screen' = [screen EXCEPT ![s].pc = "hook1", ![s].conn = made + 1]
    /\ UNCHANGED <<hooks, planAllows, shipping, faults>>

\* The webhooks are registered one after the other ...
RegisterHook(s) ==
    /\ screen[s].pc \in {"hook1", "hook2"}
    /\ LET h == [to |-> screen[s].conn,
                 topic |-> IF screen[s].pc = "hook1" THEN "order.created" ELSE "order.updated"]
       IN  /\ hooks' = hooks \cup {h}
           /\ screen' = [screen EXCEPT ![s].pc = IF @ = "hook1" THEN "hook2" ELSE "save",
                                       ![s].got = @ \cup {h}]
    /\ UNCHANGED <<connection, made, planAllows, shipping, faults>>

\* ... and when one fails, none is remembered: the error is.
RegisterFails(s) ==
    /\ screen[s].pc \in {"hook1", "hook2"}
    /\ Fault
    /\ Goes(s, "failed")
    /\ UNCHANGED <<connection, hooks, made, planAllows, shipping>>

\* What was registered before the failure is remembered.
SaveFailureKeepsHooks(s) ==
    /\ screen[s].pc = "failed"
    /\ IF Connected(screen[s].conn)
       THEN /\ connection' = [connection EXCEPT !.lastError = TRUE, !.webhookIds = screen[s].got]
            /\ screen' = [screen EXCEPT ![s] = [Loading EXCEPT !.manual = TRUE]]
       ELSE ShowsError(s) /\ UNCHANGED connection
    /\ UNCHANGED <<hooks, made, planAllows, shipping, faults>>

SaveFailure(s) ==
    /\ screen[s].pc = "failed"
    /\ IF Connected(screen[s].conn)
       THEN /\ connection' = [connection EXCEPT !.lastError = TRUE]
            /\ screen' = [screen EXCEPT ![s] = [Loading EXCEPT !.manual = TRUE]]
       ELSE ShowsError(s) /\ UNCHANGED connection
    /\ UNCHANGED <<hooks, made, planAllows, shipping, faults>>

\* The ids are saved; when the row has gone meanwhile, the request fails.
SaveHooks(s) ==
    /\ screen[s].pc = "save"
    /\ IF Connected(screen[s].conn)
       THEN /\ connection' = [connection EXCEPT !.webhookIds = screen[s].got]
            /\ screen' = [screen EXCEPT ![s] = Loading]
       ELSE ShowsError(s) /\ UNCHANGED connection
    /\ UNCHANGED <<hooks, made, planAllows, shipping, faults>>

\* The brand sets up by hand what the screen tells it to, for as long as it
\* does.
AddByHand(s, topic) ==
    /\ screen[s].manual
    /\ connection # Nothing
    /\ hooks' = hooks \cup {[to |-> connection.id, topic |-> topic]}
    /\ UNCHANGED <<connection, screen, made, planAllows, shipping, faults>>

DismissSetup(s) ==
    /\ screen[s].manual
    /\ screen' = [screen EXCEPT ![s].manual = FALSE]
    /\ UNCHANGED <<connection, hooks, made, planAllows, shipping, faults>>

-----------------------------------------------------------------------------
(* Test, disconnect and the tracking of a shipped order.                   *)

\* A request of the screen of a connection reads the row first.
Ask(s, pc) ==
    /\ At(s, "connected", "idle")
    /\ IF connection = Nothing THEN Reloads(s)
       ELSE screen' = [screen EXCEPT ![s].pc = pc, ![s].conn = connection.id,
                                    ![s].got = connection.webhookIds]
    /\ UNCHANGED <<connection, hooks, made, planAllows, shipping, faults>>

TestKeys(s) ==
    /\ screen[s].pc = "test"
    /\ \/ Goes(s, "tested") /\ UNCHANGED faults
       \/ Goes(s, "untested") /\ Fault
    /\ UNCHANGED <<connection, hooks, made, planAllows, shipping>>

\* The row as it is now, with the outcome of a call to the store.
WithOutcome(works) ==
    [connection EXCEPT !.status = IF works THEN "active" ELSE "error", !.lastError = ~works]

SaveTest(s) ==
    /\ screen[s].pc \in {"tested", "untested"}
    /\ connection' = IF Connected(screen[s].conn) THEN WithOutcome(screen[s].pc = "tested") ELSE connection
    /\ Reloads(s)
    /\ UNCHANGED <<hooks, made, planAllows, shipping, faults>>

\* Only the row is deleted.
DeleteHooksNot(s) ==
    /\ screen[s].pc = "unhook"
    /\ Goes(s, "delete")
    /\ UNCHANGED <<connection, hooks, made, planAllows, shipping, faults>>

\* The webhooks that the row names are deleted as far as the store lets us ...
DeleteHooks(s) ==
    /\ screen[s].pc = "unhook"
    /\ \/ hooks' = hooks \ screen[s].got
          /\ UNCHANGED faults
       \/ UNCHANGED hooks /\ Fault
    /\ Goes(s, "delete")
    /\ UNCHANGED <<connection, made, planAllows, shipping>>

\* ... and then the row.
DeleteConnection(s) ==
    /\ screen[s].pc = "delete"
    /\ connection' = IF Connected(screen[s].conn) THEN Nothing ELSE connection
    /\ Reloads(s)
    /\ UNCHANGED <<hooks, made, planAllows, shipping, faults>>

\* An order of the store ships: the connection is looked up ...
OrderShips ==
    /\ shipping = Nothing /\ connection # Nothing
    /\ shipping' = connection.id
    /\ UNCHANGED <<connection, hooks, screen, made, planAllows, faults>>

\* ... and the outcome of writing the tracking is stored, if the row is still
\* there.
PushTracking ==
    /\ shipping # Nothing
    /\ \E works \in BOOLEAN :
         /\ IF works THEN UNCHANGED faults ELSE Fault
         /\ connection' = IF Connected(shipping) THEN WithOutcome(works) ELSE connection
    /\ shipping' = Nothing
    /\ UNCHANGED <<hooks, screen, made, planAllows>>

\* The server stops: what it was doing is lost, and the screens show an error.
StopServer ==
    /\ Fault
    /\ \E s \in Screens : screen[s].pc # "idle"
    /\ screen' = [s \in Screens |-> IF screen[s].pc = "idle" THEN screen[s]
                                    ELSE [screen[s] EXCEPT !.pc = "idle", !.conn = Nothing, !.got = {}]]
    /\ shipping' = Nothing
    /\ UNCHANGED <<connection, hooks, made, planAllows>>

PlanChanges ==
    /\ planAllows' = ~planAllows
    /\ UNCHANGED <<connection, hooks, screen, made, shipping, faults>>

ConnectionNext ==
    \/ \E s \in Screens : Load(s) \/ Open(s) \/ Connect(s) \/ ConnectRefused(s)
         \/ CreateConnection(s) \/ RegisterHook(s) \/ RegisterFails(s) \/ SaveFailure(s) \/ SaveHooks(s)
         \/ DismissSetup(s) \/ Ask(s, "test") \/ TestKeys(s) \/ SaveTest(s)
         \/ Ask(s, "unhook") \/ DeleteHooks(s) \/ DeleteConnection(s)
    \/ \E s \in Screens, topic \in Topics : AddByHand(s, topic)
    \/ OrderShips \/ PushTracking \/ StopServer \/ PlanChanges

-----------------------------------------------------------------------------
(* Properties.                                                             *)

\* The screen calls a connection with saved ids "Registered automatically"
\* (Store.tsx:205): when they are saved, both webhooks are at
\* the store, and a registration that stopped half-way is never taken for a
\* complete one.
SavedIsComplete ==
    [][connection # Nothing /\ connection' # Nothing
       /\ connection.webhookIds = {} /\ connection'.webhookIds # {}
       => \A topic \in Topics : [to |-> connection'.id, topic |-> topic] \in hooks']_connectionVars

\* As long as no call failed and the screens act one after the other, the store
\* holds no webhook of a connection that is gone: a disconnect takes back what
\* a connect registered ("tears down our webhooks", brand-store.ts:340).
NoStrayHooks ==
    faults = 0 /\ (\A s \in Screens : screen[s].pc = "idle") => \A h \in hooks : Connected(h.to)
=============================================================================
