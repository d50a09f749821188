---------------------------- MODULE ResourcePool ----------------------------
(***************************************************************************)
(* What QgsConnectionPool promises its callers (class comment,             *)
(* qgsconnectionpool.h:220-233): a caller that asks gets a connection that *)
(* nobody else has, or null; no more than Limit connections are out.       *)
(***************************************************************************)
EXTENDS Naturals, FiniteSets

CONSTANTS Clients, Resources, Limit

VARIABLES
    out,       \* the resources each client has
    asking     \* clients inside acquireConnection()

AllOut == UNION {out[k] : k \in Clients}

Init ==
    /\ out = [k \in Clients |-> {}]
    /\ asking = {}

Ask(k) ==
    /\ k \notin asking
    /\ asking' = asking \union {k}
    /\ UNCHANGED out

Grant(k, r) ==
    /\ k \in asking
    /\ r \notin AllOut
    /\ Cardinality(AllOut) < Limit
    /\ out' = [out EXCEPT ![k] = @ \union {r}]
    /\ asking' = asking \ {k}

Refuse(k) ==
    /\ k \in asking
    /\ asking' = asking \ {k}
    /\ UNCHANGED out

GiveBack(k, r) ==
    /\ k \notin asking
    /\ r \in out[k]
    /\ out' = [out EXCEPT ![k] = @ \ {r}]
    /\ UNCHANGED asking

Next ==
    \E k \in Clients :
        \/ Ask(k)
        \/ Refuse(k)
        \/ \E r \in Resources : Grant(k, r) \/ GiveBack(k, r)

Spec == Init /\ [][Next]_<<out, asking>>
=============================================================================
