---------------------------- MODULE Provisioning ----------------------------
(***************************************************************************)
(* What the checkout promises, whatever the order, duplication or loss of  *)
(* the notifications Mercado Pago sends: a checkout session is given at    *)
(* most one subscriber and at most one signup invitation, and neither      *)
(* before one of its payments was approved.  Checkout.tla implements it.   *)
(***************************************************************************)
EXTENDS Naturals

CONSTANT Sessions

VARIABLES charged,      \* the sessions a payment of which was approved
          provisioned,  \* the sessions that own a subscriber row
          invites       \* how many signup invitations each session was mailed

vars == <<charged, provisioned, invites>>

Init ==
    /\ charged = {}
    /\ provisioned = {}
    /\ invites = [s \in Sessions |-> 0]

Charge(s) ==
    /\ s \notin charged
    /\ charged' = charged \cup {s}
    /\ UNCHANGED <<provisioned, invites>>

Provision(s) ==
    /\ s \in charged \ provisioned
    /\ provisioned' = provisioned \cup {s}
    /\ UNCHANGED <<charged, invites>>

Invite(s) ==
    /\ s \in charged
    /\ invites[s] = 0
    /\ invites' = [invites EXCEPT ![s] = 1]
    /\ UNCHANGED <<charged, provisioned>>

Next == \E s \in Sessions : Charge(s) \/ Provision(s) \/ Invite(s)

Spec == Init /\ [][Next]_vars
=============================================================================
