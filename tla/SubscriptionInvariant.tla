------------------------ MODULE SubscriptionInvariant ------------------------
(***************************************************************************)
(* The inductive invariant of the subscriber's life, in named parts: what  *)
(* the copies that a job and the sweep hold say of the row they came from. *)
(***************************************************************************)
EXTENDS Subscription

(* Charges and cancellations find a bought subscriber, and hold its row.   *)
Held ==
    \A j \in Jobs : job[j].at # "idle" => job[j].s \in Bought /\ job[j].copy \in Row

(* What the sweep found had expired then, and time does not go back.       *)
Swept ==
    \A s \in Subscribers : sweep[s] # None => sweep[s].active /\ sweep[s].end < now

(* A charge is recorded by its first notification, before it extends, and  *)
(* pays for one period from then: what an active row gives is, without an  *)
(* administrator and while no extension is due, all that was paid for.     *)
Charged ==
    /\ \A s \in Subscribers : paidUntil[s] <= now + Period
    /\ \A j \in Jobs :
          /\ job[j].since <= now
          /\ job[j].at = "extend" => job[j].since + Period <= paidUntil[job[j].s]
    /\ \A s \in Bought :
          /\ Exists(s) /\ row[s].active
          /\ touched[s] \cap {"patched", "charged"} = {}
          => paidUntil[s] <= row[s].end

IInv == TypeOK /\ Held /\ Swept /\ Charged /\ PaidKeepsAccess /\ ActiveMeansPaid
=============================================================================
