----------------------------- MODULE AuditTrail -----------------------------
(***************************************************************************)
(* What the orders_fired table promises about an order, whatever carries   *)
(* its rows there: a row only for an order that was sent, a resolved row   *)
(* only for one whose dispatch has ended, and never a step back.  It does  *)
(* not promise that a row arrives.                                         *)
(***************************************************************************)
CONSTANT Ids                  \* client_order_ids

VARIABLES
  stage,                      \* what the dispatcher did with the order
  trail                       \* its row in the database

Stages == {"new", "sent", "ended"}

Init ==
  /\ stage = [i \in Ids |-> "new"]
  /\ trail = [i \in Ids |-> "absent"]

Send(i) ==
  /\ stage[i] = "new"
  /\ stage' = [stage EXCEPT ![i] = "sent"]
  /\ UNCHANGED trail

End(i) ==
  /\ stage[i] = "sent"
  /\ stage' = [stage EXCEPT ![i] = "ended"]
  /\ UNCHANGED trail

\* What one transaction may do to one row.
MayBecome(i, r) ==
  \/ r = trail[i]
  \/ r = "pending" /\ trail[i] = "absent" /\ stage[i] # "new"
  \/ r = "resolved" /\ stage[i] = "ended"

Commit ==
  /\ trail' \in [Ids -> {"absent", "pending", "resolved"}]
  /\ \A i \in Ids : MayBecome(i, trail'[i])
  /\ UNCHANGED stage

Next == (\E i \in Ids : Send(i) \/ End(i)) \/ Commit

Spec == Init /\ [][Next]_<<stage, trail>>

=============================================================================
