---------------------------- MODULE MCOrderPath ----------------------------
(* Instances of OrderPath for TLC: two fires of any kinds, or two changes  *)
(* of the resting order.  The tasks are interchangeable, so each pair of   *)
(* kinds appears once.                                                     *)
EXTENDS OrderPath

CONSTANTS f1, f2

NotSent == Fire \ {"real"}
FirePairs == ({"real"} \X Fire) \cup (NotSent \X NotSent)
ChangePairs ==
  { <<"cancel", k>> : k \in Change } \cup { <<"reduce_to", "reduce_to">> } \cup
  { <<"reduce_by", k>> : k \in {"reduce_to", "reduce_by"} }

\* Two real fires only under fill_or_kill; what rests does so for each by itself.
MCMixes ==
  { [kind |-> [f \in Fires |-> IF f = f1 THEN p[1] ELSE p[2]], time_in_force |-> "fill_or_kill"] :
      p \in FirePairs \cup ChangePairs }
    \cup { [kind |-> [f \in Fires |-> IF f = f1 THEN "real" ELSE k],
            time_in_force |-> "good_till_canceled"] : k \in NotSent }
=============================================================================
