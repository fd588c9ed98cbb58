------------------------------ MODULE OneShot ------------------------------
(***************************************************************************)
(* What a proposed action of the assistant promises to the user it was     *)
(* proposed to: from the moment it is open it ends once, as confirmed,     *)
(* cancelled or lapsed, and what has ended never opens again and never     *)
(* changes its end.  AiActions is shown to implement it.                   *)
(***************************************************************************)
CONSTANT Ids
VARIABLE fate

Fates == {"unborn", "open", "confirmed", "cancelled", "lapsed"}

Init == fate = [i \in Ids |-> "unborn"]

Propose(i) == fate[i] = "unborn" /\ fate' = [fate EXCEPT ![i] = "open"]

Settle(i, end) == fate[i] = "open" /\ fate' = [fate EXCEPT ![i] = end]

\* Expired actions are purged in one statement, and the purge may come with a
\* new proposal.
Lapse ==
  \E gone \in SUBSET {i \in Ids : fate[i] = "open"}, new \in SUBSET {i \in Ids : fate[i] = "unborn"} :
    fate' = [i \in Ids |-> IF i \in gone THEN "lapsed" ELSE IF i \in new THEN "open" ELSE fate[i]]

Next ==
  \/ Lapse
  \/ \E i \in Ids : Propose(i) \/ \E end \in {"confirmed", "cancelled"} : Settle(i, end)

Spec == Init /\ [][Next]_fate

=============================================================================
