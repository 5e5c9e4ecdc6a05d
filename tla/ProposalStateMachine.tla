------------------------ MODULE ProposalStateMachine ------------------------
(***************************************************************************)
(* What the evolution queue promises of one proposal: the state machine    *)
(* the admin API documents, with the shadow tester's and the monitor's     *)
(* transitions.                                                            *)
(***************************************************************************)
CONSTANT Proposals

VARIABLE state      \* the status of each proposal
vars == <<state>>

Init == state = [p \in Proposals |-> "absent"]

Move(p, from, to) ==
    /\ state[p] \in from
    /\ state' = [state EXCEPT ![p] = to]

File(p)     == Move(p, {"absent"}, "pending")
Claim(p)    == Move(p, {"pending"}, "shadow_running")
Tested(p)   == Move(p, {"shadow_running"}, "shadow_done")
Approve(p)  == Move(p, {"pending", "shadow_done"}, "approved")
Deny(p)     == Move(p, {"pending", "shadow_done"}, "denied")
Apply(p)    == Move(p, {"approved"}, "applied")
RollBack(p) == Move(p, {"applied"}, "rolled_back")

Next == \E p \in Proposals :
            \/ File(p) \/ Claim(p) \/ Tested(p) \/ Approve(p) \/ Deny(p)
            \/ Apply(p) \/ RollBack(p)

Spec == Init /\ [][Next]_vars
=============================================================================
