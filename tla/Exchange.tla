------------------------------ MODULE Exchange ------------------------------
(***************************************************************************)
(* What a request over a socket promises its caller, whichever bus carries *)
(* it: the far end takes a request up at most once and only if it was      *)
(* sent; the caller is given one result, and "answered" only after the far *)
(* end took the request up.  A caller may give up at any time, and what it *)
(* sent may be taken up after that, or never.                              *)
(***************************************************************************)
CONSTANT Requests

VARIABLES
    sent,       \* the requests handed to a connection
    taken,      \* the requests the far end has taken up
    result      \* what the caller of each request was given
vars == <<sent, taken, result>>

Init ==
    /\ sent = {} /\ taken = {}
    /\ result = [i \in Requests |-> "none"]

Hand(i) ==
    /\ i \notin sent /\ result[i] = "none"
    /\ sent' = sent \cup {i}
    /\ UNCHANGED <<taken, result>>

Take(i) ==
    /\ i \in sent \ taken
    /\ taken' = taken \cup {i}
    /\ UNCHANGED <<sent, result>>

Answer(i) ==
    /\ i \in taken /\ result[i] = "none"
    /\ result' = [result EXCEPT ![i] = "answered"]
    /\ UNCHANGED <<sent, taken>>

Fail(i) ==
    /\ result[i] = "none"
    /\ result' = [result EXCEPT ![i] = "failed"]
    /\ UNCHANGED <<sent, taken>>

Next == \E i \in Requests : Hand(i) \/ Take(i) \/ Answer(i) \/ Fail(i)

Spec == Init /\ [][Next]_vars
=============================================================================
