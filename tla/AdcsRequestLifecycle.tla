------------------------ MODULE AdcsRequestLifecycle ------------------------
(***************************************************************************)
(* What the AdcsRequest type promises (src/api/v1/adcsrequest_types.go):   *)
(* the states 'ready' and 'rejected' are final, as issuer.go says of every *)
(* state but 'pending', and the ADCS id is immutable once it is set.       *)
(***************************************************************************)
CONSTANTS
    Names,
    Ids,        \* what the id of an accepted request can be
    Unset       \* the id of a request that is not accepted yet

VARIABLE request    \* for each name: whether there is an AdcsRequest, its state and its id

FinalState == {"Ready", "Rejected", "Errored"}

Absent == [live |-> FALSE, state |-> "Unknown", id |-> Unset]
Fresh == [live |-> TRUE, state |-> "Unknown", id |-> Unset]

Become(n, r) == request' = [request EXCEPT ![n] = r]

Create(n) == request[n] = Absent /\ Become(n, Fresh)

(* ADCS has taken the request: its first answer may be the last. *)
Accept(n) ==
    /\ request[n] = Fresh
    /\ \E s \in FinalState \cup {"Pending"}, id \in Ids :
         Become(n, [live |-> TRUE, state |-> s, id |-> id])

(* The verdict on a pending request. *)
Conclude(n) ==
    /\ request[n].live /\ request[n].state = "Pending"
    /\ \E s \in FinalState : Become(n, [request[n] EXCEPT !.state = s])

Remove(n) == request[n].live /\ Become(n, Absent)

Init == request = [n \in Names |-> Absent]
Next == \E n \in Names : Create(n) \/ Accept(n) \/ Conclude(n) \/ Remove(n)
Spec == Init /\ [][Next]_request
=============================================================================
