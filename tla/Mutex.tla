------------------------------- MODULE Mutex -------------------------------
(***************************************************************************)
(* What the two Redis claims of the service promise: for each resource, at *)
(* most one process is inside at a time.  A process that is inside may     *)
(* leave at any moment (it finished, failed or died); nobody enters while  *)
(* another is inside.  Lock keys, tokens and time do not appear here.      *)
(***************************************************************************)
CONSTANTS Proc, Res

VARIABLE inside   \* resource -> processes inside

Init == inside = [x \in Res |-> {}]

Enter(p, x) ==
    /\ inside[x] = {}
    /\ inside' = [inside EXCEPT ![x] = {p}]

Leave(p, x) ==
    /\ p \in inside[x]
    /\ inside' = [inside EXCEPT ![x] = inside[x] \ {p}]

Next == \E p \in Proc, x \in Res : Enter(p, x) \/ Leave(p, x)

Spec == Init /\ [][Next]_inside
=============================================================================
