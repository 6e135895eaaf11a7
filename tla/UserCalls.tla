------------------------------ MODULE UserCalls ------------------------------
(***************************************************************************)
(* What the user calls of VMMonUserCall promise: a processor that calls    *)
(* waits until the call is answered, once, and then runs again.            *)
(***************************************************************************)
CONSTANT Vcpus

VARIABLE status     \* [Vcpus -> {"running", "calling", "answered"}]

Init == status = [v \in Vcpus |-> "running"]

Step(v, from, to) == status[v] = from /\ status' = [status EXCEPT ![v] = to]

Call(v) == Step(v, "running", "calling")
Answer(v) == Step(v, "calling", "answered")
Return(v) == Step(v, "answered", "running")

Next == \E v \in Vcpus : Call(v) \/ Answer(v) \/ Return(v)

Spec == /\ Init /\ [][Next]_status
        /\ \A v \in Vcpus : WF_status(Answer(v)) /\ WF_status(Return(v))
=============================================================================
