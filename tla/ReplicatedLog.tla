---------------------------- MODULE ReplicatedLog ----------------------------
(***************************************************************************)
(* What a consensus promises of the requests its replicas execute: only    *)
(* what was requested, under one number the same request everywhere, and   *)
(* on each replica in the order of the numbers, each at most once.  Pbft   *)
(* is shown to implement it.                                               *)
(***************************************************************************)
EXTENDS Integers, Sequences

CONSTANTS Replicas, Numbers, Digests, NoDigest

VARIABLES
    requested,   \* the requests that were given a number
    chosen,      \* the request each number stands for, once it is executed
    applied      \* the numbers each replica has executed, in order

logVars == <<requested, chosen, applied>>

Init ==
    /\ requested = {}
    /\ chosen = [n \in Numbers |-> NoDigest]
    /\ applied = [r \in Replicas |-> <<>>]

\* A number may be given to several requests; at most one is executed.
Request(n, d) ==
    /\ requested' = requested \cup {<<n, d>>}
    /\ UNCHANGED <<chosen, applied>>

Apply(r, n, d) ==
    /\ <<n, d>> \in requested
    /\ chosen[n] \in {NoDigest, d}
    /\ \A k \in DOMAIN applied[r] : applied[r][k] < n
    /\ chosen' = [chosen EXCEPT ![n] = d]
    /\ applied' = [applied EXCEPT ![r] = Append(@, n)]
    /\ UNCHANGED requested

Next == \E n \in Numbers, d \in Digests : \/ Request(n, d)
                                          \/ \E r \in Replicas : Apply(r, n, d)

Spec == Init /\ [][Next]_logVars
=============================================================================
