----------------------------- MODULE MCPbftViews -----------------------------
(* Four replicas of PBFT and one number, given out by every view's primary *)
(* until two replicas have executed it.  The calls follow a schedule, so   *)
(* that a behaviour of sixteen rounds of delivery is in reach; each        *)
(* behaviour is one of Spec.                                               *)
EXTENDS Pbft

CONSTANTS a, b

VARIABLE step   \* the calls of the schedule that were made

Vote(r)       == [call |-> "start_view_change", replica |-> r, digest |-> NoDigest]
Request(r, d) == [call |-> "handle_request", replica |-> r, digest |-> d]
Delivery      == [call |-> "deliver", replica |-> 0, digest |-> NoDigest]

\* A view is voted for, and its primary gets a request.
NewView(voters, r, d) ==
    [k \in DOMAIN voters |-> Vote(voters[k])] \o <<Delivery, Request(r, d), Delivery>>

All == <<0, 1, 2, 3>>

\* A request and a view change that meet leave each replica with an entry for
\* number 0, in different views and none of them prepared; the six primaries
\* that follow replace their own, and keep the others'.
Schedule ==
    <<Vote(3), Vote(1), Delivery, Vote(2), Request(0, a), Delivery, Request(1, b), Delivery>>
    \o NewView(<<0, 1, 3>>, 2, a) \o NewView(All, 3, a) \o NewView(All, 0, a)
    \o NewView(All, 1, b)
    \o [k \in DOMAIN All |-> Vote(All[k])] \o <<Delivery>>
    \o NewView(All, 3, b) \o NewView(All, 0, b)

Scheduled(call) ==
    \/ /\ call.call = "start_view_change" /\ StartViewChange(call.replica)
       /\ step' = step + 1
    \/ /\ call.call = "handle_request" /\ HandleRequest(call.replica, call.digest)
       /\ step' = step + 1
    \/ /\ call.call = "deliver" /\ Deliver
       /\ step' = IF draining' THEN step ELSE step + 1

ScheduledSpec ==
    /\ Init /\ step = 0
    /\ [][step < Len(Schedule) /\ Scheduled(Schedule[step + 1])]_<<vars, step>>
=============================================================================
