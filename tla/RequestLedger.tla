---------------------------- MODULE RequestLedger ----------------------------
(***************************************************************************)
(* What the Request Pool Manager promises the views (spec.md sections 1   *)
(* and 4.2): work in flight is never lost or duplicated.  The ledger is    *)
(* the bag of requests in flight.  A request leaves it only when one of   *)
(* its own events ends it, and the handler of that event may send only the *)
(* continuation of the same work; any other request is sent by a user      *)
(* action, one at a time, and adds to the bag without taking anything out. *)
(***************************************************************************)
EXTENDS Bags

CONSTANTS
    Initial,      \* the requests in flight once the page has started
    Issuable,     \* the requests a user action may send
    FollowUps(_)  \* FollowUps(r): the requests the handler ending r may send

VARIABLE inflight   \* bag of the requests in flight

One(r) == SetToBag({r})

LedgerInit == inflight = SetToBag(Initial)

\* A user action sends one request; nothing in flight is touched.
Issue ==
    /\ inflight \sqsubseteq inflight'
    /\ BagCardinality(inflight' (-) inflight) = 1
    /\ BagToSet(inflight' (-) inflight) \subseteq Issuable

\* An event of r (success, error, 401, timeout) ends it; its handler sends
\* at most one continuation of r.
End(r) ==
    \/ inflight' = inflight (-) One(r)
    \/ \E f \in FollowUps(r) : inflight' = (inflight (-) One(r)) (+) One(f)

LedgerNext == Issue \/ \E r \in BagToSet(inflight) : End(r)

LedgerSpec == LedgerInit /\ [][LedgerNext]_inflight

=============================================================================
