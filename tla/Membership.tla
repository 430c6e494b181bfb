----------------------------- MODULE Membership -----------------------------
(***************************************************************************)
(* What cluster membership gossip promises (spec 4.2), without rounds or  *)
(* messages: each node's view of the cluster only grows in the knowledge  *)
(* order (more nodes known, newer heartbeats, Dead once Dead), and no     *)
(* step makes a node know more than the nodes together knew before it,   *)
(* except a node advancing its own heartbeat or detecting locally that a  *)
(* node whose server is down is Dead.                                     *)
(***************************************************************************)
EXTENDS Integers

CONSTANTS
    Nodes,          \* node ids
    Up,             \* the nodes whose gossip server is running
    InitView,       \* node -> initial view
    MaxHeartbeat    \* bound on heartbeat versions

VARIABLE view       \* node -> partial function id -> [state, ver]

\* Entry l carries no more knowledge than entry r.
EntryLeq(l, r) == l.ver <= r.ver /\ (l.state = "Dead" => r.state = "Dead")

\* View l carries no more knowledge than view r.
Leq(l, r) == DOMAIN l \subseteq DOMAIN r /\ \A x \in DOMAIN l : EntryLeq(l[x], r[x])

(* View v holds nothing beyond the join of all views: no version higher *)
(* than some node holds for that node, and Dead only where some node      *)
(* holds it Dead.                                                         *)
Known(v) ==
    \A x \in DOMAIN v :
        /\ \E j \in Nodes : x \in DOMAIN view[j] /\ v[x].ver <= view[j][x].ver
        /\ v[x].state = "Dead" =>
              \E j \in Nodes : x \in DOMAIN view[j] /\ view[j][x].state = "Dead"

\* Node i's view moves up to knowledge some nodes already held.
Learn(i) ==
    /\ Leq(view[i], view'[i])
    /\ Known(view'[i])
    /\ \A j \in Nodes \ {i} : view'[j] = view[j]

\* Node i learns, then advances its own heartbeat by one, within the bound.
Beat(i) ==
    /\ i \in DOMAIN view'[i]
    /\ view'[i][i].ver <= MaxHeartbeat
    /\ LET learnt == [view'[i] EXCEPT ![i].ver = @ - 1]
       IN  /\ Leq(view[i], learnt) /\ Known(learnt)
    /\ \A j \in Nodes \ {i} : view'[j] = view[j]

\* Node i marks a known node whose server is down Dead.
Detect(i, x) ==
    /\ x \in DOMAIN view[i] \ Up
    /\ view' = [view EXCEPT ![i][x].state = "Dead"]

Init == view = InitView

Next == \E i \in Nodes : Learn(i) \/ Beat(i) \/ (\E x \in Nodes : Detect(i, x))

Spec == Init /\ [][Next]_view

=============================================================================
