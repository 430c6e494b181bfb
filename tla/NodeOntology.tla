---------------------------- MODULE NodeOntology ----------------------------
(***************************************************************************)
(* NodeOntologyService of synnax/pkg/distribution/core/ontology.go: it     *)
(* mirrors the cluster's nodes into the resource ontology.                *)
(* ListenForChanges runs update on a PeekState snapshot and then registers *)
(* update with Cluster.OnChange; from then on every change of the cluster *)
(* state delivers the whole new state to update.  update defines the       *)
(* cluster resource under Root and, for every node of the state, a node   *)
(* resource under the cluster; a failed write is logged and skipped.      *)
(*                                                                         *)
(* The cluster changes when a node joins or when a heartbeat is merged    *)
(* (any gossip round).  The store notifies observers as part of the       *)
(* mutation (spec 4.1), so a notified update is one step with it.         *)
(***************************************************************************)
EXTENDS Integers, FiniteSets

CONSTANTS
    Nodes,          \* node ids that may join the cluster
    Initial,        \* the nodes in the cluster state when the service starts
    MaxWriteFaults  \* bound on failed DefineResource / DefineRelationship calls

VARIABLES
    cluster,        \* ids of the nodes in the cluster state
    tick,           \* flips on every heartbeat change of the cluster state
    pc,             \* ListenForChanges: "start", "peeked" or "listening"
    resources,      \* resources defined in the ontology
    rels,           \* ParentOf relationships defined: <<parent, child>>
    faults          \* failed ontology writes so far

vars == <<cluster, tick, pc, resources, rels, faults>>

Root == "root"
ClusterID == "cluster"
Resources == {ClusterID} \cup Nodes

\* The writes update(state) issues for a state with node set s.
ResourceWrites(s) == {ClusterID} \cup s
RelWrites(s) == {<<Root, ClusterID>>} \cup {<<ClusterID, x>> : x \in s}

----------------------------------------------------------------------------
(* update(state): every DefineResource and DefineRelationship is issued;  *)
(* the ones in failedR / failedL return an error, which is only logged.   *)
DoUpdate(s, failedR, failedL) ==
    /\ resources' = resources \cup (ResourceWrites(s) \ failedR)
    /\ rels' = rels \cup (RelWrites(s) \ failedL)
    /\ faults' = faults + Cardinality(failedR) + Cardinality(failedL)

\* Mutant: the relationships of the nodes are never defined.
UpdateNoNodeRels(s) ==
    \E fR \in SUBSET ResourceWrites(s) :
        /\ faults + Cardinality(fR) <= MaxWriteFaults
        /\ resources' = resources \cup (ResourceWrites(s) \ fR)
        /\ rels' = rels \cup {<<Root, ClusterID>>}
        /\ faults' = faults + Cardinality(fR)

\* Mutant: DefineRelationship(nodeID, ParentOf, clusterID), arguments swapped.
UpdateSwappedRel(s) ==
    \E fR \in SUBSET ResourceWrites(s) :
        /\ faults + Cardinality(fR) <= MaxWriteFaults
        /\ resources' = resources \cup (ResourceWrites(s) \ fR)
        /\ rels' = rels \cup {<<Root, ClusterID>>} \cup {<<x, ClusterID>> : x \in s}
        /\ faults' = faults + Cardinality(fR)

(* update with any set of failing writes within the fault bound. *)
Update(s) ==
    \E fR \in SUBSET ResourceWrites(s), fL \in SUBSET RelWrites(s) :
        /\ faults + Cardinality(fR) + Cardinality(fL) <= MaxWriteFaults
        /\ DoUpdate(s, fR, fL)

\* Notify the observer registered by ListenForChanges, if there is one yet.
Notify(s) ==
    IF pc = "listening" THEN Update(s)
    ELSE UNCHANGED <<resources, rels, faults>>

----------------------------------------------------------------------------
Init ==
    /\ cluster = Initial
    /\ tick = 0
    /\ pc = "start"
    /\ resources = {}
    /\ rels = {}
    /\ faults = 0

\* ListenForChanges, first statement: s.update(s.Cluster.PeekState()).
Peek ==
    /\ pc = "start"
    /\ Update(cluster)
    /\ pc' = "peeked"
    /\ UNCHANGED <<cluster, tick>>

\* ListenForChanges, second statement: s.Cluster.OnChange(s.update).
Register ==
    /\ pc = "peeked"
    /\ pc' = "listening"
    /\ UNCHANGED <<cluster, tick, resources, rels, faults>>

\* A node joins the cluster state; observers receive the new state.
Join(x) ==
    /\ x \notin cluster
    /\ cluster' = cluster \cup {x}
    /\ Notify(cluster')
    /\ UNCHANGED <<tick, pc>>

\* A merged heartbeat changes the state without changing its node set.
Heartbeat ==
    /\ tick' = 1 - tick
    /\ Notify(cluster)
    /\ UNCHANGED <<cluster, pc>>

Next ==
    \/ Peek \/ Register \/ Heartbeat
    \/ \E x \in Nodes : Join(x)

(* ListenForChanges runs its two statements in order; gossip keeps        *)
(* merging heartbeats for as long as the cluster runs.                    *)
Spec == Init /\ [][Next]_vars /\ WF_vars(Peek) /\ WF_vars(Register) /\ WF_vars(Heartbeat)

----------------------------------------------------------------------------
TypeOK ==
    /\ cluster \subseteq Nodes
    /\ tick \in {0, 1}
    /\ pc \in {"start", "peeked", "listening"}
    /\ resources \subseteq Resources
    /\ rels \subseteq RelWrites(Nodes)
    /\ faults \in 0..MaxWriteFaults

\* Node x is fully mirrored: its resource and its place under the cluster.
Mirrored(x) == x \in resources /\ <<ClusterID, x>> \in rels

(* Every node of the cluster state, including one that joins between the *)
(* PeekState snapshot and the OnChange registration and one whose writes  *)
(* failed, is eventually mirrored in the ontology: the next notification  *)
(* carries the whole state and update redefines every node.               *)
EventuallyMirrored == \A x \in Nodes : (x \in cluster) ~> Mirrored(x)

(* Once the service listens for changes and no write has failed, every    *)
(* node in the cluster state is mirrored.                                 *)
MirroredWhileListening ==
    (pc = "listening" /\ faults = 0) => \A x \in cluster : Mirrored(x)

=============================================================================
