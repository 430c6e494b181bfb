------------------------------- MODULE Gossip -------------------------------
(***************************************************************************)
(* The cluster membership gossip of aspen/internal/cluster/gossip: every   *)
(* node keeps a view (ClusterState.Nodes) of every node it has heard of,   *)
(* with a state and a heartbeat version.  A node running GoGossip starts   *)
(* rounds: it sends its view to a known peer, the peer merges it into its  *)
(* own store and answers with its view, and the initiator merges the       *)
(* answer and then increments its own heartbeat.  A round whose request or *)
(* answer is lost, or whose peer is down, is abandoned.                    *)
(*                                                                         *)
(* The engine's source is not part of this repository; only its test       *)
(* (gossip_test.go) is.  Every action here follows spec section 4.2 and   *)
(* the initial views follow the test.  Addresses and generations are      *)
(* abstracted: no modelled step restarts a node, so a generation never    *)
(* changes.  Suspect and Left are not set by any modelled step.           *)
(***************************************************************************)
EXTENDS Integers, FiniteSets, TLC

CONSTANTS
    Nodes,          \* node ids
    Up,             \* the nodes whose gossip server is running
    Initiators,     \* the nodes running GoGossip (a subset of Up)
    InitView,       \* node -> initial view (a store.State's Nodes)
    MaxRounds,      \* bound on the rounds an initiator completes with each peer
    MaxFaults       \* bound on messages lost or rounds timed out while in flight

ASSUME Initiators \subseteq Up /\ Up \subseteq Nodes

VARIABLES
    view,           \* node -> partial function id -> [state, ver]
    round,          \* node -> the peer of its round in progress, or 0
    msgs,           \* messages in flight: [type, from, to, nodes]
    cancelled,      \* nodes whose GoGossip context has been cancelled
    completed,      \* initiator -> peer -> rounds completed (the bound's counter)
    faults,         \* messages lost or rounds timed out so far
    knew            \* history: i -> j -> i's view when the pair last had a round to run

pvars == <<view, round, msgs, cancelled, completed, faults>>  \* the protocol's own
vars == <<view, round, msgs, cancelled, completed, faults, knew>>

States == {"Healthy", "Dead"}
NoRound == 0

(* The highest heartbeat a run reaches: the highest initial one, plus one *)
(* per completed round, at most MaxRounds with each other node.           *)
InitVers == UNION {{InitView[n][x].ver : x \in DOMAIN InitView[n]} : n \in Nodes}
MaxHeartbeat ==
    (CHOOSE v \in InitVers : \A w \in InitVers : w <= v) + MaxRounds * (Cardinality(Nodes) - 1)
Entry == [state: States, ver: 0..MaxHeartbeat]

----------------------------------------------------------------------------
\* Mutant: the higher version wins outright, state included.
MergeEntryVersionWins(l, r) ==
    IF r.ver > l.ver THEN r ELSE l

\* Mutant: the received entry always replaces the local one.
MergeEntryRemoteWins(l, r) ==
    [r EXCEPT !.state = IF "Dead" \in {l.state, r.state} THEN "Dead" ELSE r.state]

(* Merge of one node's entry (spec 4.2 rules 2 and 3): the higher         *)
(* heartbeat version wins, the local entry on a tie; Dead is sticky and   *)
(* wins whatever the versions.                                            *)
MergeEntry(l, r) ==
    LET w == IF r.ver > l.ver THEN r ELSE l
    IN  [w EXCEPT !.state = IF "Dead" \in {l.state, r.state} THEN "Dead" ELSE w.state]

\* Mutant: only entries already known locally are updated.
MergeKnownOnly(l, r) ==
    [x \in DOMAIN l |-> IF x \notin DOMAIN r THEN l[x] ELSE MergeEntry(l[x], r[x])]

(* Merge of a received view into the local one (spec 4.2 rule 1): an      *)
(* entry known to one side only is adopted, so coverage never shrinks.    *)
Merge(l, r) ==
    [x \in DOMAIN l \cup DOMAIN r |->
        IF x \notin DOMAIN r THEN l[x]
        ELSE IF x \notin DOMAIN l THEN r[x]
        ELSE MergeEntry(l[x], r[x])]

\* The messages that belong to node i's round in progress.
RoundMsgs(i) ==
    {m \in msgs : \/ m.type = "request" /\ m.from = i
                  \/ m.type = "response" /\ m.to = i}

----------------------------------------------------------------------------
Init ==
    /\ view = InitView
    /\ round = [n \in Nodes |-> NoRound]
    /\ msgs = {}
    /\ cancelled = {}
    /\ completed = [i \in Nodes |-> [p \in Nodes |-> 0]]
    /\ faults = 0
    /\ knew = [i \in Up |-> [j \in Up |-> InitView[i]]]

(* Initiator i will still start a round with p: it is not cancelled and  *)
(* has rounds with p left besides the one in flight.                      *)
Gossiping(i, p) ==
    /\ i \in Initiators \ cancelled
    /\ completed[i][p] + (IF round[i] = p THEN 1 ELSE 0) < MaxRounds

(* History, no code counterpart: knew[i][j] is i's view at the last     *)
(* state in which i or j still had a round with the other to run.        *)
RecordKnew ==
    knew' = [i \in Up |-> [j \in Up |->
                IF (Gossiping(i, j) \/ Gossiping(j, i))' THEN view'[i] ELSE knew[i][j]]]

(* GossipOnce, first half: pick a known peer other than self and send it  *)
(* a snapshot of the local view.  A cancelled GoGossip starts no round.   *)
(* The model stops an initiator's rounds with p after MaxRounds of them.  *)
GossipOnce(i, p) ==
    /\ i \in Initiators \ cancelled
    /\ round[i] = NoRound
    /\ completed[i][p] < MaxRounds
    /\ p \in DOMAIN view[i] \ {i}
    /\ round' = [round EXCEPT ![i] = p]
    /\ msgs' = msgs \cup {[type |-> "request", from |-> i, to |-> p, nodes |-> view[i]]}
    /\ UNCHANGED <<view, cancelled, completed, faults>>

(* The peer's handler: merge the request into its store under the lock    *)
(* and answer with the merged view.                                       *)
Handle(m) ==
    /\ m.type = "request"
    /\ m.to \in Up
    /\ LET merged == Merge(view[m.to], m.nodes)
       IN  /\ view' = [view EXCEPT ![m.to] = merged]
           /\ msgs' = (msgs \ {m}) \cup
                      {[type |-> "response", from |-> m.to, to |-> m.from, nodes |-> merged]}
    /\ UNCHANGED <<round, cancelled, completed, faults>>

\* Mutant: the heartbeat of the answering peer is incremented, not the own.
CompleteBumpsPeer(m) ==
    /\ m.type = "response"
    /\ round[m.to] = m.from
    /\ LET i == m.to
       IN  /\ view' = IF i \in cancelled THEN view
                      ELSE LET merged == Merge(view[i], m.nodes)
                           IN  [view EXCEPT ![i] = [merged EXCEPT ![m.from].ver = @ + 1]]
           /\ round' = [round EXCEPT ![i] = NoRound]
           /\ completed' = [completed EXCEPT ![i][m.from] = @ + 1]
    /\ msgs' = msgs \ {m}
    /\ UNCHANGED <<cancelled, faults>>

(* GossipOnce, second half: merge the answer, then increment the own      *)
(* heartbeat once for the completed round.  If the context was cancelled  *)
(* while the call was in flight the answer is discarded.                  *)
Complete(m) ==
    /\ m.type = "response"
    /\ round[m.to] = m.from
    /\ LET i == m.to
       IN  /\ view' = IF i \in cancelled THEN view
                      ELSE LET merged == Merge(view[i], m.nodes)
                           IN  [view EXCEPT ![i] = [merged EXCEPT ![i].ver = @ + 1]]
           /\ round' = [round EXCEPT ![i] = NoRound]
           /\ completed' = [completed EXCEPT ![i][m.from] = @ + 1]
    /\ msgs' = msgs \ {m}
    /\ UNCHANGED <<cancelled, faults>>

(* The peer's server is not running: the call fails and the round is     *)
(* abandoned, to be retried by a later round.                             *)
Unreachable(i) ==
    /\ round[i] # NoRound
    /\ round[i] \notin Up
    /\ round' = [round EXCEPT ![i] = NoRound]
    /\ msgs' = msgs \ RoundMsgs(i)
    /\ UNCHANGED <<view, cancelled, completed, faults>>

(* The deadline of a round to a running peer expires while its request    *)
(* or answer is still in flight: the round fails and a late answer is     *)
(* discarded.  The request may already have been merged by the peer.      *)
Timeout(i) ==
    /\ round[i] # NoRound
    /\ faults < MaxFaults
    /\ round' = [round EXCEPT ![i] = NoRound]
    /\ msgs' = msgs \ RoundMsgs(i)
    /\ faults' = faults + 1
    /\ UNCHANGED <<view, cancelled, completed>>

(* The cancellation of GoGossip's context. *)
Cancel(i) ==
    /\ i \in Initiators \ cancelled
    /\ cancelled' = cancelled \cup {i}
    /\ UNCHANGED <<view, round, msgs, completed, faults>>

(* Local health detection marks a known node whose server is down Dead.   *)
MarkDead(i, x) ==
    /\ x \in DOMAIN view[i] \ Up
    /\ view[i][x].state = "Healthy"
    /\ view' = [view EXCEPT ![i][x].state = "Dead"]
    /\ UNCHANGED <<round, msgs, cancelled, completed, faults>>

Next ==
    \/ \E i \in Nodes, p \in Nodes : GossipOnce(i, p)
    \/ \E m \in msgs : Handle(m) \/ Complete(m)
    \/ \E i \in Nodes : Unreachable(i) \/ Timeout(i) \/ Cancel(i)
    \/ \E i \in Up, x \in Nodes : MarkDead(i, x)

(* GoGossip runs on a timer, so an initiator that is not cancelled keeps  *)
(* starting rounds, and the random peer choice picks every known peer     *)
(* again and again (spec 4.2: every reachable peer is eventually chosen): *)
(* strong fairness per (initiator, peer).  Handlers, answers and failing  *)
(* calls are taken by running goroutines: weak fairness.                  *)
Fairness ==
    /\ \A i \in Initiators : \A p \in Nodes \ {i} : SF_pvars(GossipOnce(i, p))
    /\ \A i \in Initiators : WF_pvars(Unreachable(i))
    /\ WF_pvars(\E m \in msgs : Handle(m))
    /\ WF_pvars(\E m \in msgs : Complete(m))

Spec == Init /\ [][Next /\ RecordKnew]_vars /\ Fairness

----------------------------------------------------------------------------
(* The protocol implements Membership: every step of every node, be it a *)
(* merge of a request, of a late answer or a completed round, moves its   *)
(* view only up in the knowledge order and never past what the nodes      *)
(* together knew, except for its own heartbeat and local Dead detection. *)
(* A snapshot taken before the receiver learned something newer, merged  *)
(* late, must not take any entry back.                                    *)
Abstract == INSTANCE Membership

ImplementsMembership == Abstract!Spec

(* Nobody believes a running node's heartbeat is newer than the node's    *)
(* own: only the node itself advances its heartbeat, once per round it    *)
(* completes, and every other copy is a merge of copies of it.            *)
NoOneAheadOfOwner ==
    \A i \in Up, j \in Nodes :
        i \in DOMAIN view[j] => view[j][i].ver <= view[i][i].ver

(* Dissemination (spec section 8, convergence): whatever a running node   *)
(* knew of any node while it and another running node still had a round *)
(* to run between them (its Dead marks and the nodes only it has heard of *)
(* included) is eventually known as well or better by the other, despite *)
(* lost and timed-out rounds and rounds to down peers, unless one of them *)
(* is cancelled.  It needs the random peer choice to pick every peer     *)
(* again and merge to adopt every entry the local view lacks.            *)
Disseminates ==
    <>[](\A i, j \in Up :
            i # j => Abstract!Leq(knew[i][j], view[j]) \/ {i, j} \cap cancelled # {})

=============================================================================
