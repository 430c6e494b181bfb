------------------------------ MODULE MCGossip ------------------------------
EXTENDS Gossip

H(v) == [state |-> "Healthy", ver |-> v]
D(v) == [state |-> "Dead", ver |-> v]

\* Four nodes, of which nodes 3 and 4 have no running server.  Node 1 last
\* heard of node 3 at a later heartbeat than node 2 did, so node 2 may mark
\* it Dead while node 1 still holds a newer Healthy entry for it; node 4 is
\* known to node 1 only, so node 2 must learn of it through gossip.
MCNodes == {1, 2, 3, 4}
MCUp == {1, 2}
MCInitView ==
    (1 :> (1 :> H(0) @@ 2 :> H(0) @@ 3 :> H(1) @@ 4 :> H(0))) @@
    (2 :> (1 :> H(0) @@ 2 :> H(0) @@ 3 :> H(0))) @@
    (3 :> (3 :> H(1))) @@
    (4 :> (4 :> H(0)))

=============================================================================
