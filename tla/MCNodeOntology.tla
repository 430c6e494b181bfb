--------------------------- MODULE MCNodeOntology ---------------------------
EXTENDS NodeOntology

CONSTANTS n1, n2, n3

\* Three nodes: two are in the cluster when the service starts, the third
\* may join at any point, before, between or after ListenForChanges' steps.
\* Only a node's identity is read, so the ids are model values.
MCNodes == {n1, n2, n3}
MCInitial == {n1, n2}

=============================================================================
