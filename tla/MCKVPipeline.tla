---------------------------- MODULE MCKVPipeline ----------------------------
EXTENDS KVPipeline

\* Two nodes, so that two leaseholders race and batches are forwarded.  The
\* runs use one key: every operation then meets the digests of the others,
\* and a second key only multiplies the states without a new conflict.
MCNodes == {1, 2}
MCKeys == {"a", "b"}
MCOneKey == {"a"}

=============================================================================
