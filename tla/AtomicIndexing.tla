--------------------------- MODULE AtomicIndexing ---------------------------
(***************************************************************************)
(* What cesium's index maintenance branch promises a writer: every batch  *)
(* of segments it takes is, in one step, either handed to the data        *)
(* writers with the segments of the tracked channels (index channels that *)
(* have an index writer) added to their indexes, or refused as a whole.   *)
(* A batch taken is never left half-indexed; a refusal stops the branch  *)
(* for good, and until then every batch submitted is eventually taken.   *)
(***************************************************************************)
EXTENDS Sequences, SequencesExt

CONSTANTS
    Channels,       \* channel keys
    Tracked,        \* channels whose segments are indexed
    Batches,        \* the segment batches a writer may submit
    MaxSubmits,     \* bound on the batches submitted
    QueueCap        \* capacity of the writer's stream

VARIABLES
    inQ,            \* batches submitted and not yet taken
    stored,         \* channel -> Seq of segments handed to the data writers
    indexed,        \* channel -> Seq of segments whose alignments are indexed
    submits,        \* batches submitted so far
    failed          \* a batch was refused: the branch has stopped

vars == <<inQ, stored, indexed, submits, failed>>

\* The segments of bt on the channels chs, in order.
OnChannels(bt, chs) == SelectSeq(bt, LAMBDA s : s.ch \in chs)

Init ==
    /\ inQ = <<>>
    /\ stored = [c \in Channels |-> <<>>]
    /\ indexed = [c \in Channels |-> <<>>]
    /\ submits = 0
    /\ failed = FALSE

Submit(bt) ==
    /\ submits < MaxSubmits
    /\ Len(inQ) < QueueCap
    /\ inQ' = Append(inQ, bt)
    /\ submits' = submits + 1
    /\ UNCHANGED <<stored, indexed, failed>>

\* The oldest batch is taken: stored and indexed together, or refused.
Take ==
    /\ ~failed
    /\ inQ # <<>>
    /\ \/ /\ stored' = [c \in Channels |-> stored[c] \o OnChannels(Head(inQ), {c})]
          /\ indexed' = [c \in Channels |-> indexed[c] \o OnChannels(Head(inQ), {c} \cap Tracked)]
          /\ UNCHANGED failed
       \/ /\ failed' = TRUE
          /\ UNCHANGED <<stored, indexed>>
    /\ inQ' = Tail(inQ)
    /\ UNCHANGED submits

Next == (\E bt \in Batches : Submit(bt)) \/ Take

Spec == Init /\ [][Next]_vars /\ WF_vars(Take)

=============================================================================
