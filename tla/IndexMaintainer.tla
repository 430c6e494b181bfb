--------------------------- MODULE IndexMaintainer ---------------------------
(***************************************************************************)
(* The index maintenance branch of cesium's write pipeline                *)
(* (cesium/index_maintainer.go).  indexMaintenanceRouter.filter looks up  *)
(* the channel of every segment of a batch, passes the whole batch on to   *)
(* the data writers and sends the segments of index channels to the       *)
(* indexMaintainer, whose sink decodes every segment of a channel that    *)
(* has an index writer into alignments (timestamp, position) and writes   *)
(* them.  Stage hand-offs are bounded FIFO streams.                        *)
(*                                                                         *)
(* Timestamps are Density little-endian bytes; a byte is 0 or 1 and       *)
(* Density is small, which keeps a trailing partial timestamp reachable.  *)
(***************************************************************************)
EXTENDS Integers, Sequences, SequencesExt

CONSTANTS
    Channels,       \* channel keys
    IndexChannels,  \* channels whose ch.IsIndex is set
    Indexed,        \* channels that have a writer in im.Indexes
    Density,        \* telem.TimeStampDensity: bytes per timestamp
    Batches,        \* the segment batches a writer may submit
    MaxSubmits,     \* bound on the batches submitted
    QueueCap,       \* capacity of each stream
    LookupFaults,   \* TRUE: Channels.GetChannel may fail
    WriteFaults     \* TRUE: an index writer's Write may fail

VARIABLES
    inQ,            \* batches on the router's inlet
    maintQ,         \* batches on the maintainer's inlet (the router's Rejects)
    stored,         \* channel -> Seq of segments passed on to the data writers
    maintained,     \* channel -> Seq of segments the maintainer indexed
    index,          \* channel -> Seq of alignments written to its index
    submits,        \* batches submitted so far
    failed          \* a stage returned an error: the pipeline is cancelled

vars == <<inQ, maintQ, stored, maintained, index, submits, failed>>

Alignment == [stamp: Nat, pos: Nat]
ZeroAlignment == [stamp |-> 0, pos |-> 0]

\* index.DecodeTimeStamp: little-endian.
Decode(b) == FoldRight(LAMBDA x, acc : x + 256 * acc, b, 0)

----------------------------------------------------------------------------
(* The for loop of maintain.  r.Read(b) copies the next min(Density,      *)
(* remaining) bytes into the front of b, leaving the rest of b as the last *)
(* read left it, and fails with EOF once nothing remains.  The body        *)
(* decodes a := (Decode(b), seg.Alignment + i), but appends nothing to     *)
(* alignments (append(alignments)) and never advances i.                   *)
RECURSIVE ReadLoop(_, _, _, _, _, _)
ReadLoop(seg, pos, b, i, alignments, a) ==
    IF pos > Len(seg.data)
    THEN alignments
    ELSE LET n  == Min({Density, Len(seg.data) - pos + 1})
             b2 == [k \in 1..Density |-> IF k <= n THEN seg.data[pos + k - 1] ELSE b[k]]
         IN  ReadLoop(seg, pos + n, b2, i,
                      alignments, [stamp |-> Decode(b2), pos |-> seg.align + i])

(* maintain: alignments is made with length len(seg.Data)/Density, all    *)
(* zero, and is what idx.Write receives after the loop.                   *)
Maintain(seg) ==
    ReadLoop(seg, 1, [k \in 1..Density |-> 0], 0,
             [k \in 1..(Len(seg.data) \div Density) |-> ZeroAlignment], ZeroAlignment)

(* The alignments a segment's data stands for: its k-th full timestamp at *)
(* position seg.Alignment + k - 1.                                        *)
Expected(seg) ==
    [k \in 1..(Len(seg.data) \div Density) |->
        [stamp |-> Decode(SubSeq(seg.data, (k - 1) * Density + 1, k * Density)),
         pos   |-> seg.align + k - 1]]

\* The segments of batch bt, in order, whose channels satisfy P.
SegsOf(bt, chs) == SelectSeq(bt, LAMBDA s : s.ch \in chs)

\* Appends every segment of bt to its channel's sequence in f.
AppendPerChannel(f, bt) == [c \in Channels |-> f[c] \o SegsOf(bt, {c})]

----------------------------------------------------------------------------
Init ==
    /\ inQ = <<>>
    /\ maintQ = <<>>
    /\ stored = [c \in Channels |-> <<>>]
    /\ maintained = [c \in Channels |-> <<>>]
    /\ index = [c \in Channels |-> <<>>]
    /\ submits = 0
    /\ failed = FALSE

\* A writer sends a batch of segments into the pipeline.
Submit(bt) ==
    /\ submits < MaxSubmits
    /\ Len(inQ) < QueueCap
    /\ inQ' = Append(inQ, bt)
    /\ submits' = submits + 1
    /\ UNCHANGED <<maintQ, stored, maintained, index, failed>>

(* The segments of bt that route sends to the maintainer. *)
ToMaintenance(bt) == SegsOf(bt, IndexChannels)

\* Mutant: a segment whose channel lookup fails is skipped, not an error.
RouteSkipFailed(bt, lost) ==
    /\ LET toMaintenance == SelectSeq(bt, LAMBDA s : s.ch \in IndexChannels /\ s.ch \notin lost)
       IN  maintQ' = IF toMaintenance # <<>> THEN Append(maintQ, toMaintenance) ELSE maintQ
    /\ stored' = AppendPerChannel(stored, bt)
    /\ UNCHANGED failed

(* filter on one batch: route looks each segment's channel up, in order;  *)
(* the first failed lookup (a channel in lost) returns the error: the     *)
(* batch goes nowhere and the error ends the router and cancels the       *)
(* pipeline.  Otherwise the index channels' segments go to the maintainer *)
(* (when there are any) and the whole batch to the data writers.          *)
Route(bt, lost) ==
    IF \E k \in DOMAIN bt : bt[k].ch \in lost
    THEN /\ failed' = TRUE
         /\ UNCHANGED <<maintQ, stored>>
    ELSE /\ maintQ' = IF ToMaintenance(bt) # <<>> THEN Append(maintQ, ToMaintenance(bt)) ELSE maintQ
         /\ stored' = AppendPerChannel(stored, bt)
         /\ UNCHANGED failed

(* The router takes the oldest batch while the pipeline runs.  It blocks  *)
(* on the maintainer's inlet (SendUnderContext) only when it has segments *)
(* to send there.                                                          *)
Filter ==
    /\ ~failed
    /\ inQ # <<>>
    /\ ToMaintenance(Head(inQ)) # <<>> => Len(maintQ) < QueueCap
    /\ \E lost \in IF LookupFaults THEN SUBSET Channels ELSE {{}} :
           Route(Head(inQ), lost)
    /\ inQ' = Tail(inQ)
    /\ UNCHANGED <<maintained, index, submits>>

(* sink on one batch: every segment of a channel with an index writer is  *)
(* maintained and its alignments written, in order; the others are        *)
(* skipped.  The first failed Write returns its error: the segments after *)
(* it are never indexed, and the error cancels the pipeline.  f is the   *)
(* failing segment, or 0 for none.  A sink already running may still take *)
(* a batch after the pipeline is cancelled: it races the cancellation.    *)
Sink ==
    /\ maintQ # <<>>
    /\ LET toIndex == SegsOf(Head(maintQ), Indexed)
       IN  \E f \in IF WriteFaults THEN 0..Len(toIndex) ELSE {0} :
             LET done == IF f = 0 THEN toIndex ELSE SubSeq(toIndex, 1, f - 1)
             IN  /\ index' = [c \in Channels |->
                        index[c] \o FoldLeft(LAMBDA acc, s : acc \o Maintain(s), <<>>, SegsOf(done, {c}))]
                 /\ maintained' = AppendPerChannel(maintained, done)
                 /\ failed' = (failed \/ f # 0)
    /\ maintQ' = Tail(maintQ)
    /\ UNCHANGED <<inQ, stored, submits>>

Next ==
    \/ \E bt \in Batches : Submit(bt)
    \/ Filter
    \/ Sink

(* The router and the maintainer are separate goroutines, each running   *)
(* for as long as its inlet has a batch and the pipeline is not           *)
(* cancelled; after a cancellation nothing obliges the sink to run.       *)
(* Submissions are up to the writer.                                       *)
Fairness == WF_vars(Filter) /\ WF_vars(~failed /\ Sink)

Spec == Init /\ [][Next]_vars /\ Fairness

----------------------------------------------------------------------------
(* The segments of channel c on their way to the maintainer. *)
Pending(c) == FoldLeft(LAMBDA acc, bt : acc \o SegsOf(bt, {c}), <<>>, maintQ)

(* The two stages implement one atomic step (AtomicIndexing): a segment  *)
(* routed to the maintainer counts as indexed, so whenever filter passes  *)
(* a batch to the data writers its tracked segments are indexed with it,  *)
(* and a failed channel lookup refuses the batch on both branches and     *)
(* stops the pipeline.  Under the stages' fairness every batch submitted  *)
(* while the pipeline runs is eventually taken.                           *)
Atomic == INSTANCE AtomicIndexing
    WITH Tracked <- IndexChannels \cap Indexed,
         indexed <- [c \in Channels |-> IF c \in Indexed THEN maintained[c] \o Pending(c) ELSE <<>>]

IndexIsAtomic == Atomic!Spec

(* Every index holds, for every segment maintained on its channel, the    *)
(* segment's timestamps at the positions they were written to, in order.  *)
IndexMatchesData ==
    \A c \in Channels :
        index[c] = FoldLeft(LAMBDA acc, s : acc \o Expected(s), <<>>, maintained[c])

=============================================================================
