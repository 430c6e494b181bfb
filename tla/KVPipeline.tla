----------------------------- MODULE KVPipeline -----------------------------
(***************************************************************************)
(* The versioned write pipeline of aspen/internal/kv (version.go):         *)
(*                                                                         *)
(*   write -> versionAssigner -> versionFilter -> persist -> peers         *)
(*                                                                         *)
(* A write batch (TxRequest) entering a node is stamped with consecutive   *)
(* versions from the node's persisted counter (assign), then split by the  *)
(* version filter into accepted and rejected sub-batches (_switch/filter), *)
(* judged against the digests held in the node's storage engine.  The      *)
(* persist stage writes the digests of accepted operations and a batch     *)
(* that originated at this node is forwarded to every peer, whose filter   *)
(* judges it again.  The stages are separate tasks joined by bounded       *)
(* FIFO streams (spec section 5), so a batch may be filtered while an      *)
(* earlier accepted batch is still waiting to be persisted.                *)
(*                                                                         *)
(* Data is abstracted: an operation is its key, version and leaseholder;   *)
(* values and the Set/Delete variant are not read by any stage modelled.   *)
(***************************************************************************)
EXTENDS Integers, Sequences, FiniteSets, SequencesExt, TLC

CONSTANTS
    Nodes,        \* node ids; natural numbers, as the leaseholder tie-break compares them
    Keys,         \* keys written
    MaxBatch,     \* most operations in one TxRequest
    MaxVersion,   \* bound on every node's version counter
    QueueCap,     \* capacity of each stream between stages
    MaxCrashes,   \* bound on node restarts
    ReadFaults,   \* TRUE: a digest read may fail with an error other than NotFound
    Lossy,        \* TRUE: the transport may drop a forwarded batch
    CounterFaults \* TRUE: counter.Add may fail to persist the advanced counter

ASSUME Nodes \subseteq Nat \ {0} /\ MaxBatch >= 1 /\ QueueCap >= 1

VARIABLES
    counter,      \* node -> in-memory value of its PersistedCounter
    pcounter,     \* node -> the counter's value persisted under key "ver"
    inbox,        \* node -> Seq of batches on the filter's inlet (local and remote)
    judged,       \* node -> the filter's decisions so far on the head batch of inbox
    persistQ,     \* node -> Seq of accepted batches waiting for the persist stage
    digest,       \* node -> partial function key -> [version, lh] held by its engine
    msgs,         \* forwarded batches in flight: [to, batch]
    issued,       \* history: node -> Seq of the versions its assigner stamped
    crashes       \* number of restarts so far

vars == <<counter, pcounter, inbox, judged, persistQ, digest, msgs, issued, crashes>>

Versions == 1..MaxVersion
Op == [key: Keys, version: Versions, lh: Nodes]
Batch == [origin: Nodes, ops: Seq(Op)]
Digest == [version: 0..MaxVersion, lh: Nodes \cup {0}]

\* The digest an operation leaves behind when it is persisted.
DigestOf(op) == [version |-> op.version, lh |-> op.lh]

\* The zero Digest{} that getDigestFromKV returns beside an error.
ZeroDigest == [version |-> 0, lh |-> 0]

----------------------------------------------------------------------------
(* x/version Counter comparison, used by the filter. *)
OlderThan(a, b) == a < b

\* Mutant: equal versions are accepted whatever the leaseholders.
SupersedesNoTieBreak(op, dig) ==
    IF op.version = dig.version THEN TRUE ELSE OlderThan(op.version, dig.version)

(* The decision of versionFilter.filter once a digest has been read:      *)
(* equal versions are decided by the higher leaseholder, otherwise the    *)
(* operation is accepted when its version is OlderThan the digest's.      *)
Supersedes(op, dig) ==
    IF op.version = dig.version
    THEN op.lh > dig.lh
    ELSE OlderThan(op.version, dig.version)

(* The stores the filter reads on node n.  newVersionFilter sets memKV   *)
(* to cfg.Engine, so both are the node's engine.                          *)
MemKV(n) == digest[n]
Engine(n) == digest[n]

(* The outcomes of getDigestFromKV(kve, key) against store d: the stored  *)
(* digest or NotFound, and, when reads may fault, an I/O error.           *)
ReadResults(d, k) ==
    (IF k \in DOMAIN d
     THEN {[err |-> "nil", dig |-> d[k]]}
     ELSE {[err |-> "NotFound", dig |-> ZeroDigest]})
    \cup (IF ReadFaults THEN {[err |-> "IOError", dig |-> ZeroDigest]} ELSE {})

\* Mutant: a second read error of any kind accepts the operation.
FilterDecisionAcceptOnError(op, r1, r2) ==
    IF r1.err = "nil" THEN Supersedes(op, r1.dig)
    ELSE IF r2.err = "nil" THEN Supersedes(op, r2.dig)
    ELSE TRUE

(* filter: read memKV; on any error (NotFound included) read Engine; on a *)
(* second error accept exactly when it is NotFound.                       *)
FilterDecision(op, r1, r2) ==
    IF r1.err = "nil" THEN Supersedes(op, r1.dig)
    ELSE IF r2.err = "nil" THEN Supersedes(op, r2.dig)
    ELSE r2.err = "NotFound"

FilterOutcomes(n, op) ==
    {FilterDecision(op, r1, r2) : r1 \in ReadResults(MemKV(n), op.key),
                                  r2 \in ReadResults(Engine(n), op.key)}

\* The operations of ops whose decision in c is v, in their original order.
SubBatch(ops, c, v) ==
    LET idx == SetToSortSeq({i \in DOMAIN ops : c[i] = v}, <)
    IN  [j \in DOMAIN idx |-> ops[idx[j]]]

\* Writing the digests of a batch in order: a later op on a key overwrites.
ApplyOps(d, ops) == FoldLeft(LAMBDA acc, op : (op.key :> DigestOf(op)) @@ acc, d, ops)

----------------------------------------------------------------------------
Init ==
    /\ counter = [n \in Nodes |-> 0]
    /\ pcounter = [n \in Nodes |-> 0]
    /\ judged = [n \in Nodes |-> <<>>]
    /\ inbox = [n \in Nodes |-> <<>>]
    /\ persistQ = [n \in Nodes |-> <<>>]
    /\ digest = [n \in Nodes |-> <<>>]
    /\ msgs = {}
    /\ issued = [n \in Nodes |-> <<>>]
    /\ crashes = 0

\* Mutant: latestVer + i with a 0-based i (the "+ 1" dropped).
StampOffByOne(n, ks) ==
    [i \in 1..Len(ks) |-> [key |-> ks[i], version |-> counter[n] + i - 1, lh |-> n]]

(* versionAssigner.assign: latestVer := counter.Value(); counter.Add(n),  *)
(* which advances the counter and persists it; stamp op i with           *)
(* latestVer + i (1-based here); send the batch on to the filter,         *)
(* blocking while its inlet is full.                                      *)
Stamp(n, ks) ==
    [i \in 1..Len(ks) |-> [key |-> ks[i], version |-> counter[n] + i, lh |-> n]]

\* Mutant: the counter is advanced by one instead of by the batch size.
AssignAddOne(n, ks) ==
    /\ counter[n] + Len(ks) <= MaxVersion
    /\ Len(inbox[n]) < QueueCap
    /\ LET ops == Stamp(n, ks)
       IN  /\ counter' = [counter EXCEPT ![n] = @ + 1]
           /\ pcounter' = counter'
           /\ inbox' = [inbox EXCEPT ![n] = Append(@, [origin |-> n, ops |-> ops])]
           /\ issued' = [issued EXCEPT ![n] = @ \o [i \in DOMAIN ops |-> ops[i].version]]
    /\ UNCHANGED <<judged, persistQ, digest, msgs, crashes>>

Assign(n, ks) ==
    /\ counter[n] + Len(ks) <= MaxVersion
    /\ Len(inbox[n]) < QueueCap
    /\ LET ops == Stamp(n, ks)
       IN  /\ counter' = [counter EXCEPT ![n] = @ + Len(ks)]
           /\ pcounter' = counter'
           /\ inbox' = [inbox EXCEPT ![n] = Append(@, [origin |-> n, ops |-> ops])]
           /\ issued' = [issued EXCEPT ![n] = @ \o [i \in DOMAIN ops |-> ops[i].version]]
    /\ UNCHANGED <<judged, persistQ, digest, msgs, crashes>>

(* assign when counter.Add fails: the error is logged and the transform  *)
(* emits nothing, so the batch is dropped before any version is stamped   *)
(* and its doneF is never called.  The persisted value is not written.   *)
(* Whether the failed Add advanced the in-memory value first is up to     *)
(* kvx.PersistedCounter, so both outcomes are allowed.                    *)
AssignFail(n, ks) ==
    /\ CounterFaults
    /\ counter[n] + Len(ks) <= MaxVersion
    /\ counter' \in {counter, [counter EXCEPT ![n] = @ + Len(ks)]}
    /\ UNCHANGED <<pcounter, inbox, judged, persistQ, digest, msgs, issued, crashes>>

(* One iteration of _switch's loop on the head batch of the filter's     *)
(* inlet: filter judges the next operation against the engine as it is   *)
(* now.  The persist stage runs on its own, so it may write digests        *)
(* between two operations of one batch.                                   *)
FilterOp(n) ==
    /\ inbox[n] # <<>>
    /\ Len(judged[n]) < Len(Head(inbox[n]).ops)
    /\ \E d \in FilterOutcomes(n, Head(inbox[n]).ops[Len(judged[n]) + 1]) :
           judged' = [judged EXCEPT ![n] = Append(@, d)]
    /\ UNCHANGED <<counter, pcounter, inbox, persistQ, digest, msgs, issued, crashes>>

(* The end of _switch: a non-empty accepted sub-batch goes to the persist *)
(* stage, blocking while its inlet is full; a non-empty rejected one goes *)
(* to the rejected address (dropped here: nothing modelled reads it).     *)
FilterEmit(n) ==
    /\ inbox[n] # <<>>
    /\ LET b == Head(inbox[n])
           accepted == SubBatch(b.ops, judged[n], TRUE)
       IN  /\ Len(judged[n]) = Len(b.ops)
           /\ IF accepted = <<>> THEN UNCHANGED persistQ
              ELSE /\ Len(persistQ[n]) < QueueCap
                   /\ persistQ' = [persistQ EXCEPT ![n] = Append(@, [origin |-> b.origin, ops |-> accepted])]
    /\ inbox' = [inbox EXCEPT ![n] = Tail(@)]
    /\ judged' = [judged EXCEPT ![n] = <<>>]
    /\ UNCHANGED <<counter, pcounter, digest, msgs, issued, crashes>>

(* The persist stage: the digests of an accepted batch are written to the *)
(* engine, and a batch that originated here is forwarded to every peer.   *)
Persist(n) ==
    /\ persistQ[n] # <<>>
    /\ LET b == Head(persistQ[n])
       IN  /\ digest' = [digest EXCEPT ![n] = ApplyOps(@, b.ops)]
           /\ msgs' = IF b.origin = n
                      THEN msgs \cup {[to |-> p, batch |-> b] : p \in Nodes \ {n}}
                      ELSE msgs
    /\ persistQ' = [persistQ EXCEPT ![n] = Tail(@)]
    /\ UNCHANGED <<counter, pcounter, inbox, judged, issued, crashes>>

(* The batch server hands a received batch to the filter's inlet. *)
Deliver(m) ==
    /\ Len(inbox[m.to]) < QueueCap
    /\ inbox' = [inbox EXCEPT ![m.to] = Append(@, m.batch)]
    /\ msgs' = msgs \ {m}
    /\ UNCHANGED <<counter, pcounter, judged, persistQ, digest, issued, crashes>>

(* A forward fails in the transport and is abandoned. *)
Lose(m) ==
    /\ Lossy
    /\ msgs' = msgs \ {m}
    /\ UNCHANGED <<counter, pcounter, inbox, judged, persistQ, digest, issued, crashes>>

(* A node restarts: the streams between stages, the filter's progress    *)
(* and the in-memory counter are lost; the digests and the persisted      *)
(* counter live in the engine and survive, and newVersionAssigner         *)
(* reopens the counter (kvx.OpenCounter) at its persisted value.          *)
Crash(n) ==
    /\ crashes < MaxCrashes
    /\ counter' = [counter EXCEPT ![n] = pcounter[n]]
    /\ inbox' = [inbox EXCEPT ![n] = <<>>]
    /\ judged' = [judged EXCEPT ![n] = <<>>]
    /\ persistQ' = [persistQ EXCEPT ![n] = <<>>]
    /\ crashes' = crashes + 1
    /\ UNCHANGED <<pcounter, digest, msgs, issued>>

Next ==
    \/ \E n \in Nodes, ks \in BoundedSeq(Keys, MaxBatch) \ {<<>>} : Assign(n, ks) \/ AssignFail(n, ks)
    \/ \E n \in Nodes : FilterOp(n) \/ FilterEmit(n) \/ Persist(n) \/ Crash(n)
    \/ \E m \in msgs : Deliver(m) \/ Lose(m)

Spec == Init /\ [][Next]_vars

----------------------------------------------------------------------------
TypeOK ==
    /\ counter \in [Nodes -> 0..MaxVersion] /\ pcounter \in [Nodes -> 0..MaxVersion]
    /\ judged \in [Nodes -> Seq(BOOLEAN)]
    /\ \A n \in Nodes : inbox[n] \in Seq(Batch) /\ persistQ[n] \in Seq(Batch)
    /\ \A n \in Nodes : DOMAIN digest[n] \subseteq Keys
                        /\ \A k \in DOMAIN digest[n] : digest[n][k] \in Digest
    /\ \A m \in msgs : m.to \in Nodes /\ m.batch \in Batch
    /\ issued \in [Nodes -> Seq(Versions)]
    /\ crashes \in 0..MaxCrashes

(* Version monotonicity (spec section 8): the versions a node's assigner   *)
(* stamps, over all its batches and across restarts, strictly increase,   *)
(* so no two operations of one leaseholder ever share a version.  Relies  *)
(* on assign advancing the persisted counter by the whole batch size      *)
(* before stamping latestVer + 1 .. latestVer + size.                     *)
VersionsNeverReused ==
    \A n \in Nodes : \A i, j \in DOMAIN issued[n] :
        i < j => issued[n][i] < issued[n][j]

\* Every batch still travelling through the pipeline.
InFlight ==
    UNION {ToSet(inbox[n]) \cup ToSet(persistQ[n]) : n \in Nodes} \cup {m.batch : m \in msgs}

\* The operations of every batch still travelling through the pipeline.
LiveOps == UNION {ToSet(b.ops) : b \in InFlight}

(* Any two distinct operations in the pipeline are ordered one way only   *)
(* by the filter's comparison, so two replicas that see them in different *)
(* orders could pick the same winner without talking.                    *)
FilterIsTotalOrder ==
    \A a, b \in LiveOps :
        DigestOf(a) # DigestOf(b) => (Supersedes(a, DigestOf(b)) # Supersedes(b, DigestOf(a)))

(* The operation node n's filter judges in this step, if any. *)
JudgedNow(n) == Len(judged'[n]) > Len(judged[n])
JudgedOp(n) == Head(inbox[n]).ops[Len(judged'[n])]

(* An operation is accepted only if, when the filter judged it, its key   *)
(* had no digest in the engine or the op superseded the stored one: a     *)
(* read that fails with an I/O error (memKV, then Engine) never leads to  *)
(* acceptance on uncertain state (filter's error fallback).               *)
AcceptOnlyAgainstStoredDigest ==
    [][\A n \in Nodes :
         (JudgedNow(n) /\ Last(judged'[n])) =>
            LET op == JudgedOp(n)
            IN  op.key \notin DOMAIN digest[n] \/ Supersedes(op, digest[n][op.key])]_vars

----------------------------------------------------------------------------
(* The rule of spec section 4.4: accept an operation whose version is     *)
(* strictly newer than the digest's, or equal with a higher leaseholder.  *)
SpecSupersedes(op, dig) ==
    \/ op.version > dig.version
    \/ op.version = dig.version /\ op.lh > dig.lh

(* A later write wins (spec section 4.4): whenever the filter judges an   *)
(* operation whose key has a stored digest that the operation supersedes  *)
(* under the spec's rule (strictly newer version, or equal version and a  *)
(* higher leaseholder), it accepts the operation.                         *)
NewerWritesAccepted ==
    [][\A n \in Nodes :
         JudgedNow(n) =>
            LET op == JudgedOp(n)
            IN  (op.key \in DOMAIN digest[n] /\ SpecSupersedes(op, digest[n][op.key]))
                    => Last(judged'[n])]_vars

(* Replica determinism (spec section 8): once every forwarded batch has   *)
(* been delivered, filtered and persisted, all nodes hold the same digest *)
(* for every key.                                                         *)
Quiescent ==
    /\ msgs = {}
    /\ \A n \in Nodes : inbox[n] = <<>> /\ persistQ[n] = <<>>

ReplicasAgreeAtQuiescence ==
    Quiescent => \A n, m \in Nodes : digest[n] = digest[m]

=============================================================================
