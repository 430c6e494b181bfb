# TLA+ models of the cluster, KV and storage code

This directory holds TLA+ specifications of the parts of this repository whose
behaviour depends on interleavings, failures or loops over inputs. Each
specification comes with the TLC configurations that check it. `PROJECT.json`
lists:

- every component and how far it is modelled;
- every run with its properties;
- the mutants that show each property can fail;
- the map from each definition to the source lines it models;
- the findings and the hazards.

Run a check from this directory with `tlc -workers 2 -config <cfg> <module>`.

## The system and its parts

The repository is a sample of the Synnax code base (`src/`). `spec.md`
describes its core:

- **Gossip membership (aspen).** Nodes exchange their views of the cluster
  (node id → state and heartbeat version) pairwise, and merge what they
  receive. Only the test `gossip_test.go` is in the repository; the engine
  and the cluster store are not.
- **Versioned KV pipeline (aspen, `kv/version.go`).** This is a chain of
  stages:

  ```
  write → versionAssigner → versionFilter → persist → peers
  ```

  The stages are joined by bounded streams. The assigner stamps a batch with
  consecutive versions from a persisted counter. The filter compares each
  operation with the digest (version, leaseholder) stored for its key. It
  splits the batch into accepted and rejected sub-batches.
- **Node ontology service (`distribution/core/ontology.go`).** It subscribes
  to cluster-state changes and mirrors the nodes into the resource ontology.
- **Authentication chains (`auth/multi.go`, `auth/password/password.go`).**
  These try wrapped authenticators, or registered hashers, in order.
- **Cesium index maintenance (`cesium/index_maintainer.go`).** A router sends
  the segments of index channels to a maintainer. The maintainer decodes
  their timestamps into index alignments.
- **Cesium time iterator (`cesium/internal/index/iter_time.go`).** It turns a
  position iterator into a time iterator. It translates stamps to positions,
  and back, through the index.

The pieces interact as follows:

- Gossip feeds the cluster store.
- The store's change notifications feed the node ontology.
- The KV pipeline forwards accepted batches to the peers that gossip
  discovered.

## Modules

| Module | Models | State | Actions |
|---|---|---|---|
| `KVPipeline` | `version.go`: `assign`, `_switch`, `filter`, `getDigestFromKV`; the persist stage, transport and restarts from spec §2, §5, §7 | per-node in-memory `counter` and persisted `pcounter`, filter inlet `inbox`, the filter's decisions so far on the head batch `judged`, `persistQ`, stored `digest`; forwarded `msgs`; history `issued` | `Assign`, `AssignFail` (counter.Add fails), `FilterOp`, `FilterEmit`, `Persist`, `Deliver`, `Lose`, `Crash` |
| `Gossip` | spec §4.2, §5 (the engine's source is absent) | per-node `view`, the round in progress, messages, cancelled loops, rounds completed per peer; history `knew` | `GossipOnce`, `Handle`, `Complete`, `Unreachable`, `Timeout`, `Cancel`, `MarkDead` |
| `NodeOntology` | `NodeOntologyService.ListenForChanges` and `update` | cluster node set, listener step, ontology resources and relationships | `Peek`, `Register`, `Join`, `Heartbeat` |
| `AuthChain` | the six fallback loops of `multi.go` and `password.go` | method, per-element outcome, loop index, `err`, result | `Try`, `Return` |
| `IndexMaintainer` | `indexMaintenanceRouter.filter/route`, `indexMaintainer.sink/maintain` | router inlet, maintainer inlet, stored data, index per channel, `failed` (pipeline cancelled) | `Submit`, `Filter`, `Sink` |
| `Membership` | spec §4.2's promise, with no rounds or messages | per-node `view` | `Learn`, `Beat`, `Detect` |
| `AtomicIndexing` | what the index branch promises a writer | writer stream, stored data, indexed segments, `failed` | `Submit`, `Take` |
| `TimeIterator` | every method of `timeIterator` | `bounds`, `view`, `err`; the internal iterator's bounds, view, validity; the last call's result | `SetBounds`, `SeekLE`, `SeekGE`, `SeekEnd` (First/Last), `Step` (Next/Prev), `Close` |

Notes on how each module corresponds to the code:

- **KVPipeline.**
  - `_switch` over the head batch of the inlet is split in two. `FilterOp`
    judges the next operation with `filter`: it reads memKV, falls back to
    the Engine on any error, and on a second error accepts exactly when
    that error is NotFound. Each operation reads the digest at its own
    step, so `Persist` may run between two operations of one batch.
    `FilterEmit` sends the accepted sub-batch once every operation is
    judged. It waits for room on the persist queue only when something was
    accepted.
  - `counter` is the in-memory value of the assigner's counter and
    `pcounter` the value its last successful `counter.Add` persisted.
    `Crash` drops the streams and the filter's progress and reopens the
    counter from `pcounter`. A failed `Add` may have advanced the in-memory
    value without persisting it.
  - `ReadResults` is `getDigestFromKV`.
  - `Assign` is `assign`'s success path: it reads `latestVer`, advances the
    counter by the batch size and stamps `latestVer + i + 1`. `AssignFail` is
    its error path, where the batch is dropped.
  - `MemKV(n)` and `Engine(n)` are the two stores `filter` reads. memKV is
    `cfg.Engine` (`newVersionFilter`), so both are the node's `digest`.
  - `SubBatch` is `_switch`'s append loop: the accepted and rejected
    sub-batches keep the operations' original order.
  - Values and the Set/Delete variant are left out, because no modelled stage
    reads them.
- **Gossip.**
  - Merging follows spec §4.2: the higher version wins, the local entry wins
    on a tie, Dead is sticky, and entries are never dropped.
  - `Complete` merges the answer and increments the initiator's own
    heartbeat by one. `completed` counts the rounds each initiator has
    completed with each peer, and `GossipOnce` starts no round with a peer
    once `MaxRounds` of them are done: this is the model's horizon, and it
    bounds the heartbeats (`MaxHeartbeat` is derived from it).
  - `knew` is a history variable with no code counterpart. `knew[i][j]` is
    i's view at the last state in which i or j still had a round with the
    other to run. `Disseminates` compares it with j's view.
  - An answer that arrives after cancellation is discarded.
  - `Abstract == INSTANCE Membership` is the refinement. The gossip state
    maps to `Membership` with no renaming. The rounds, the messages and the
    cancellations are hidden.
- **NodeOntology.** A store change notifies the registered observer in the
  same step (spec §4.1). `update` issues every write, and any of them may
  fail and only be logged.
- **IndexMaintainer.** `maintain`'s read loop is the RECURSIVE operator
  `ReadLoop`. It copies bytes into the reused buffer exactly as
  `bytes.Reader.Read` does. `Expected` is the reference decoding it is
  checked against.
  - `Atomic == INSTANCE AtomicIndexing WITH ...` is the refinement.
    `Tracked` is `IndexChannels \cap Indexed`. The abstract `indexed` of an
    indexed channel is what the maintainer has indexed, followed by the
    channel's segments still on the maintainer's inlet (`Pending`). So
    `Filter` is the abstract `Take`, and `Sink` is a stutter.
  - A failed lookup returns the error from `filter`: the batch goes
    nowhere, the router stops and the pipeline is cancelled (`failed`). A
    failed index write does the same from the sink. The sink may still take
    a batch after the cancellation, because it races it.
  - `Filter` blocks on the maintainer's inlet only when the batch has
    segments of index channels (`SendUnderContext` at line 85).

- **TimeIterator.**
  - The Searcher and the position iterator are not in the repository. The
    Searcher is a fixed sorted index: SearchP gives the last position at or
    before a stamp and fails outside the index, and SearchTS gives a
    position's stamp. With `Faults` any search may fail.
  - The position iterator's moves may fail, or land on any view inside its
    bounds.
  - The `guess` argument of a search is not modelled: it only narrows where
    the index looks.

## Runs

| Run | Expect | What it shows |
|---|---|---|
| `kv_pipeline` | pass | Versions are never reused (`VersionsNeverReused`), even across restarts and failed counter writes. The filter's comparison orders every two distinct operations one way (`FilterIsTotalOrder`). Nothing is accepted on an I/O-failed read (`AcceptOnlyAgainstStoredDigest`). `VersionsNeverReused` covers a crash after a failed `counter.Add`: the counter reopens from its persisted value. |
| `kv_newer_rejected` | violation | `NewerWritesAccepted`: the filter rejects a strictly newer write (`OlderThan`, `version.go:78`), the opposite of spec §4.4. |
| `kv_replicas_diverge` | violation | `ReplicasAgreeAtQuiescence`: a node accepts a@v1 and a@v2 before persisting either, while its peer accepts v1 and then rejects v2. |
| `gossip` | pass | `ImplementsMembership`: with late answers, lost rounds and down peers, every step moves a view only up in the knowledge order. No step goes past the join of all views, except a node's own heartbeat and local Dead detection, and Dead is never taken back. `NoOneAheadOfOwner`: nobody holds a running node's heartbeat newer than the node's own. `Disseminates`: whatever a running node knew while a round with another running node was still due, its Dead marks and the nodes only it knew included, eventually reaches that node unless one of them is cancelled. |
| `node_ontology` | pass | `EventuallyMirrored`: a node missed during `ListenForChanges`, or whose writes failed, is mirrored at the next change. |
| `node_ontology_gap` | violation | `MirroredWhileListening`: a node that joins between `PeekState` and `OnChange` is missing once listening. |
| `auth_chain` | pass | `HashersFailClosed`: Hash and Validate fail when no hasher succeeds, even with none registered. |
| `auth_empty_chain` | violation | `MultiFailsClosed`: an empty `MultiAuthenticator` accepts any credentials. |
| `index_maintainer` | pass | `IndexIsAtomic`: the router and the maintainer implement `AtomicIndexing`, with failing lookups. Each batch is stored and indexed together, or refused whole, and a refusal stops the pipeline. Until then, under the stages' fairness, every submitted batch is eventually taken. With failing index writes (`WriteFaults`) the refinement breaks: data is stored but not indexed. This is listed as a hazard. |
| `time_iterator` | pass | `SetBoundsAllOrNothing`: a failed search in SetBounds changes nothing. `MovesRefreshView`: SeekGE, SeekFirst, SeekLast, Next and Prev leave View() on the current position when they report success. |
| `time_iterator_seekle` | violation | `SeekLERefreshesView`: SeekLE runs updateView before moving (`iter_time.go:46`), so View() shows the old position. |
| `index_alignments` | violation | `IndexMatchesData`: the index receives zero alignments (`append(alignments)` at `index_maintainer.go:53`). |

Every property of a passing run has a mutant in `PROJECT.json`. The mutant is
a plausible bug in the definition it replaces (for example, a dropped
tie-break, a dropped early return, or the heartbeat of the wrong node
incremented), and TLC finds the property violated under it.

## Bounds

- **KV.** Two nodes and one key. The pass run uses:
  - batches of up to two operations;
  - the counter bounded at 3;
  - streams of capacity 2;
  - one restart;
  - read faults, lost forwards and counter faults all enabled.

  These bounds already reach both races: two batches on one key filtered
  before either is persisted, and two leaseholders with equal versions. A
  second key multiplies the states without adding a conflict. The pass run
  finishes in about 80 s with 3.1M distinct states.
- **Gossip.** Four nodes, two of them up:
  - node 1 holds a newer Healthy entry for node 3 than node 2 does, so Dead
    meets a higher heartbeat;
  - node 4 is known to node 1 only, so coverage must spread;
  - one completed round per (initiator, peer) pair, which bounds the
    heartbeats at 4, and one lost or timed-out round. A lost round is
    retried within the horizon, because it does not count as completed.
    The run takes about 3 minutes, with 431k distinct states.
- **NodeOntology.** Three nodes, one of which can join at any point, with up
  to two failed writes.
- **AuthChain.** Chains of up to three elements with every outcome, the
  empty chain included.
- **TimeIterator.** An index of three stamps (10, 20, 30). The caller's
  stamps are 10, 25, 30 and 40: exact, between, last and beyond. The span
  is 10, which leaves the index from its last stamp.
- **IndexMaintainer.** Two channels and two-byte timestamps. One segment ends
  with a partial timestamp. Up to four batches submitted, and streams of capacity 2. So the
  writer's stream and the maintainer's inlet both fill up.

## Fairness

- **Gossip.**
  - `GoGossip` starts a round on a timer until it is cancelled, and its peer
    choice must reach every known peer (spec §4.2). So each
    (initiator, peer) pair gets strong fairness on `GossipOnce`.
  - Handlers, answers and failing calls run on live goroutines, so they get
    weak fairness.
  - Timeouts and losses are bounded, so each one happens finitely often.
  - Fairness is stated over the protocol's variables. The history variable
    `knew` enables nothing.
- **NodeOntology.** Weak fairness on both steps of `ListenForChanges`. Weak
  fairness on `Heartbeat`, because gossip keeps changing the cluster state
  (each round bumps a heartbeat).
- **IndexMaintainer.** Weak fairness on `Filter`, and on `Sink` while the
  pipeline is not cancelled. The router and the maintainer are goroutines
  that take a batch whenever their inlet has one, until a stage error
  cancels them. After that, nothing obliges the sink to run. Submissions get no fairness: they are up to the writer.
- The KV, auth and iterator runs check safety only.

## Not modelled, and why

- **Override and config helpers (`x/override`, `x/config`).** These are pure
  functions with no state. No code in the repository calls them.
  `OverrideAndValidate`'s behaviour is that of each service's
  `Override` and `Validate`, and none of those is in the repository.
  - Two of their hazards are listed in `PROJECT.json`: `Nil[T]` panics for a T that
    cannot be nil, and a field cannot be overridden to its zero value.
- **Other code:**
  - the group ontology service, the transport mock and the kv interfaces are
    wiring with no state of their own;
  - `iteratorcommand_string.go` and `errors.pb.go` are generated code;
  - the four `_test.go` files outside gossip test code that is not in the
    repository.
- **Inside the modelled parts:**
  - `doneF` completion (no code in the repository calls it). For the same
    reason, nothing checks whether a writer hears that `assign` dropped its
    batch after `counter.Add` failed;
  - `NodeOntologyService.RetrieveEntity`, which only reads;
  - calls on a time iterator after `Close`, including a second `Close`.
    That one would release the index again, and the index is not in the
    repository;
  - the Suspect and Left states and generations of gossip;
  - the validation of malformed gossip messages;
  - the evaluation order of `return dig, ecd.Decode(...)`, which is listed
    as a hazard;
  - the cesium data writers downstream of the router. So nothing states
    what a cancellation loses on the data branch against the index branch.

## Plan for later work

1. Override and config operators, checked against reference definitions,
   if code that uses them enters the repository.
2. An abstract last-writer-wins register per key for KVPipeline. With the
   code's rule a refinement fails, which is the `kv_newer_rejected`
   finding. With filtering ahead of persisting it fails too, which is the
   `kv_replicas_diverge` finding. So it is left unchecked until either is
   resolved.
3. Gossip generations and rejoin (spec §3), and Suspect/Left states.
