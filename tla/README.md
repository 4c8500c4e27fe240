# TLA+ models of the venus-sealer sealing input pipeline

This directory holds TLA+ models of `src/storage-sealing` (the batcher,
the matcher and the expiration policy) and of the part of
`src/storage/miner.go` that configures the policy, and of the two programs
under `src/app`: the read-only `proving` subcommands and the sqlite
profiling harness. Each model is paired with TLC configurations that check it.
`PROJECT.json` lists the runs, the line map from each definition to the Go
source, the mutants, the findings and the hazards.

## 1. Inventory

### Components

| Component | Source | State | Operations |
|---|---|---|---|
| Pre-commit batcher | `storage-sealing/precommit_batch.go` | `todo`, `cutoffs`, `waiting` (under `b.lk`); channels `notify` (cap 1), `force` (unbuffered), `stop`/`stopped`; the loop-locals `timer`, `sendAboveMax`, `forceRes`, `lastRes` | `AddPreCommit`, `Flush`, `Pending`, `Stop`, the `run` loop, `batchWait`, `maybeStartBatch`, `processBatch`, `getPreCommitCutoff` |
| Piece-to-sector matcher | `storage-sealing/input.go` | `pendingPieces`, `openSectors`, `assignedPieces`, `sectorTimers`, `creating` (under `m.inputLk`); `stats` written by the FSM planner | `AddPieceToAnySector`, `updateInput`, `tryCreateDealSector`, `createSector`, `StartPacking`; the FSM handlers `handleWaitDeals`, `maybeStartSealing`, `handleAddPiece`, `handleAddPieceFailed`; the wait-deals timer callback |
| Pre-commit expiration policy | `storage-sealing/precommit_policy.go` | none: it holds only configuration (`duration`, `provingBoundary`) | `Expiration` (a pure function of the head epoch and the pieces) |
| Miner facade | `storage/miner.go` | configuration and service handles | `Run` (derives the policy's `defaultDuration` and `provingBoundary`, starts the FSM), `runPreflightChecks`, `Stop`, WinningPoSt proxying |
| Proving CLI | `app/venus-sealer/proving.go` | none; reads the miner actor's deadlines, partitions and sector sets | `faults`, `info`, `deadlines`, `deadline <idx>`, `check <idx>` |
| Profiling harness | `app/main.go` | the loop variable `i` shared with the goroutines, a `sync.WaitGroup` | `main`: open and migrate, one goroutine per id, `wg.Wait` |
| Constants | `constants/constants.go` | none | version numbers, global clock |

Outside `src/` but interacting: the sector FSM (`go-statemachine` with its
per-sector queue of events), the sealer (`AddPiece`, `NewSector`), the sector
counter, and the messager. They appear only as the events and outcomes the
code above sends or receives.

### How the parts interact

* The **FSM** calls the matcher's handlers (`handleWaitDeals`,
  `handleAddPiece`) in the sector's goroutine. The matcher sends events back
  (`SectorStart`, `SectorAddPiece`, `SectorStartPacking`, `SectorPieceAdded`,
  `SectorAddPieceFailed`). These events are queued and are not handled
  synchronously.
* The **deal API** calls `AddPieceToAnySector`. The call takes `inputLk` and
  hands it to a goroutine that runs `updateInput`. The caller then blocks on a
  one-shot channel, which `handleAddPiece` answers later from the sector's
  goroutine.
* The **wait-deals timer** (`time.AfterFunc`) sends `SectorStartPacking` from
  its own goroutine without taking `inputLk`.
* The FSM's pre-commit state calls **`AddPreCommit`**. It blocks until the
  batcher's `run` goroutine sends a batch that contains the sector. `Flush`
  hands a result channel to the loop. `Stop` ends the loop.
* `Expiration` is called by the FSM when it builds the pre-commit info. The
  same info is later passed to `AddPreCommit`.

### Hard behaviours

* **Batcher.** Three kinds of goroutine share `b.lk` and the channels. The
  `notify` channel drops extra tokens. The timer is re-armed only after the
  loop wakes. Cutoffs are computed from a chain head read before the lock.
  `processBatch` can fail at four points, and every waiter must still be
  answered. A caller can cancel and leave its buffered channel behind.
  Resubmitting a sector overwrites its `todo` entry. When more than
  `MaxPreCommitBatch` sectors are queued, the batch is chosen in map order.
* **Matcher.** `inputLk` is passed from the API goroutine to the `updateInput`
  goroutine. FSM events sent under the lock are only queued. The timer
  callback runs outside the lock. `handleAddPiece` drops the lock between
  pieces and around sealer I/O. Only one sector may be in creation at a time.
  Sectors are created only while the configured sealing caps allow it. A
  piece write can fail part-way through a sector's list of pieces.

### What makes each component correct

* **Batcher:**
  * A parked `AddPreCommit` is always still queued, so some later batch
    answers it.
  * The buffered result send never blocks.
  * The timer never sleeps past the earliest cutoff minus slack.
  * `Flush` sends a queue that fits in one batch.
  * Every parked caller is eventually answered, even when sends fail.
  * A full queue is sent without waiting for the timer.
  * `batchWait` is always greater than zero (the design's claim).
* **Matcher:**
  * A sector never holds more padded bytes than its capacity.
  * A deal is never in more than one of: pending and unassigned, assigned to
    a sector, or placed in a sector.
  * Every accepted piece is eventually answered.
  * A sector leaves the open set when it starts packing.
  * At most one sector is being created at a time.
  * New sectors are created only within the caps.
  * Among equal-padding matches, larger pieces are placed first (the
    design's claim).
* **Policy:**
  * The expiration lands at `provingBoundary - 1` modulo the proving period.
  * The expiration is never below the latest live deal end.
  * A sector without deals never expires past head + the maximum
    extension, which depends on the headroom `Miner.Run` puts into
    `defaultDuration`.

## 2. Plan

1. `PreCommitBatcher` + `MC_PreCommitBatcher` (done): the batcher with its
   three kinds of goroutine. This is the component with the most
   interleavings and failure paths.
2. `PieceMatcher` + `MC_PieceMatcher` (done): the matcher composed with a
   small per-sector FSM. The FSM has an event queue per sector, and its
   WaitDeals, AddPiece, AddPieceFailed and Packing transitions are modelled
   from the design. The module also covers the wait-deals timer, the API
   callers and the sector-creation path. Properties: the capacity, placement
   and liveness invariants above, plus the `creating` flow control.
3. `PreCommitPolicy` + `MC_PreCommitPolicy` (done): `Expiration`, with the
   start-up in `Miner.Run` that builds the policy, checked against the
   design's set-based definition over bounded epochs. The cutoff-epoch
   computation is `getPreCommitCutoff` in `PreCommitBatcher`.
4. `PreCommitQueue` (done): the abstract batcher. It allows any subset of up
   to `MaxPreCommitBatch` queued sectors to be sent, with every waiter of
   those sectors answered once. `PreCommitBatcher` implements it
   (`ImplementsPreCommitQueue`).
5. `DealPlacement` (done): the abstract matcher. Deals wait, then are placed
   in an unsealed sector within its capacity and deal limit, or refused.
   `PieceMatcher` implements it (`ImplementsDealPlacement`).
6. `Stop`'s handshake in `PreCommitBatcher` (done): `Stop` closes `stop`
   and waits on `stopped` or its context (`StopReturns`).
7. `ProfilingHarness` (done): `main.go`'s goroutines, their racy read of the
   captured loop variable, and the `WaitGroup`.
8. `ProvingCLI` (done): the five `proving` subcommands as one action each,
   checked against set-based definitions of what they report.

## 3. Modules and runs

### PreCommitBatcher

The correspondence between the model's variables and the code:

* `todo`, `cutoffs` and `waiting` are the three maps. `todo` maps a sector to
  the call whose entry is queued.
* `notify` is the single slot of `b.notify`. `stopClosed` says whether
  `b.stop` has been closed; `lpc = "stopped"` means `run` has closed
  `b.stopped` and returned. `spc` is the `Stop` call: `Stop` closes
  `b.stop`, then `StopReturn` (on `b.stopped`) or `StopCancel` (its context)
  ends it.
* `timer`, `lpc`, `sendAboveMax`, `forceRes` and `lastRes` are the state of
  the `run` loop.
* Each `AddPreCommit` call has:
  * `cpc`, its position;
  * `csec`, its sector;
  * `cdist`, the `cutoffEpoch - curEpoch` that its `ChainHead` returned;
  * `chan`, its buffered result channel;
  * `cres`, its return value.
* Each `Flush` call has `fpc` and `fres`.

Every step that holds `b.lk` is one action. `maybeStartBatch` and
`processBatch` form one action, `SendBatch`, because the lock is held across
the whole batch, RPCs included. `SendBatch` picks any `kSubset` of the queue,
which models Go's map order. It can also fail, as each of the four failure
points in `processBatch` can. On failure the error goes to the waiting
channels only: `maybeStartBatch` sets it on the range variable, which is a
copy, so `lastRes` and the result `Flush` gets keep an empty error.
Time is relative: `Tick` moves every cutoff and
the timer one epoch closer. One unit is one epoch, and also `time.Nanosecond`.
Cutoffs below `-(slack+1)` are clamped, because `batchWait` cannot tell them
apart.

Runs (two sectors, two calls, batch size 2, `PreCommitBatchWait` 2, slack 1,
cutoff distances {-3 (already past), 2}):

* `batcher_safety`: `ParkedCallIsQueued`, `WaitingChannelsEmpty`,
  `TimerCoversEarliestCutoff`, `FlushSendsAllQueued` and
  `ImplementsPreCommitQueue`, with one `Flush` and symmetry over sectors
  and calls. Both calls may pick the same sector, which is the FSM-retry
  case. 679,620 states, about 60 s.
* `batcher_live`: `EveryWaiterAnswered` and `StopReturns`. Failing
  configuration reads and failing sends are allowed. A `Stop` call waiting
  on `b.stopped` returns even while the timer keeps firing: `run` takes the
  stop case eventually. 301,152 states, about 90 s.
* `batcher_notimer`: `FullQueueSentWithoutTimer` under `SpecNoTimer`, in which
  the clock has no fairness.
* `MC_PreCommitBatcher_waitzero.cfg` (a further check, not in the run list
  of `PROJECT.json`; TLC reports a violation): `BatchWaitPositive`. A cutoff two
  epochs ahead with slack 1 reaches "cutoff - slack = now" after one tick, and
  `batchWait` then returns 0, contrary to the comment "can't return 0".
  Go fires a zero-duration timer at once, so the effect is benign.

Fairness:

* The `run` goroutine is always runnable, so its select and re-arm steps are
  weakly fair.
* Getting past `getConfig` has strong fairness, because a failed read leaves
  the step.
* A caller whose buffered channel holds a result is woken (weak fairness).
* The clock advances (`WF(Tick)`), except in `SpecNoTimer`.
* `RecvStop` has strong fairness: Go chooses uniformly at random among the
  ready cases of a select, so a closed `b.stop` is not passed over forever
  while the loop keeps leaving the select for the timer. A `Stop` call whose
  `b.stopped` is closed is woken (weak fairness).
* Cancellation, the `Stop` call itself and new calls have no fairness, because the
  environment may never perform them.

The bounds are enough for these properties:

* Two calls are enough for a resubmission of one sector.
* A batch size of 2 lets the queue become full.
* Two cutoff distances give both the "already past" case and the
  "cutoff - slack = now" case.
* A wait of 2 makes the cap on the timer bind.

A run with three calls and a wider range of distances exceeded 30 minutes.

### PieceMatcher

`PieceMatcher` models `input.go` together with the parts of the sector FSM
that it drives. Sizes are counted in units of 127 unpadded bytes. A piece of
127·2^k bytes has size 2^k, and a sector of `Cap` units has padded size
128·`Cap`, so padded and unpadded sizes coincide.

The correspondence between the model's variables and the code:

* The matcher maps under `m.inputLk`:
  * `pendingPieces` and `assigned` are `m.pendingPieces` and its
    `assigned` flags;
  * `openSectors` maps an open sector to its `used` (`maybeAccept` is
    `AssignStep`);
  * `assignedPieces`, `sectorTimers` and `creating` are the fields of the
    same name. A timer is "none", "armed", "fired" or "stopped", which is
    what `Stop()` reports;
  * `nextSn` is the sector counter.
* Per sector:
  * `fsm` is the FSM state;
  * `busy` says the handler of that state has not yet returned;
  * `queue` is the FSM's event queue;
  * `filled` and `dealsIn` are `sector.Pieces`: the units taken and the
    deal IDs;
  * `ap` holds the locals of a running `handleAddPiece` (list, offset, `i`,
    `res.NewPieces`);
  * `creationTime` is `sector.CreationTime`: "zero" until the FSM applies
    the sector's first `SectorAddPiece` (whose `apply` stamps it), then
    "set", then "passed" once the wall clock is past
    `CreationTime + WaitDealsDelay`.
* Per deal: `call` and `result` are the blocked `AddPieceToAnySector` and
  what it returns. `dups` holds the deals of `Resubmitted` whose second
  call has returned "already pending".

The inherited lock makes atomic steps of three things:
`AddPieceToAnySector`, `handleWaitDeals` with `maybeStartSealing`, and the
`updateInput` goroutine each of them starts. `updateInput` builds the
matches, takes any order that `sort.Slice` may produce (`SortedOrders`,
since the sort is not stable), and folds `AssignStep` over it. If a piece is
left over, it calls `tryCreateDealSector`. `avail` is unsigned, so `Avail`
wraps. `handleAddPiece` releases the lock between pieces. It is one action
to take the list, one per piece (refused for too many deals, refused for no
space, a write failure, or written), and one to send `SectorPieceAdded`.
`AddPieceToAnySectorAgain` is a second call of the same deal, made by a
retrying or duplicate caller. It finds the proposal CID in `pendingPieces`
and returns at once (`input.go` 263-268). Each deal of the constant
`Resubmitted` is submitted at most twice, which is a bound of the model.

Modelled from the design, because the code is outside this repository:

* The FSM takes one event at a time, and only after the current handler has
  returned. An event the current state does not plan for leaves the state
  unchanged.
* The staging and sealing counts are derived from the FSM states. A sector
  counts as staging from `createSector`.
* `SectorAddPiece.apply` stamps `CreationTime` when it is still 0, so a
  new sector has none at its first WaitDeals. Until then
  `maybeStartSealing` starts only on the stopped-timer, maxdeals and filled
  triggers; it reads no configuration and arms no timer, and
  `handleWaitDeals` goes on to `updateInput`.
* Entering Packing removes the sector from `openSectors` and refuses the
  pieces still assigned to it. This follows the design's scenario E.

Runs use three deals of 1, 2 and 1 units and sectors of 4 units:

* `matcher_safety`: `SectorWithinCapacity`, `DealInOnePlace` and
  `ImplementsDealPlacement`. The run uses three sector numbers, a cap of 1 wait-deals
  sector and 2 sealing sectors, and 3 deals per sector. It enables write
  failures, config failures, early expiry and user `StartPacking`. Deals of
  the same size are symmetric. The 2-unit deal is submitted a second time
  (`Resubmitted = {d2}`). 192,237 states, about 40 s.
* `matcher_live`: `EveryCallAnswered` and `EverySectorPacked` with no write or config failures, no caps
  and 2 deals per sector, so the "too many deals" refusal and the maxdeals
  trigger occur. The delay may run out before a timer is armed. 11,660
  states.
* `matcher_nospace` (expected violation): `NoSpaceRefusal`. In one pass the
  1-unit piece is matched before the 2-unit one. This is the code's
  smaller-first tie order, where the design says larger first. The stale
  padding counts 3 units where 4 are taken, so the third deal is assigned
  to the full sector and refused.
* `matcher_resubmit` (expected violation): `RefusedOnlyWhilePending`.
  This uses the `matcher_live` constants, with d2 resubmitted. The two
  1-unit deals fill the 2-deal limit of sector 1, so `handleAddPiece`
  refuses d2 with "too many deals". When d2's caller submits it again, the
  call is refused as "already pending", because nothing ever deletes an
  entry of `m.pendingPieces`. The design keys pending pieces by proposal
  CID only so that a double submission fails. A refused deal can therefore
  never be placed again until the process restarts.
* `matcher_writefail` (expected violation): `EveryCallAnswered` with
  `WriteMayFail`. A failed write leaves the other callers of the list, and
  later deals assigned to the failed sector, blocked forever on `resCh`,
  which has no context case (`input.go:297`).
* `matcher_configfail` (expected violation): `EverySectorPacked` with
  `getConfig` allowed to fail in `maybeStartSealing`, which reads it once
  `CreationTime` is stamped. `handleWaitDeals` then deletes the sector from
  `openSectors` and returns the error. It neither sends
  `SectorStartPacking` nor arms a timer, so the sector stays in WaitDeals
  and takes no deals. Only a user `StartPacking` or a restart moves it. The
  design has `handleWaitDeals` always do one of the two.

Fairness:

* The FSM goroutine, the handlers, the timer goroutines and the wall clock
  are weakly fair.
* API calls, `StartPacking` included, have no fairness.
* With `EarlyExpiry` the delay may run out between the first
  `SectorAddPiece` and the `handleWaitDeals` that would arm the timer (a
  slow piece write); without it, only once a timer is armed.
  `matcher_live` allows it.

The bounds are enough for these properties:

* Three deals with two sizes give padding, a sector filled in one pass,
  and the stale-padding undercount.
* Three sector numbers let every deal have its own sector when sectors pack
  early.
* A sector of 4 units holds all three deals with one pad.

### PreCommitPolicy

`Expiration` is a pure function of the chain head and the pieces, so the
model is a single call:

* `Init` chooses a head epoch, a list of up to two pieces (with or without
  deal info, each with a deal end epoch), and no policy yet.
* `Run` is `Miner.Run` getting past its preflight checks and
  `StateMinerProvingDeadline`. It fixes `md.PeriodStart`, from which
  `defaultDuration` and `provingBoundary` are derived as on lines 196-197.
  It builds `pcp` with `NewBasicPreCommitPolicy`, a record holding the two
  values, and `Expire` reads them from `pcp` as the method reads its
  receiver's fields. Because `ExpirationFollowsDesign` derives the design's
  values from `md.PeriodStart` on its own, a constructor that swapped its
  two arguments would be caught.
* `RunFail` is any of those reads failing. No policy is built.
* `Expire` returns `Expiration(...)`. `ChainHeadFail` returns 0 with the
  error.

`latestEnd` is the loop, as a RECURSIVE operator. It skips pieces without
deal info and deals that ended before the head, and keeps the largest end,
with `NoEnd` standing for the nil pointer.

The run `policy_expiration` uses a proving period of 4 epochs and a maximum
extension of 14. Head epochs are 0..5 and period starts are 0..4, so every
boundary 0..3 occurs. Deal ends are {0, 3, 4, 5, 7, 8, 11}, which fall
before, at and after the head and across several periods. The run checks:

* `ExpirationFollowsDesign`: the loop gives the design's set-based
  definition (the maximum of the live deal ends, else head + duration, then
  aligned).
* `ExpirationCoversDeals`: the result is on the proving boundary and never
  before a live deal's end.
* `DefaultWithinMaxExtension`: without live deals, the result never passes
  head + maximum extension. This holds only because `Miner.Run` subtracts
  two proving periods, since the alignment can add up to one period plus
  the boundary.

21,522 states. The alignment always moves the expiration into the period
after the end epoch, even when an epoch of the right phase lies at or after
the end in the same period. That is what the design's formula says, so it
is not a finding. With deals ending near the chain's limit, it can give an
expiration the chain rejects (see the hazards).

### ProfilingHarness

`src/app/main.go` opens the sqlite repository (`log.Fatal` on error) and
migrates it. For `i` from 10 to 199 it then calls `wg.Add(1)` and starts a
goroutine that queries sector `i` and calls `Done` in a `defer`. Finally it
runs `wg.Wait()`. The closure captures the variable `i`, not its value. Go
before 1.22 has one `i` for the whole loop, so each goroutine reads `i`
while `main` is still incrementing it. That read is a data race.

The model's state:
* `pc` is main's position.
* `i` is the shared loop variable.
* `wg` is the counter.
* Each iteration has `gst`, its goroutine's state, and `qid`, the id that
  goroutine queried.

`Launch` is `wg.Add` with the `go` statement, and `Incr` is the loop's
`i++` with its condition. They are separate steps, because a goroutine can
run between them. `Query(k)` reads any value from `k` up to the current
`i`. These are the values the racy read can return: the `go` statement
happens after `i` became `k`, and any later write may be seen. The loop
bounds `Lo..Hi` (10..13, three goroutines) stand for 10..200.

* `harness`: `MainOutlivesQueries` (`main` returns only after every
  goroutine has finished) and `Terminates`, under weak fairness for `main`
  and every goroutine, as Go's scheduler gives. 505 states.

The racy read is modelled, but no property says which id each goroutine
should query. The results are discarded, and nothing in the repository
states the intent.

### ProvingCLI

The `proving` subcommands read the miner actor and print what they count.
`Init` picks the chain state (`cs`) that a command reads. It is one of the
states the actor keeps:
* every sector is in one partition of one deadline;
* the partitions of a deadline are numbered from 0;
* proven partitions exist;
* a recovering sector is faulty;
* a terminated sector is neither faulty nor recovering.

Each subcommand is one action. Its output `out` keeps the numbers and sets
it prints:
* `provingFaultsCmd`: the rows of faulty sectors.
* `provingInfoCmd`: the totals from the walk over every partition, the
  current deadline's live sectors, and `faultPerc` as the code computes it,
  in hundredths of a percent.
* `provingDeadlinesCmd`: one row per deadline.
* `provingDeadlineInfoCmd(dlIdx)`: one deadline. The index may also be one
  past the last deadline, which `StateMinerPartitions` rejects before
  `deadlines[dlIdx]` is read.
* `provingCheckProvableCmd(dlIdx, onlyBad)`: `CheckProvable` may call any
  live sector bad.

`CmdFail` is any of the error returns: argument parsing, API clients, RPCs
and bitfield counts. `Walk` is the `ForEachDeadline`/`ForEachPartition` walk of `info`. It
updates all four counters in one fold over the set of partitions, because the
counters are sums and the walk's order cannot change them.

The bounds are three sectors and two deadlines of up to two partitions.
Three sectors give fault shares such as 2/3, which an integer division
cannot print exactly.
* `proving_cli`: `TypeOK` (which includes `faultPerc` being at most 100%)
  and `OutputFollowsState`. Every command reports what a set-based
  definition over the chain state gives. 386,608 states, about 15 s.
* `proving_faultperc.cfg` (a further check, not in the run list; TLC
  reports a violation): `FaultPercentShown`.
  `float64(faults * 100 / proving)` divides before it converts, so 2 faults
  among 3 sectors print as `66.00%` instead of `66.67%`. The defect is
  cosmetic, since the `%.2f` decimals are always zero.

### Abstract specifications and refinement

* `PreCommitQueue` is the batcher as its callers see it. A call gives up
  before queueing (`GiveUp`), or queues its sector (`Submit`). A `Batch` of
  1..`MaxPreCommitBatch` queued sectors answers every call pending on them,
  once, with one result. A call returns its answer (`Return`), or abandons
  its wait (`Abandon`) and leaves the sector queued. `PreCommitBatcher`
  maps:
  * `DOMAIN todo` to `queued`;
  * `waiting` to `pending`;
  * the buffered channel, or else the returned value, to `ans`;
  * the call's position to `st`.

  The loop, the timer, `Flush` and `Stop` are stuttering steps. Checked in
  `batcher_safety`.
* `DealPlacement` is the matcher as its callers see it. A deal is submitted
  and waits. It is then either placed, once, in a sector that has not
  started packing, where the deal sizes still fit and a deal slot is free,
  or refused. Several deals may be refused at once, as the Packing handler
  does. `PieceMatcher` maps:
  * a deal's call and answer to `status` and `where`;
  * the sectors in Packing to `sealed`.

  Checked in `matcher_safety`.

## 4. Not modelled

* `Pending`, which only reads the queue.
* The validation early returns of `AddPieceToAnySector` and the failure of
  `NewSector`. They change no matcher state.
* FSM shutdown (the double `accepted` send). Also the growth of
  `m.pendingPieces` itself: `updateInput` skips assigned entries, so the
  leak only costs iteration time, which no property distinguishes.
* In the miner facade: `NewMiner`, the journal callback, `Stop` (a
  pass-through to `Sealing.Stop`) and the WinningPoSt prover (calls into the
  proof library). They hold no state a property could tell apart. `Run` is
  modelled in `PreCommitPolicy`.
* The layout, colours and epoch times the proving CLI prints. Also the
  chain moving between the RPCs of one command: the model reads one chain
  state per command (a hazard in `PROJECT.json`).
* `constants/constants.go`: version numbers and the global clock, with no
  behaviour.
* The database the profiling harness queries, and its CPU profile.
* `Flush` or `AddPreCommit` called after `Stop`. They block until their
  context ends, which `EveryWaiterAnswered` excuses. A second `Stop` panics,
  but its only caller calls it once.
* Fee computation, CBOR encoding and deposits, which are data that no property
  distinguishes. They are abstracted into the success or failure of
  `processBatch`.
