-------------------------- MODULE PreCommitBatcher --------------------------
(***************************************************************************)
(* The pre-commit batcher of src/storage-sealing/precommit_batch.go.       *)
(*                                                                         *)
(* Three kinds of goroutine share the batcher:                             *)
(*   - AddPreCommit callers (one per sector FSM), which read the chain     *)
(*     head, register the sector under b.lk, poke the capacity-1 notify    *)
(*     channel and park on their own buffered result channel;              *)
(*   - Flush callers, which hand a result channel to the loop over the     *)
(*     unbuffered force channel and wait for it;                           *)
(*   - the run() loop, which selects on stop / notify / timer / force,     *)
(*     runs maybeStartBatch (holding b.lk across processBatch, i.e. across *)
(*     the message send), then re-arms its timer from batchWait.           *)
(*                                                                         *)
(* Every step that holds b.lk is one atomic action, so the lock needs no   *)
(* variable of its own.  Time is kept relative: cutoffs and the timer are  *)
(* distances from "now" that Tick decrements, one unit being one epoch     *)
(* (BlockDelaySecs seconds) and also the timer's smallest positive         *)
(* duration, time.Nanosecond.  Distances below CutoffFloor all lie before  *)
(* now - slack and are clamped there; batchWait cannot tell them apart.    *)
(***************************************************************************)
EXTENDS Integers, FiniteSets, FiniteSetsExt, Functions, TLC

CONSTANTS
  Sectors,         \* sector numbers that go through pre-commit
  Callers,         \* AddPreCommit calls (a resubmission is another call)
  Flushers,        \* Flush calls
  MaxPreCommitBatch,
  PreCommitBatchWait,   \* cfg.PreCommitBatchWait, in epochs
  PreCommitBatchSlack,  \* cfg.PreCommitBatchSlack, in epochs
  CutoffDistances, \* cutoffEpoch - curEpoch values ChainHead can yield
  ConfigMayFail,   \* whether b.getConfig() can return an error
  NoRes            \* model value: an empty result slot / no Flush pending

ASSUME /\ MaxPreCommitBatch \in Nat \ {0}
       /\ PreCommitBatchWait \in Nat \ {0}
       /\ PreCommitBatchSlack \in Nat
       /\ CutoffDistances \subseteq Int
       /\ ConfigMayFail \in BOOLEAN

VARIABLES
  todo,          \* b.todo: sector -> the call whose pre-commit entry is queued
  cutoffs,       \* b.cutoffs: sector -> cutoff, relative to now
  waiting,       \* b.waiting: sector -> calls parked on a result channel
  notify,        \* the capacity-1 b.notify channel holds a token
  stopClosed,    \* b.stop has been closed by Stop
  spc,           \* the Stop call: "idle", "wait", "returned", "cancelled"
  timer,         \* epochs until the loop's timer fires (0: fired)
  lpc,           \* where run() is: "select", "process", "rearm", "stopped"
  sendAboveMax,  \* run()'s per-iteration sendAboveMax
  forceRes,      \* run()'s forceRes: the Flush being served, or NoRes
  lastRes,       \* run()'s lastRes: results of the last maybeStartBatch ({} is nil)
  cpc,           \* AddPreCommit call: "idle","head","wait","ok","failed","cancelled"
  csec,          \* sector each call pre-commits
  cdist,         \* cutoffEpoch - curEpoch as read by the call's ChainHead
  chan,          \* each call's buffered (capacity 1) result channel
  cres,          \* the result AddPreCommit returned
  fpc,           \* Flush call: "idle","offer","await","done","cancelled"
  fres           \* each Flush call's buffered result channel (NoRes: empty)

vars == <<spc, todo, cutoffs, waiting, notify, stopClosed, timer, lpc, sendAboveMax,
          forceRes, lastRes, cpc, csec, cdist, chan, cres, fpc, fres>>

CutoffFloor == -(PreCommitBatchSlack + 1)

\* A sealiface.PreCommitBatchRes: the sectors of the batch and whether
\* processBatch reported an error (r.Error set).
BatchRes == [sectors : SUBSET Sectors, ok : BOOLEAN]

WaitingSectors == {sn \in Sectors : waiting[sn] # {}}

-----------------------------------------------------------------------------
(* Pure helpers translated from the code.                                  *)

\* Fault variant: a past cutoff epoch is not clamped to now.
getPreCommitCutoff_Unclamped(dist) == dist

\* getPreCommitCutoff: now when the cutoff epoch is not in the future,
\* otherwise now + (cutoffEpoch - curEpoch) * blockDelaySecs.
getPreCommitCutoff(dist) == IF dist <= 0 THEN 0 ELSE dist

\* Fault variant: the earliest cutoff is used without subtracting slack.
batchWait_NoSlack(maxWait, slack) ==
  IF DOMAIN todo = {} THEN maxWait
  ELSE LET cutoff == Min({cutoffs[sn] : sn \in DOMAIN todo \cup WaitingSectors})
       IN  IF cutoff < 0 THEN 1
           ELSE IF cutoff > maxWait THEN maxWait ELSE cutoff

\* batchWait(maxWait, slack): maxWait when nothing is queued, otherwise the
\* time to the earliest cutoff minus slack, time.Nanosecond when that lies
\* strictly before now, capped at maxWait.
batchWait(maxWait, slack) ==
  IF DOMAIN todo = {} THEN maxWait
  ELSE LET cutoff == Min({cutoffs[sn] : sn \in DOMAIN todo \cup WaitingSectors})
       IN  IF cutoff - slack < 0 THEN 1
           ELSE IF cutoff - slack > maxWait THEN maxWait
           ELSE cutoff - slack

-----------------------------------------------------------------------------
(* AddPreCommit(ctx, s, deposit, in)                                       *)

\* b.api.ChainHead: the call learns how far its cutoff epoch is from the
\* current epoch.  The read happens before b.lk is taken.
ChainHead(c) ==
  /\ cpc[c] = "idle"
  /\ \E sn \in Sectors, d \in CutoffDistances :
       /\ csec' = [csec EXCEPT ![c] = sn]
       /\ cdist' = [cdist EXCEPT ![c] = d]
  /\ cpc' = [cpc EXCEPT ![c] = "head"]
  /\ UNCHANGED <<spc, todo, cutoffs, waiting, notify, stopClosed, timer, lpc,
                 sendAboveMax, forceRes, lastRes, chan, cres, fpc, fres>>

\* ChainHead returned an error: AddPreCommit returns it without registering.
ChainHeadFail(c) ==
  /\ cpc[c] = "idle"
  /\ cpc' = [cpc EXCEPT ![c] = "failed"]
  /\ UNCHANGED <<spc, todo, cutoffs, waiting, notify, stopClosed, timer, lpc,
                 sendAboveMax, forceRes, lastRes, csec, cdist, chan, cres,
                 fpc, fres>>

\* Fault variants of Register: b.waiting[sn] = []chan{sent} replacing the
\* earlier callers' channels, and a Register that never pokes notify.
Register_OverwriteWaiting(c) ==
  LET sn == csec[c] IN
  /\ cpc[c] = "head"
  /\ cutoffs' = (sn :> getPreCommitCutoff(cdist[c])) @@ cutoffs
  /\ todo' = (sn :> c) @@ todo
  /\ waiting' = [waiting EXCEPT ![sn] = {c}]
  /\ chan' = [chan EXCEPT ![c] = NoRes]
  /\ notify' = TRUE
  /\ cpc' = [cpc EXCEPT ![c] = "wait"]
  /\ UNCHANGED <<spc, stopClosed, timer, lpc, sendAboveMax, forceRes, lastRes,
                 csec, cdist, cres, fpc, fres>>

Register_NoNotify(c) ==
  LET sn == csec[c] IN
  /\ cpc[c] = "head"
  /\ cutoffs' = (sn :> getPreCommitCutoff(cdist[c])) @@ cutoffs
  /\ todo' = (sn :> c) @@ todo
  /\ waiting' = [waiting EXCEPT ![sn] = @ \cup {c}]
  /\ chan' = [chan EXCEPT ![c] = NoRes]
  /\ cpc' = [cpc EXCEPT ![c] = "wait"]
  /\ UNCHANGED <<spc, notify, stopClosed, timer, lpc, sendAboveMax, forceRes,
                 lastRes, csec, cdist, cres, fpc, fres>>

\* Under b.lk: set the cutoff, overwrite the todo entry, append the call's
\* fresh result channel to waiting, and try a non-blocking send on notify.
Register(c) ==
  LET sn == csec[c] IN
  /\ cpc[c] = "head"
  /\ cutoffs' = (sn :> getPreCommitCutoff(cdist[c])) @@ cutoffs
  /\ todo' = (sn :> c) @@ todo
  /\ waiting' = [waiting EXCEPT ![sn] = @ \cup {c}]
  /\ chan' = [chan EXCEPT ![c] = NoRes]
  /\ notify' = TRUE
  /\ cpc' = [cpc EXCEPT ![c] = "wait"]
  /\ UNCHANGED <<spc, stopClosed, timer, lpc, sendAboveMax, forceRes, lastRes,
                 csec, cdist, cres, fpc, fres>>

\* case c := <-sent: return c, nil
Receive(c) ==
  /\ cpc[c] = "wait"
  /\ chan[c] # NoRes
  /\ cres' = [cres EXCEPT ![c] = chan[c]]
  /\ chan' = [chan EXCEPT ![c] = NoRes]
  /\ cpc' = [cpc EXCEPT ![c] = IF chan[c].ok THEN "ok" ELSE "failed"]
  /\ UNCHANGED <<spc, todo, cutoffs, waiting, notify, stopClosed, timer, lpc,
                 sendAboveMax, forceRes, lastRes, csec, cdist, fpc, fres>>

\* case <-ctx.Done(): the entry and the channel stay queued.
Cancel(c) ==
  /\ cpc[c] = "wait"
  /\ cpc' = [cpc EXCEPT ![c] = "cancelled"]
  /\ UNCHANGED <<spc, todo, cutoffs, waiting, notify, stopClosed, timer, lpc,
                 sendAboveMax, forceRes, lastRes, csec, cdist, chan, cres,
                 fpc, fres>>

-----------------------------------------------------------------------------
(* Flush(ctx) and Stop(ctx)                                                *)

\* Flush makes a result channel and offers it on the unbuffered force
\* channel; the offer completes only when run() selects it.
FlushOffer(f) ==
  /\ fpc[f] = "idle"
  /\ fpc' = [fpc EXCEPT ![f] = "offer"]
  /\ UNCHANGED <<spc, todo, cutoffs, waiting, notify, stopClosed, timer, lpc,
                 sendAboveMax, forceRes, lastRes, cpc, csec, cdist, chan,
                 cres, fres>>

\* case res := <-resCh: return res, nil
FlushReturn(f) ==
  /\ fpc[f] = "await"
  /\ fres[f] # NoRes
  /\ fpc' = [fpc EXCEPT ![f] = "done"]
  /\ UNCHANGED <<spc, todo, cutoffs, waiting, notify, stopClosed, timer, lpc,
                 sendAboveMax, forceRes, lastRes, cpc, csec, cdist, chan,
                 cres, fres>>

\* case <-ctx.Done(), while offering or while waiting for the result.
FlushCancel(f) ==
  /\ fpc[f] \in {"offer", "await"}
  /\ fpc' = [fpc EXCEPT ![f] = "cancelled"]
  /\ UNCHANGED <<spc, todo, cutoffs, waiting, notify, stopClosed, timer, lpc,
                 sendAboveMax, forceRes, lastRes, cpc, csec, cdist, chan,
                 cres, fres>>

\* Mutant: Stop returns without closing b.stop.
Stop_NoClose ==
  /\ spc = "idle"
  /\ spc' = "wait"
  /\ UNCHANGED <<stopClosed, todo, cutoffs, waiting, notify, timer, lpc, sendAboveMax,
                 forceRes, lastRes, cpc, csec, cdist, chan, cres, fpc, fres>>

\* Stop: close(b.stop), then wait on b.stopped or the context.  It is
\* called once (Sealing.Stop); a second call would panic on the closed
\* channel.
Stop ==
  /\ spc = "idle"
  /\ stopClosed' = TRUE
  /\ spc' = "wait"
  /\ UNCHANGED <<todo, cutoffs, waiting, notify, timer, lpc, sendAboveMax,
                 forceRes, lastRes, cpc, csec, cdist, chan, cres, fpc, fres>>

\* run() has closed b.stopped: Stop returns nil.
StopReturn ==
  /\ spc = "wait"
  /\ lpc = "stopped"
  /\ spc' = "returned"
  /\ UNCHANGED <<todo, cutoffs, waiting, notify, stopClosed, timer, lpc,
                 sendAboveMax, forceRes, lastRes, cpc, csec, cdist, chan,
                 cres, fpc, fres>>

\* Stop's context is done first: it returns ctx.Err().
StopCancel ==
  /\ spc = "wait"
  /\ spc' = "cancelled"
  /\ UNCHANGED <<todo, cutoffs, waiting, notify, stopClosed, timer, lpc,
                 sendAboveMax, forceRes, lastRes, cpc, csec, cdist, chan,
                 cres, fpc, fres>>

-----------------------------------------------------------------------------
(* run(): one action per case of the select, then maybeStartBatch, then    *)
(* the timer reset followed by the forceRes delivery at the loop's top.    *)

RecvStop ==
  /\ lpc = "select"
  /\ stopClosed
  /\ lpc' = "stopped"
  /\ UNCHANGED <<spc, todo, cutoffs, waiting, notify, stopClosed, timer,
                 sendAboveMax, forceRes, lastRes, cpc, csec, cdist, chan,
                 cres, fpc, fres>>

RecvNotify ==
  /\ lpc = "select"
  /\ notify
  /\ notify' = FALSE
  /\ sendAboveMax' = TRUE
  /\ lpc' = "process"
  /\ UNCHANGED <<spc, todo, cutoffs, waiting, stopClosed, timer, forceRes,
                 lastRes, cpc, csec, cdist, chan, cres, fpc, fres>>

RecvTimer ==
  /\ lpc = "select"
  /\ timer = 0
  /\ sendAboveMax' = FALSE
  /\ lpc' = "process"
  /\ UNCHANGED <<spc, todo, cutoffs, waiting, notify, stopClosed, timer,
                 forceRes, lastRes, cpc, csec, cdist, chan, cres, fpc, fres>>

\* Fault variant: sendAboveMax declared outside the loop, so a forced
\* iteration keeps the value a previous notification left.
RecvForce_KeepSendAboveMax(f) ==
  /\ lpc = "select"
  /\ fpc[f] = "offer"
  /\ forceRes' = f
  /\ fpc' = [fpc EXCEPT ![f] = "await"]
  /\ lpc' = "process"
  /\ UNCHANGED <<spc, todo, cutoffs, waiting, notify, stopClosed, timer, lastRes,
                 sendAboveMax, cpc, csec, cdist, chan, cres, fres>>

RecvForce(f) ==
  /\ lpc = "select"
  /\ fpc[f] = "offer"
  /\ forceRes' = f
  /\ fpc' = [fpc EXCEPT ![f] = "await"]
  /\ sendAboveMax' = FALSE
  /\ lpc' = "process"
  /\ UNCHANGED <<spc, todo, cutoffs, waiting, notify, stopClosed, timer, lastRes,
                 cpc, csec, cdist, chan, cres, fres>>

\* maybeStartBatch returns nil: nothing queued, or a notification while
\* fewer than MaxPreCommitBatch sectors are queued.
NoBatch ==
  /\ lpc = "process"
  /\ \/ DOMAIN todo = {}
     \/ sendAboveMax /\ Cardinality(DOMAIN todo) < MaxPreCommitBatch
  /\ lastRes' = {}
  /\ lpc' = "rearm"
  /\ UNCHANGED <<spc, todo, cutoffs, waiting, notify, stopClosed, timer,
                 sendAboveMax, forceRes, cpc, csec, cdist, chan, cres,
                 fpc, fres>>

\* b.getConfig() fails once something is queued: maybeStartBatch returns
\* the error, run() logs it and re-arms.
GetConfigFail ==
  /\ ConfigMayFail
  /\ lpc = "process"
  /\ DOMAIN todo # {}
  /\ lastRes' = {}
  /\ lpc' = "rearm"
  /\ UNCHANGED <<spc, todo, cutoffs, waiting, notify, stopClosed, timer,
                 sendAboveMax, forceRes, cpc, csec, cdist, chan, cres,
                 fpc, fres>>

\* Fault variants of SendBatch: the sectors are not deleted from waiting,
\* and a failed batch drops its sectors without answering the callers.
SendBatch_KeepWaiting ==
  LET total == Cardinality(DOMAIN todo) IN
  /\ lpc = "process"
  /\ total > 0
  /\ ~(sendAboveMax /\ total < MaxPreCommitBatch)
  /\ \E batch \in kSubset(Min({total, MaxPreCommitBatch}), DOMAIN todo),
        ok \in BOOLEAN :
       LET r == [sectors |-> batch, ok |-> ok]
           receivers == UNION {waiting[sn] : sn \in batch}
       IN /\ \A c \in receivers : chan[c] = NoRes
          /\ chan' = [c \in Callers |-> IF c \in receivers THEN r ELSE chan[c]]
          /\ todo' = Restrict(todo, DOMAIN todo \ batch)
          /\ cutoffs' = Restrict(cutoffs, DOMAIN cutoffs \ batch)
          /\ lastRes' = {[r EXCEPT !.ok = TRUE]}
  /\ lpc' = "rearm"
  /\ UNCHANGED <<spc, waiting, notify, stopClosed, timer, sendAboveMax, forceRes,
                 cpc, csec, cdist, cres, fpc, fres>>

SendBatch_DropOnError ==
  LET total == Cardinality(DOMAIN todo) IN
  /\ lpc = "process"
  /\ total > 0
  /\ ~(sendAboveMax /\ total < MaxPreCommitBatch)
  /\ \E batch \in kSubset(Min({total, MaxPreCommitBatch}), DOMAIN todo),
        ok \in BOOLEAN :
       LET r == [sectors |-> batch, ok |-> ok]
           receivers == IF ok THEN UNION {waiting[sn] : sn \in batch} ELSE {}
       IN /\ \A c \in receivers : chan[c] = NoRes
          /\ chan' = [c \in Callers |-> IF c \in receivers THEN r ELSE chan[c]]
          /\ waiting' = [sn \in Sectors |-> IF sn \in batch THEN {}
                                            ELSE waiting[sn]]
          /\ todo' = Restrict(todo, DOMAIN todo \ batch)
          /\ cutoffs' = Restrict(cutoffs, DOMAIN cutoffs \ batch)
          /\ lastRes' = {[r EXCEPT !.ok = TRUE]}
  /\ lpc' = "rearm"
  /\ UNCHANGED <<spc, notify, stopClosed, timer, sendAboveMax, forceRes, cpc,
                 csec, cdist, cres, fpc, fres>>

\* processBatch takes up to MaxPreCommitBatch entries in map order and may
\* fail at serialisation, StateMinerInfo, the address selector or the
\* send; either way maybeStartBatch sends the one result to every channel
\* waiting on its sectors (ch <- r blocks on a full buffer, holding b.lk)
\* and deletes those sectors from waiting, todo and cutoffs.  The error
\* is set on the range variable, a copy: the res slice that becomes
\* lastRes, and reaches Flush, never carries it.
SendBatch ==
  LET total == Cardinality(DOMAIN todo) IN
  /\ lpc = "process"
  /\ total > 0
  /\ ~(sendAboveMax /\ total < MaxPreCommitBatch)
  /\ \E batch \in kSubset(Min({total, MaxPreCommitBatch}), DOMAIN todo),
        ok \in BOOLEAN :
       LET r == [sectors |-> batch, ok |-> ok]
           receivers == UNION {waiting[sn] : sn \in batch}
       IN /\ \A c \in receivers : chan[c] = NoRes
          /\ chan' = [c \in Callers |-> IF c \in receivers THEN r ELSE chan[c]]
          /\ waiting' = [sn \in Sectors |-> IF sn \in batch THEN {}
                                            ELSE waiting[sn]]
          /\ todo' = Restrict(todo, DOMAIN todo \ batch)
          /\ cutoffs' = Restrict(cutoffs, DOMAIN cutoffs \ batch)
          /\ lastRes' = {[r EXCEPT !.ok = TRUE]}
  /\ lpc' = "rearm"
  /\ UNCHANGED <<spc, notify, stopClosed, timer, sendAboveMax, forceRes, cpc,
                 csec, cdist, cres, fpc, fres>>

\* timer.Stop / drain / Reset(batchWait(...)), then at the top of the loop
\* deliver lastRes to a pending Flush and clear lastRes.
Rearm ==
  /\ lpc = "rearm"
  /\ timer' = batchWait(PreCommitBatchWait, PreCommitBatchSlack)
  /\ fres' = IF forceRes = NoRes THEN fres
             ELSE [fres EXCEPT ![forceRes] = lastRes]
  /\ forceRes' = NoRes
  /\ lastRes' = {}
  /\ lpc' = "select"
  /\ UNCHANGED <<spc, todo, cutoffs, waiting, notify, stopClosed, sendAboveMax,
                 cpc, csec, cdist, chan, cres, fpc>>

\* One epoch passes: every relative deadline moves one closer.
Tick ==
  /\ timer > 0 \/ \E sn \in DOMAIN cutoffs : cutoffs[sn] > CutoffFloor
  /\ timer' = IF timer > 0 THEN timer - 1 ELSE 0
  /\ cutoffs' = [sn \in DOMAIN cutoffs |-> Max({cutoffs[sn] - 1, CutoffFloor})]
  /\ UNCHANGED <<spc, todo, waiting, notify, stopClosed, lpc, sendAboveMax,
                 forceRes, lastRes, cpc, csec, cdist, chan, cres, fpc, fres>>

-----------------------------------------------------------------------------

Init ==
  /\ todo = << >>
  /\ cutoffs = << >>
  /\ waiting = [sn \in Sectors |-> {}]
  /\ notify = FALSE
  /\ stopClosed = FALSE
  /\ spc = "idle"
  /\ timer = PreCommitBatchWait      \* batchWait with nothing queued
  /\ lpc = "select"
  /\ sendAboveMax = FALSE
  /\ forceRes = NoRes
  /\ lastRes = {}
  /\ cpc = [c \in Callers |-> "idle"]
  /\ csec = [c \in Callers |-> CHOOSE sn \in Sectors : TRUE]
  /\ cdist = [c \in Callers |-> 0]
  /\ chan = [c \in Callers |-> NoRes]
  /\ cres = [c \in Callers |-> NoRes]
  /\ fpc = [f \in Flushers |-> "idle"]
  /\ fres = [f \in Flushers |-> NoRes]

\* The loop has stopped and no call can move any more.
Quiescent ==
  /\ lpc = "stopped"
  /\ spc \in {"returned", "cancelled"}
  /\ \A c \in Callers : cpc[c] \in {"ok", "failed", "cancelled"}
  /\ \A f \in Flushers : fpc[f] \in {"done", "cancelled"}
  /\ UNCHANGED vars

Caller(c) ==
  \/ ChainHead(c) \/ ChainHeadFail(c) \/ Register(c)
  \/ Receive(c) \/ Cancel(c)

Flusher(f) == FlushOffer(f) \/ FlushReturn(f) \/ FlushCancel(f)

Loop ==
  \/ RecvStop \/ RecvNotify \/ RecvTimer \/ \E f \in Flushers : RecvForce(f)
  \/ NoBatch \/ GetConfigFail \/ SendBatch \/ Rearm

Next ==
  \/ \E c \in Callers : Caller(c)
  \/ \E f \in Flushers : Flusher(f)
  \/ Stop \/ StopReturn \/ StopCancel
  \/ Loop
  \/ Tick
  \/ Quiescent

\* Go's scheduler keeps running the run() goroutine: a ready select case is
\* eventually taken and a re-arm eventually happens.  maybeStartBatch gets
\* past getConfig eventually (strong fairness: a failing read leaves the
\* "process" step, so it is only intermittently enabled).  The clock keeps
\* moving, and a call whose result is buffered is woken.  Go picks a ready
\* select case uniformly at random, so a closed b.stop is not passed over
\* for ever in favour of the timer (strong fairness on RecvStop), and the
\* Stop call is woken once b.stopped is closed.
Fairness ==
  /\ WF_vars(RecvStop \/ RecvNotify \/ RecvTimer \/ \E f \in Flushers : RecvForce(f))
  /\ SF_vars(RecvStop)
  /\ WF_vars(StopReturn)
  /\ SF_vars(NoBatch \/ SendBatch)
  /\ WF_vars(Rearm)
  /\ \A c \in Callers : WF_vars(Receive(c))
  /\ \A f \in Flushers : WF_vars(FlushReturn(f))

Spec == Init /\ [][Next]_vars /\ Fairness /\ WF_vars(Tick)

\* The same system with no guarantee that the clock ever reaches the timer.
SpecNoTimer == Init /\ [][Next]_vars /\ Fairness

-----------------------------------------------------------------------------
(* Properties                                                              *)

TypeOK ==
  /\ DOMAIN todo \subseteq Sectors /\ \A sn \in DOMAIN todo : todo[sn] \in Callers
  /\ DOMAIN cutoffs \subseteq Sectors
  /\ \A sn \in DOMAIN cutoffs : cutoffs[sn] \in CutoffFloor..Max(CutoffDistances \cup {0})
  /\ waiting \in [Sectors -> SUBSET Callers]
  /\ spc \in {"idle", "wait", "returned", "cancelled"}
  /\ notify \in BOOLEAN /\ stopClosed \in BOOLEAN /\ sendAboveMax \in BOOLEAN
  /\ timer \in 0..PreCommitBatchWait
  /\ lpc \in {"select", "process", "rearm", "stopped"}
  /\ forceRes \in Flushers \cup {NoRes}
  /\ lastRes \subseteq BatchRes /\ Cardinality(lastRes) <= 1
  /\ cpc \in [Callers -> {"idle", "head", "wait", "ok", "failed", "cancelled"}]
  /\ csec \in [Callers -> Sectors] /\ cdist \in [Callers -> CutoffDistances \cup {0}]
  /\ chan \in [Callers -> BatchRes \cup {NoRes}]
  /\ cres \in [Callers -> BatchRes \cup {NoRes}]
  /\ fpc \in [Flushers -> {"idle", "offer", "await", "done", "cancelled"}]
  /\ fres \in [Flushers -> SUBSET BatchRes \cup {NoRes}]

\* No lost wake-up: an AddPreCommit call parked on an empty result channel
\* still has that channel in b.waiting under a sector that is still in
\* b.todo, so some later batch will answer it.  This is what lets a second
\* AddPreCommit for the same sector (an FSM retry) overwrite the todo entry
\* without stranding the first caller.
ParkedCallIsQueued ==
  \A c \in Callers :
    cpc[c] = "wait" /\ chan[c] = NoRes =>
      /\ c \in waiting[csec[c]]
      /\ csec[c] \in DOMAIN todo

\* maybeStartBatch's "ch <- r // buffered" can never block: every channel
\* still listed in b.waiting has an empty buffer.  A blocked send would
\* hang run() while it holds b.lk, and with it every AddPreCommit.
WaitingChannelsEmpty ==
  \A sn \in Sectors : \A c \in waiting[sn] : chan[c] = NoRes

\* Whenever run() is parked in its select with no notification pending,
\* its timer fires no later than the earliest queued cutoff minus
\* PreCommitBatchSlack (or within one unit when that moment has passed).
\* New sectors reach the timer only through notify and the re-arm that
\* follows it.
TimerCoversEarliestCutoff ==
  (lpc = "select" /\ ~notify /\ DOMAIN todo # {}) =>
    timer <= Max({Min({cutoffs[sn] : sn \in DOMAIN todo}) - PreCommitBatchSlack, 1})

\* A Flush that finds at most MaxPreCommitBatch sectors queued sends all of
\* them (checked with a configuration read that does not fail): the forced
\* maybeStartBatch must run with sendAboveMax false whatever earlier
\* iterations of the loop saw.
FlushSendsAllQueued ==
  [][ (lpc = "process" /\ forceRes # NoRes /\ lpc' = "rearm"
       /\ Cardinality(DOMAIN todo) <= MaxPreCommitBatch /\ DOMAIN todo # {})
      => DOMAIN todo' = {} ]_vars

\* Every AddPreCommit call that parks is eventually answered (or gives up,
\* or the batcher is stopped); a failed send answers with an error rather
\* than dropping the caller.
EveryWaiterAnswered ==
  \A c \in Callers : cpc[c] = "wait" ~> (cpc[c] # "wait" \/ stopClosed)

\* Once MaxPreCommitBatch sectors are queued a batch goes out through the
\* notify path alone, without the timer ever firing.
FullQueueSentWithoutTimer ==
  Cardinality(DOMAIN todo) >= MaxPreCommitBatch ~>
    (Cardinality(DOMAIN todo) < MaxPreCommitBatch \/ stopClosed)

\* Stop's handshake (design: run() closes b.stopped once b.stop is closed,
\* and Stop waits on it): a Stop call waiting on b.stopped returns, even
\* while the timer, notifications and batches keep run() busy.
StopReturns ==
  spc = "wait" ~> spc # "wait"

\* batchWait never arms the timer with a zero duration: the code comment
\* "can't return 0" and the design's "batchWait > 0 always".
BatchWaitPositive ==
  [][ lpc = "rearm" /\ lpc' = "select" => timer' > 0 ]_vars

-----------------------------------------------------------------------------
(* Refinement of PreCommitQueue.  The queue is the domain of b.todo and    *)
(* the pending calls are b.waiting; a call's answer is the result in its   *)
(* channel until Receive moves it into AddPreCommit's return value.  The   *)
(* ChainHead read, the loop, the timer, Flush and Stop are internal.        *)

Abs == INSTANCE PreCommitQueue WITH
         queued <- DOMAIN todo,
         pending <- waiting,
         ans <- [c \in Callers |-> IF chan[c] # NoRes THEN chan[c] ELSE cres[c]],
         st <- [c \in Callers |->
                  IF cpc[c] \in {"idle", "head"} THEN "idle"
                  ELSE IF cpc[c] = "wait" THEN "queued"
                  ELSE IF cpc[c] = "cancelled" THEN "cancelled"
                  ELSE "returned"]

\* Every step of the batcher is a step of PreCommitQueue or leaves it
\* unchanged: a batch holds only queued sectors, at most
\* MaxPreCommitBatch of them, and answers each waiting call exactly once
\* with that batch's result, whatever the run loop, Flush and the timer do.
ImplementsPreCommitQueue == Abs!Spec

=============================================================================
