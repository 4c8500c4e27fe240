---------------------------- MODULE PieceMatcher ----------------------------
(***************************************************************************)
(* The piece-to-sector matcher of src/storage-sealing/input.go, composed   *)
(* with the per-sector FSM that drives it.                                 *)
(*                                                                         *)
(* Actors: one AddPieceToAnySector call per deal, and a second call of    *)
(* each deal of Resubmitted (a retry or a concurrent duplicate); one      *)
(* FSM per sector, which takes queued events one at a time and runs the    *)
(* handler of the state it enters (handleWaitDeals, handleAddPiece,        *)
(* handleAddPieceFailed and the packing handler); the wait-deals timer of *)
(* each sector; the wall clock passing a sector's creation time +          *)
(* WaitDealsDelay.                                                         *)
(*                                                                         *)
(* m.inputLk is held from AddPieceToAnySector / handleWaitDeals through    *)
(* the updateInput goroutine they start, so each of those, updateInput     *)
(* included, is one action.  handleAddPiece drops the lock between pieces  *)
(* and around sealer I/O, so it is one action per piece.                   *)
(*                                                                         *)
(* Sizes are in units of 127 unpadded bytes: a piece of 127*2^k bytes has  *)
(* size 2^k, and a sector of padded size 128*Cap bytes holds Cap units.    *)
(* In these units padded and unpadded sizes coincide.                      *)
(***************************************************************************)
EXTENDS Integers, FiniteSets, Sequences, SequencesExt, FiniteSetsExt, TLC

CONSTANTS
  Deals,           \* deal proposals, one AddPieceToAnySector call each
  Resubmitted,     \* the deals whose caller submits them a second time
  DealSize,        \* [Deals -> sizes]: the unpadded piece size, a power of 2
  Cap,             \* sector capacity in units (a power of 2)
  MaxSectors,      \* sector numbers 1..MaxSectors the counter can hand out
  MaxDeals,        \* getDealPerSectorLimit(ssize)
  MaxWaitDealsSectors,        \* cfg.MaxWaitDealsSectors (0: no cap)
  MaxSealingSectorsForDeals,  \* cfg.MaxSealingSectorsForDeals (0: no cap)
  WriteMayFail,    \* whether sealer.AddPiece can fail
  ConfigMayFail,   \* whether m.getConfig() in maybeStartSealing can fail
  UserStarts,      \* whether the StartPacking API is called
  EarlyExpiry,     \* whether WaitDealsDelay may run out before a
                   \* handleWaitDeals has armed the sector's timer
  NoSector         \* model value: m.creating == nil

Sectors == 1..MaxSectors

ASSUME /\ DealSize \in [Deals -> {2^k : k \in 0..Cap}]
       /\ \A d \in Deals : DealSize[d] <= Cap
       /\ MaxDeals \in Nat \ {0}
       /\ MaxWaitDealsSectors \in Nat /\ MaxSealingSectorsForDeals \in Nat
       /\ {WriteMayFail, ConfigMayFail, UserStarts, EarlyExpiry} \subseteq BOOLEAN
       /\ Resubmitted \subseteq Deals

\* abi.UnpaddedPieceSize is a uint64; Cap - used wraps when used > Cap.
\* Any modulus above Cap that is a multiple of every piece size gives the
\* same matches and paddings as 2^64, so a smaller one keeps TLC's
\* integers in range.
WordMod == 2^20
Avail(used) == (Cap - used) % WordMod

VARIABLES
  pendingPieces,   \* deals in m.pendingPieces
  assigned,        \* pendingPieces whose .assigned flag is set
  openSectors,     \* m.openSectors: sector -> used (unpadded units)
  assignedPieces,  \* m.assignedPieces: sector -> deals not yet added
  sectorTimers,    \* m.sectorTimers: "none", "armed", "fired", "stopped"
  creating,        \* m.creating
  nextSn,          \* the sector number counter m.sc
  creationTime,    \* sector.CreationTime: "zero" (unset), "set", or "passed"
                   \* (the wall clock is past CreationTime + WaitDealsDelay)
  fsm,             \* sector state
  busy,            \* the handler of the current state has yet to finish
  queue,           \* the sector's queue of FSM events
  filled,          \* units taken by sector.Pieces (pads included)
  dealsIn,         \* deals in sector.Pieces (sector.DealIDs())
  ap,              \* locals of a running handleAddPiece
  call,            \* AddPieceToAnySector: "idle", "wait", "done"
  result,          \* what AddPieceToAnySector returned
  dups             \* deals whose second call has returned "already pending"

vars == <<pendingPieces, assigned, openSectors, assignedPieces, sectorTimers,
          creating, nextSn, creationTime, fsm, busy, queue, filled, dealsIn, ap,
          call, result, dups>>

\* FSM events sent by the matcher.
EvStart == [t |-> "SectorStart"]
EvAddPiece == [t |-> "SectorAddPiece"]
EvStartPacking == [t |-> "SectorStartPacking"]
EvAddPieceFailed == [t |-> "SectorAddPieceFailed"]
EvPieceAdded(ds, units) == [t |-> "SectorPieceAdded", deals |-> ds, units |-> units]

\* The answer delivered through a pending piece's accepted callback.
Answer(sn, err) == [sector |-> sn, err |-> err]

NoAP == [pc |-> "take", list |-> <<>>, offset |-> 0, i |-> 0, deals |-> {}, units |-> 0]

-----------------------------------------------------------------------------
(* Sector statistics kept by the FSM planner (m.stats): a sector counts as *)
(* staging from createSector's early UpdateSector until it starts packing, *)
(* and as sealing from then on.                                            *)

CurStaging == Cardinality({s \in Sectors : fsm[s] \in {"Created", "WaitDeals", "AddPiece"}})
CurSealing == CurStaging + Cardinality({s \in Sectors : fsm[s] = "Packing"})

-----------------------------------------------------------------------------
(* updateInput                                                             *)


\* The matches of updateInput's first loop: an unassigned pending piece
\* and an open sector with room for it, with the padding it would need.
Matches(open, unassigned) ==
  LET all == { [sector |-> s, deal |-> d, size |-> DealSize[d],
                padding |-> Avail(open[s]) % DealSize[d]] :
                 s \in DOMAIN open, d \in unassigned }
  IN { mt \in all : mt.size <= Avail(open[mt.sector]) }

\* sort.Slice's less: less padding first, then smaller size, then lower
\* sector number.
MatchLess(a, b) ==
  \/ a.padding < b.padding
  \/ a.padding = b.padding /\ a.size < b.size
  \/ a.padding = b.padding /\ a.size = b.size /\ a.sector < b.sector

\* Every order sort.Slice may produce: it is not stable, so matches equal
\* under MatchLess come out in any order.
RECURSIVE SortedOrders(_)
SortedOrders(S) ==
  IF S = {} THEN {<<>>}
  ELSE UNION { { <<mt>> \o rest : rest \in SortedOrders(S \ {mt}) } :
               mt \in {x \in S : \A y \in S : ~MatchLess(y, x)} }

\* One iteration of the assignment loop.  st carries the matcher maps and
\* the sectors' event queues; maybeAccept appends the deal to
\* assignedPieces and sends SectorAddPiece; used grows by the padding
\* computed when the match was built.
AssignStep_NoMark(st, mt) ==
  IF \/ mt.deal \in st.assigned
     \/ mt.sector \notin DOMAIN st.open
     \/ mt.size > Avail(st.open[mt.sector])
  THEN st
  ELSE [st EXCEPT
          !.lists[mt.sector] = Append(@, mt.deal),
          !.queue[mt.sector] = Append(@, EvAddPiece),
          !.open[mt.sector] = @ + mt.padding + mt.size]
AssignStep(st, mt) ==
  IF \/ mt.deal \in st.assigned
     \/ mt.sector \notin DOMAIN st.open
     \/ mt.size > Avail(st.open[mt.sector])
  THEN st
  ELSE [st EXCEPT
          !.lists[mt.sector] = Append(@, mt.deal),
          !.queue[mt.sector] = Append(@, EvAddPiece),
          !.open[mt.sector] = @ + mt.padding + mt.size,
          !.assigned = @ \cup {mt.deal}]

\* tryCreateDealSector with the queues q left by the assignment loop:
\* nothing while a sector is being created or a cap is reached, or when
\* the sector counter has no number left (createSector's error path);
\* otherwise a new sector, counted as staging at once, and SectorStart.
\* The configured caps forbid another deal sector.
capsReached ==
  \/ MaxSealingSectorsForDeals > 0 /\ CurSealing >= MaxSealingSectorsForDeals
  \/ MaxWaitDealsSectors > 0 /\ CurStaging >= MaxWaitDealsSectors

tryCreateDealSector(q, cr) ==
  IF \/ cr # NoSector
     \/ capsReached
     \/ nextSn > MaxSectors
  THEN /\ queue' = q
       /\ creating' = cr
       /\ UNCHANGED <<nextSn, fsm>>
  ELSE /\ creating' = nextSn
       /\ nextSn' = nextSn + 1
       /\ fsm' = [fsm EXCEPT ![nextSn] = "Created"]
       /\ queue' = [q EXCEPT ![nextSn] = Append(@, EvStart)]

\* updateInput over the pending pieces pp, the open sectors open and the
\* creating slot cr, run with m.inputLk held: match, sort, assign, and
\* create a sector if a piece is left over.
updateInput(pp, open, cr) ==
  \E order \in SortedOrders(Matches(open, pp \ assigned)) :
    LET st == FoldLeft(AssignStep,
                       [open |-> open, assigned |-> assigned,
                        lists |-> assignedPieces, queue |-> queue], order)
    IN /\ openSectors' = st.open
       /\ assigned' = st.assigned
       /\ assignedPieces' = st.lists
       /\ IF pp \ st.assigned # {}
          THEN tryCreateDealSector(st.queue, cr)
          ELSE /\ queue' = st.queue
               /\ creating' = cr
               /\ UNCHANGED <<nextSn, fsm>>
-----------------------------------------------------------------------------
(* AddPieceToAnySector, for a deal whose size passed the validation: the  *)
(* piece is made pending and updateInput runs in the goroutine that       *)
(* inherits m.inputLk; the caller then blocks on resCh.                   *)

AddPieceToAnySector(d) ==
  /\ call[d] = "idle"
  /\ d \notin pendingPieces
  /\ pendingPieces' = pendingPieces \cup {d}
  /\ call' = [call EXCEPT ![d] = "wait"]
  /\ updateInput(pendingPieces', openSectors, creating)
  /\ UNCHANGED <<sectorTimers, creationTime, busy, filled, dealsIn, ap, result, dups>>

\* A second AddPieceToAnySector call of a deal whose first call has made it
\* pending: under m.inputLk the proposal CID is found in pendingPieces and
\* the call returns "piece for deal already pending" at once.  Entries of
\* pendingPieces are never deleted, so this holds whether the first call
\* is still blocked or has long returned.  One resubmission of each deal of
\* Resubmitted is a bound of the model.
AddPieceToAnySectorAgain(d) ==
  /\ d \in Resubmitted
  /\ call[d] # "idle"
  /\ d \notin dups
  /\ d \in pendingPieces
  /\ dups' = dups \cup {d}
  /\ UNCHANGED <<pendingPieces, assigned, openSectors, assignedPieces,
                 sectorTimers, creating, nextSn, creationTime, fsm, busy, queue,
                 filled, dealsIn, ap, call, result>>

\* A pending piece's accepted callback: the blocked caller gets (sn, err).
Accept(ds, sn, err) ==
  /\ call' = [x \in Deals |-> IF x \in ds THEN "done" ELSE call[x]]
  /\ result' = [x \in Deals |-> IF x \in ds THEN Answer(sn, err) ELSE result[x]]

-----------------------------------------------------------------------------
(* The sector FSM, outside this repository: events are taken one at a     *)
(* time, and only once the handler of the current state has returned.    *)
(* An event the current state does not plan for leaves it unchanged.      *)

Planned(st, t) ==
  CASE st = "Created"   /\ t = "SectorStart"          -> "WaitDeals"
    [] st = "WaitDeals" /\ t = "SectorAddPiece"       -> "AddPiece"
    [] st = "WaitDeals" /\ t = "SectorStartPacking"   -> "Packing"
    [] st = "AddPiece"  /\ t = "SectorPieceAdded"     -> "WaitDeals"
    [] st = "AddPiece"  /\ t = "SectorAddPieceFailed" -> "AddPieceFailed"
    [] OTHER -> st

FsmStep(s) ==
  /\ ~busy[s]
  /\ queue[s] # <<>>
  /\ LET e == Head(queue[s])
         st == Planned(fsm[s], e.t)
     IN /\ queue' = [queue EXCEPT ![s] = Tail(@)]
        /\ fsm' = [fsm EXCEPT ![s] = st]
        /\ busy' = [busy EXCEPT ![s] = (st # fsm[s])]
        /\ IF e.t = "SectorPieceAdded" /\ st # fsm[s]
           THEN /\ filled' = [filled EXCEPT ![s] = @ + e.units]
                /\ dealsIn' = [dealsIn EXCEPT ![s] = @ \cup e.deals]
           ELSE UNCHANGED <<filled, dealsIn>>
        \* SectorAddPiece.apply stamps CreationTime if it is still 0.
        /\ creationTime' =
             IF e.t = "SectorAddPiece" /\ st # fsm[s] /\ creationTime[s] = "zero"
             THEN [creationTime EXCEPT ![s] = "set"] ELSE creationTime
  /\ ap' = [ap EXCEPT ![s] = NoAP]
  /\ UNCHANGED <<pendingPieces, assigned, openSectors, assignedPieces,
                 sectorTimers, creating, nextSn, call, result, dups>>

\* Leaving WaitDeals for Packing, as the design describes it: the sector
\* leaves the open set, and pieces still assigned to it are refused.
HandlePacking(s) ==
  /\ busy[s] /\ fsm[s] = "Packing"
  /\ openSectors' = [x \in DOMAIN openSectors \ {s} |-> openSectors[x]]
  /\ assignedPieces' = [assignedPieces EXCEPT ![s] = <<>>]
  /\ Accept(ToSet(assignedPieces[s]), s, "packing")
  /\ busy' = [busy EXCEPT ![s] = FALSE]
  /\ UNCHANGED <<pendingPieces, assigned, sectorTimers, creating, nextSn,
                 creationTime, fsm, queue, filled, dealsIn, ap, dups>>

-----------------------------------------------------------------------------
(* handleWaitDeals and maybeStartSealing: one action, since m.inputLk is  *)
(* held from the start through the updateInput goroutine.                 *)

\* What maybeStartSealing decides for sector s holding used units:
\* "start" (SectorStartPacking sent), "error" (getConfig failed), "wait"
\* (timer re-armed) or, while CreationTime is 0, "none" (no config read,
\* no timer).  A stored timer that has fired, or was stopped earlier,
\* makes Stop() return false.
StartOutcomes(s, used) ==
  IF \/ sectorTimers[s] \in {"fired", "stopped"}
     \/ Cardinality(dealsIn[s]) >= MaxDeals
     \/ used = Cap
  THEN {"start"}
  ELSE IF creationTime[s] = "zero" THEN {"none"}
  ELSE (IF ConfigMayFail THEN {"error"} ELSE {})
       \cup (IF creationTime[s] = "passed" THEN {"start"} ELSE {"wait"})

\* Stop() on an armed timer disarms it; a fired one stays fired.
StopTimer(s) ==
  IF sectorTimers[s] = "armed" THEN "stopped" ELSE sectorTimers[s]

\* The first handleWaitDeals of the sector being created frees the slot.
clearCreating_Keep(s) == creating
clearCreating(s) == IF creating = s THEN NoSector ELSE creating

handleWaitDeals(s) ==
  LET used == filled[s]
      cr == clearCreating(s)
  IN
  /\ busy[s] /\ fsm[s] = "WaitDeals"
  /\ busy' = [busy EXCEPT ![s] = FALSE]
  /\ IF assignedPieces[s] # <<>>
     THEN /\ queue' = [queue EXCEPT ![s] = Append(@, EvAddPiece)]
          /\ creating' = cr
          /\ UNCHANGED <<openSectors, assigned, assignedPieces, sectorTimers,
                         nextSn, fsm>>
     ELSE \E out \in StartOutcomes(s, used) :
          \/ /\ out \in {"start", "error"}
             /\ sectorTimers' = [sectorTimers EXCEPT ![s] = StopTimer(s)]
             /\ openSectors' = [x \in DOMAIN openSectors \ {s} |-> openSectors[x]]
             /\ queue' = IF out = "start"
                         THEN [queue EXCEPT ![s] = Append(@, EvStartPacking)]
                         ELSE queue
             /\ creating' = cr
             /\ UNCHANGED <<assigned, assignedPieces, nextSn, fsm>>
          \/ /\ out \in {"wait", "none"}
             /\ sectorTimers' = IF out = "wait"
                               THEN [sectorTimers EXCEPT ![s] = "armed"]
                               ELSE sectorTimers
             /\ updateInput(pendingPieces,
                            IF s \in DOMAIN openSectors THEN openSectors
                            ELSE openSectors @@ (s :> used), cr)
  /\ UNCHANGED <<pendingPieces, creationTime, filled, dealsIn, ap, call, result, dups>>

-----------------------------------------------------------------------------
(* handleAddPiece: the pending list is taken under the lock, then each    *)
(* piece is checked and written with the lock released.                   *)

\* ffiwrapper.GetRequiredPadding: the pads that align offset to size.
PadLength(offset, size) == (size - (offset % size)) % size

\* The offset after sector.Pieces, where handleAddPiece starts writing.
sectorOffset(s) == filled[s]

\* The piece and its pads end within the sector.
pieceFits_NoCheck(offset, pad, size) == TRUE
pieceFits(offset, pad, size) == offset + pad + size <= Cap

handleAddPieceTake(s) ==
  /\ busy[s] /\ fsm[s] = "AddPiece" /\ ap[s].pc = "take"
  /\ assignedPieces' = [assignedPieces EXCEPT ![s] = <<>>]
  /\ IF assignedPieces[s] = <<>>
     THEN /\ queue' = [queue EXCEPT ![s] = Append(@, EvPieceAdded({}, 0))]
          /\ busy' = [busy EXCEPT ![s] = FALSE]
          /\ UNCHANGED ap
     ELSE /\ ap' = [ap EXCEPT ![s] = [NoAP EXCEPT !.pc = "loop",
                                        !.list = assignedPieces[s],
                                        !.offset = sectorOffset(s)]]
          /\ UNCHANGED <<queue, busy>>
  /\ UNCHANGED <<pendingPieces, assigned, openSectors, sectorTimers, creating,
                 nextSn, creationTime, fsm, filled, dealsIn, call, result, dups>>

\* One iteration of the loop over the taken pieces.
handleAddPiecePiece(s) ==
  LET a == ap[s]
      d == Head(a.list)
      pad == PadLength(a.offset, DealSize[d])
      next == [a EXCEPT !.list = Tail(@), !.i = @ + 1]
      tooMany == Cardinality(dealsIn[s]) + (a.i + 1) > MaxDeals
      noSpace == ~pieceFits(a.offset, pad, DealSize[d])
  IN
  /\ busy[s] /\ fsm[s] = "AddPiece" /\ a.pc = "loop" /\ a.list # <<>>
  /\ \/ /\ tooMany
        /\ Accept({d}, s, "toomany")
        /\ ap' = [ap EXCEPT ![s] = next]
        /\ UNCHANGED <<queue, busy>>
     \/ /\ ~tooMany /\ noSpace
        /\ Accept({d}, s, "nospace")
        /\ ap' = [ap EXCEPT ![s] = next]
        /\ UNCHANGED <<queue, busy>>
     \/ /\ ~tooMany /\ ~noSpace /\ WriteMayFail
        /\ Accept({d}, s, "write")
        /\ queue' = [queue EXCEPT ![s] = Append(@, EvAddPieceFailed)]
        /\ busy' = [busy EXCEPT ![s] = FALSE]
        /\ ap' = [ap EXCEPT ![s] = NoAP]
     \/ /\ ~tooMany /\ ~noSpace
        /\ Accept({d}, s, "ok")
        /\ ap' = [ap EXCEPT ![s] = [next EXCEPT
                    !.offset = a.offset + pad + DealSize[d],
                    !.deals = @ \cup {d},
                    !.units = @ + pad + DealSize[d]]]
        /\ UNCHANGED <<queue, busy>>
  /\ UNCHANGED <<pendingPieces, assigned, openSectors, assignedPieces,
                 sectorTimers, creating, nextSn, creationTime, fsm, filled, dealsIn, dups>>

handleAddPieceDone(s) ==
  /\ busy[s] /\ fsm[s] = "AddPiece" /\ ap[s].pc = "loop" /\ ap[s].list = <<>>
  /\ queue' = [queue EXCEPT ![s] = Append(@, EvPieceAdded(ap[s].deals, ap[s].units))]
  /\ busy' = [busy EXCEPT ![s] = FALSE]
  /\ ap' = [ap EXCEPT ![s] = NoAP]
  /\ UNCHANGED <<pendingPieces, assigned, openSectors, assignedPieces,
                 sectorTimers, creating, nextSn, creationTime, fsm, filled, dealsIn,
                 call, result, dups>>

\* handleAddPieceFailed has no recovery plan: it only logs.
handleAddPieceFailed(s) ==
  /\ busy[s] /\ fsm[s] = "AddPieceFailed"
  /\ busy' = [busy EXCEPT ![s] = FALSE]
  /\ UNCHANGED <<pendingPieces, assigned, openSectors, assignedPieces,
                 sectorTimers, creating, nextSn, creationTime, fsm, queue, filled,
                 dealsIn, ap, call, result, dups>>

-----------------------------------------------------------------------------
(* The environment of the handlers.                                       *)

\* Mutant: the callback's Send is lost (its error is only logged).
TimerFires_NoSend(s) ==
  /\ sectorTimers[s] = "armed" /\ creationTime[s] = "passed"
  /\ sectorTimers' = [sectorTimers EXCEPT ![s] = "fired"]
  /\ UNCHANGED <<pendingPieces, assigned, openSectors, assignedPieces,
                 creating, nextSn, creationTime, fsm, busy, queue, filled, dealsIn,
                 ap, call, result, dups>>

\* The time.AfterFunc callback: SectorStartPacking, sent without the lock.
TimerFires(s) ==
  /\ sectorTimers[s] = "armed" /\ creationTime[s] = "passed"
  /\ sectorTimers' = [sectorTimers EXCEPT ![s] = "fired"]
  /\ queue' = [queue EXCEPT ![s] = Append(@, EvStartPacking)]
  /\ UNCHANGED <<pendingPieces, assigned, openSectors, assignedPieces,
                 creating, nextSn, creationTime, fsm, busy, filled, dealsIn, ap,
                 call, result, dups>>

\* The wall clock passes CreationTime + WaitDealsDelay of a sector whose
\* CreationTime is stamped.  Unless EarlyExpiry, not before a
\* handleWaitDeals has armed its timer.
WaitDealsDelayPasses(s) ==
  /\ creationTime[s] = "set"
  /\ EarlyExpiry \/ sectorTimers[s] # "none"
  /\ creationTime' = [creationTime EXCEPT ![s] = "passed"]
  /\ UNCHANGED <<pendingPieces, assigned, openSectors, assignedPieces,
                 sectorTimers, creating, nextSn, fsm, busy, queue, filled,
                 dealsIn, ap, call, result, dups>>

\* The StartPacking API: SectorStartPacking sent to the sector.  A second
\* request is not queued while one is (a bound of the model).
StartPacking(s) ==
  /\ UserStarts
  /\ fsm[s] \in {"WaitDeals", "AddPiece"}
  /\ EvStartPacking \notin ToSet(queue[s])
  /\ queue' = [queue EXCEPT ![s] = Append(@, EvStartPacking)]
  /\ UNCHANGED <<pendingPieces, assigned, openSectors, assignedPieces,
                 sectorTimers, creating, nextSn, creationTime, fsm, busy, filled,
                 dealsIn, ap, call, result, dups>>

\* Every call made and nothing left in flight: the sealer idles.
Quiescent ==
  /\ \A d \in Deals : call[d] # "idle"
  /\ \A s \in Sectors : ~busy[s] /\ queue[s] = <<>> /\ sectorTimers[s] # "armed"
  /\ UNCHANGED vars

-----------------------------------------------------------------------------

Init ==
  /\ pendingPieces = {}
  /\ assigned = {}
  /\ openSectors = [x \in {} |-> 0]
  /\ assignedPieces = [s \in Sectors |-> <<>>]
  /\ sectorTimers = [s \in Sectors |-> "none"]
  /\ creating = NoSector
  /\ nextSn = 1
  /\ creationTime = [s \in Sectors |-> "zero"]
  /\ fsm = [s \in Sectors |-> "None"]
  /\ busy = [s \in Sectors |-> FALSE]
  /\ queue = [s \in Sectors |-> <<>>]
  /\ filled = [s \in Sectors |-> 0]
  /\ dealsIn = [s \in Sectors |-> {}]
  /\ ap = [s \in Sectors |-> NoAP]
  /\ call = [d \in Deals |-> "idle"]
  /\ result = [d \in Deals |-> Answer(0, "none")]
  /\ dups = {}

Sector(s) ==
  \/ FsmStep(s)
  \/ handleWaitDeals(s)
  \/ handleAddPieceTake(s)
  \/ handleAddPiecePiece(s)
  \/ handleAddPieceDone(s)
  \/ handleAddPieceFailed(s)
  \/ HandlePacking(s)
  \/ TimerFires(s)

Next ==
  \/ \E d \in Deals : AddPieceToAnySector(d) \/ AddPieceToAnySectorAgain(d)
  \/ \E s \in Sectors : Sector(s) \/ WaitDealsDelayPasses(s) \/ StartPacking(s)
  \/ Quiescent

\* The FSM goroutines, the handlers, the timer goroutines and the clock
\* always make progress; API calls, StartPacking included, need not come.
Fairness ==
  \A s \in Sectors :
    /\ WF_vars(FsmStep(s))
    /\ WF_vars(handleWaitDeals(s))
    /\ WF_vars(handleAddPieceTake(s) \/ handleAddPiecePiece(s) \/ handleAddPieceDone(s))
    /\ WF_vars(handleAddPieceFailed(s))
    /\ WF_vars(HandlePacking(s))
    /\ WF_vars(TimerFires(s))
    /\ WF_vars(WaitDealsDelayPasses(s))

Spec == Init /\ [][Next]_vars /\ Fairness

-----------------------------------------------------------------------------
(* Properties                                                             *)

Results == [sector : {0} \cup Sectors,
            err : {"none", "ok", "toomany", "nospace", "write", "packing"}]

TypeOK ==
  /\ pendingPieces \subseteq Deals
  /\ assigned \subseteq pendingPieces
  /\ DOMAIN openSectors \subseteq Sectors
  /\ \A s \in DOMAIN openSectors : openSectors[s] \in Nat
  /\ assignedPieces \in [Sectors -> Seq(Deals)]
  /\ sectorTimers \in [Sectors -> {"none", "armed", "fired", "stopped"}]
  /\ creating \in Sectors \cup {NoSector}
  /\ creationTime \in [Sectors -> {"zero", "set", "passed"}]
  /\ nextSn \in 1..(MaxSectors + 1)
  /\ fsm \in [Sectors -> {"None", "Created", "WaitDeals", "AddPiece",
                          "AddPieceFailed", "Packing"}]
  /\ busy \in [Sectors -> BOOLEAN]
  /\ filled \in [Sectors -> 0..Cap]
  /\ dealsIn \in [Sectors -> SUBSET Deals]
  /\ call \in [Deals -> {"idle", "wait", "done"}]
  /\ result \in [Deals -> Results]
  /\ dups \subseteq pendingPieces

\* The SectorPieceAdded event queued for s, if any, not yet applied.
QueuedAdds(s) ==
  { queue[s][i] : i \in {j \in DOMAIN queue[s] : queue[s][j].t = "SectorPieceAdded"} }

\* Units written to sector s: its pieces, the ones reported in a queued
\* SectorPieceAdded, and the ones the running handleAddPiece has written.
Written(s) ==
  filled[s] + ap[s].units
  + FoldSet(LAMBDA e, acc : e.units + acc, 0, QueuedAdds(s))

\* handleAddPiece writes pads and pieces into a sector only while they fit:
\* whatever updateInput believed about the room left, no sector ever holds
\* more than its capacity (the design's invariant 1).
SectorWithinCapacity ==
  \A s \in Sectors : Written(s) <= Cap

\* How many places hold deal d: pending and unassigned, an assigned list,
\* a running handleAddPiece, or a sector's pieces.
Places(d) ==
  (IF d \in pendingPieces \ assigned THEN 1 ELSE 0)
  + FoldSet(LAMBDA s, acc :
        acc + Cardinality({i \in DOMAIN assignedPieces[s] : assignedPieces[s][i] = d})
            + Cardinality({i \in DOMAIN ap[s].list : ap[s].list[i] = d})
            + (IF \/ d \in dealsIn[s] \/ d \in ap[s].deals
                  \/ \E e \in QueuedAdds(s) : d \in e.deals
               THEN 1 ELSE 0),
      0, Sectors)

\* A deal is never in two places at once: updateInput's single pass over
\* the sorted matches assigns each piece to one sector, and the handlers
\* move it from the assigned list into the sector (design invariant 2).
DealInOnePlace ==
  \A d \in Deals : Places(d) <= 1

\* Every AddPieceToAnySector call that made its piece pending eventually
\* returns: the piece is placed in a sector, or refused with an error.
EveryCallAnswered ==
  \A d \in Deals : call[d] = "wait" ~> call[d] = "done"

\* The design keys pending pieces by proposal CID so that a double
\* submission fails, and the refusal reads "already pending": a second
\* AddPieceToAnySector call of a deal is refused only while an earlier call
\* of that deal is still blocked or has placed it, so a deal that the
\* matcher or handleAddPiece refused with an error can be submitted again.
RefusedOnlyWhilePending ==
  [][\A d \in Deals :
       d \notin dups /\ d \in dups' =>
         call[d] = "wait" \/ result[d].err = "ok"]_vars

\* handleAddPiece's "not enough space" refusal is never taken: updateInput
\* only assigns a piece to a sector with room for it and its padding
\* (the comment at the match loop; the refusal is marked "rather unlikely").
NoSpaceRefusal ==
  \A d \in Deals : result[d].err # "nospace"

\* Every sector that reaches WaitDeals is eventually packed: each
\* handleWaitDeals either sends SectorStartPacking or arms the wait-deals
\* timer whose callback sends it (the design's handleWaitDeals: "if so,
\* fire SectorStartPacking ... Otherwise schedule / refresh a timer").
EverySectorPacked ==
  \A s \in Sectors : fsm[s] = "WaitDeals" ~> fsm[s] = "Packing"

-----------------------------------------------------------------------------
(* Refinement of DealPlacement.  A deal's status is its call's: waiting    *)
(* while AddPieceToAnySector blocks, then placed or refused by the answer  *)
(* of its accepted callback; a sector is sealed once its FSM is in         *)
(* Packing.  Matching, assignment, sector creation, the FSM's other steps  *)
(* and the timers are internal.                                            *)

Placement == INSTANCE DealPlacement WITH
  status <- [d \in Deals |->
               IF call[d] = "idle" THEN "idle"
               ELSE IF call[d] = "wait" THEN "waiting"
               ELSE IF result[d].err = "ok" THEN "placed"
               ELSE "refused"],
  where <- [d \in Deals |->
              IF call[d] = "done" /\ result[d].err = "ok" THEN result[d].sector
              ELSE 0],
  sealed <- {s \in Sectors : fsm[s] = "Packing"}

\* Every step of the matcher and the FSM is a step of DealPlacement or
\* leaves it unchanged: each call is answered once, and a deal is
\* reported placed only in a sector that has not started packing, within
\* its capacity and its deal limit, however updateInput matched it.
ImplementsDealPlacement == Placement!Spec

=============================================================================
