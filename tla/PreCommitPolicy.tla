--------------------------- MODULE PreCommitPolicy ---------------------------
(***************************************************************************)
(* BasicPreCommitPolicy.Expiration (src/storage-sealing/precommit_policy.go) *)
(* with the duration and proving boundary Miner.Run gives it               *)
(* (src/storage/miner.go).  Expiration is a pure function of the chain     *)
(* head and the sector's pieces, so the model is one step: the inputs are  *)
(* chosen in Init, and Expire computes the result.                          *)
(***************************************************************************)
EXTENDS Integers, Sequences, FiniteSets, FiniteSetsExt

CONSTANTS
  WPoStProvingPeriod,    \* miner.WPoStProvingPeriod, in epochs
  MaxExtension,          \* policy.GetMaxSectorExpirationExtension()
  Epochs,                \* chain head epochs
  PeriodStarts,          \* md.PeriodStart values of the proving deadline
  DealEnds,              \* DealSchedule.EndEpoch values
  MaxPieces              \* pieces per sector

ASSUME /\ WPoStProvingPeriod \in Nat \ {0}
       /\ Epochs \subseteq Nat /\ PeriodStarts \subseteq Nat
       /\ DealEnds \subseteq Nat

\* Mutant: one proving period of headroom instead of two.
defaultDuration_OnePeriod == MaxExtension - WPoStProvingPeriod

\* Miner.Run: the default duration leaves two proving periods of headroom,
\* and the boundary is the deadline's period start modulo the period.
defaultDuration == MaxExtension - (WPoStProvingPeriod * 2)
provingBoundary(periodStart) == periodStart % WPoStProvingPeriod

\* A piece: with DealInfo (deal = TRUE) and its schedule's end, or a pad.
Pieces == [deal : BOOLEAN, end : DealEnds]
PieceLists == UNION {[1..n -> Pieces] : n \in 0..MaxPieces}

NoEnd == -1      \* end == nil (every epoch is >= 0)

\* Mutant: the constructor stores each argument in the other field (both
\* are abi.ChainEpoch).
NewBasicPreCommitPolicy_Swapped(duration, boundary) ==
  [provingBoundary |-> duration, duration |-> boundary]

\* NewBasicPreCommitPolicy: the policy keeps the default duration and the
\* proving boundary it is given (its Chain API is left out).
NewBasicPreCommitPolicy(duration, boundary) ==
  [provingBoundary |-> boundary, duration |-> duration]

\* Mutant: a deal ending exactly at the head epoch is taken as ended.
RECURSIVE latestEnd_EndedAtHead(_, _, _)
latestEnd_EndedAtHead(ps, epoch, end) ==
  IF ps = <<>> THEN end
  ELSE LET p == Head(ps)
       IN latestEnd_EndedAtHead(Tail(ps), epoch,
                    IF ~p.deal \/ p.end <= epoch THEN end
                    ELSE IF end = NoEnd \/ end < p.end THEN p.end ELSE end)

\* The loop over ps: pieces without a deal, or whose deal ended before the
\* head epoch, are skipped; end keeps the largest end seen.
RECURSIVE latestEnd(_, _, _)
latestEnd(ps, epoch, end) ==
  IF ps = <<>> THEN end
  ELSE LET p == Head(ps)
       IN latestEnd(Tail(ps), epoch,
                    IF ~p.deal \/ p.end < epoch THEN end
                    ELSE IF end = NoEnd \/ end < p.end THEN p.end ELSE end)

\* Mutant: the alignment rounds down to the period's start instead of up.
Expiration_RoundDown(epoch, ps, duration, boundary) ==
  LET e0 == latestEnd(ps, epoch, NoEnd)
      end == IF e0 = NoEnd THEN epoch + duration ELSE e0
  IN end - (end % WPoStProvingPeriod) + boundary - 1

\* The expiration for head epoch epoch, pieces ps, duration and boundary.
Expiration(epoch, ps, duration, boundary) ==
  LET e0 == latestEnd(ps, epoch, NoEnd)
      end == IF e0 = NoEnd THEN epoch + duration ELSE e0
  IN end + WPoStProvingPeriod - (end % WPoStProvingPeriod) + boundary - 1

VARIABLES
  epoch, ps,     \* the chain head and the sector's pieces of the call
  periodStart,   \* md.PeriodStart as Miner.Run read it
  pcp,           \* the BasicPreCommitPolicy Miner.Run built
  ret,           \* "starting", "down" (Run failed), "pending" (Run built
                 \* the policy, Expiration is called), then "ok" or "err"
  res            \* the returned epoch

vars == <<epoch, ps, periodStart, pcp, ret, res>>

Init ==
  /\ epoch \in Epochs
  /\ ps \in PieceLists
  /\ periodStart = 0
  /\ pcp = NewBasicPreCommitPolicy(0, 0)
  /\ ret = "starting"
  /\ res = 0

\* Miner.Run: the preflight checks pass and StateMinerProvingDeadline
\* returns md; the policy is built from md and the sealing FSM, which calls
\* Expiration, is started.
Run ==
  /\ ret = "starting"
  /\ periodStart' \in PeriodStarts
  /\ pcp' = NewBasicPreCommitPolicy(defaultDuration, provingBoundary(periodStart'))
  /\ ret' = "pending"
  /\ UNCHANGED <<epoch, ps, res>>

\* Miner.Run returns an error: a preflight read (StateMinerInfo,
\* StateAccountKey, WalletHas) fails, the worker key is not in the wallet,
\* or StateMinerProvingDeadline fails.  No policy is built.
RunFail ==
  /\ ret = "starting"
  /\ ret' = "down"
  /\ UNCHANGED <<epoch, ps, periodStart, pcp, res>>

\* Expiration returns.
Expire ==
  /\ ret = "pending"
  /\ ret' = "ok"
  /\ res' = Expiration(epoch, ps, pcp.duration, pcp.provingBoundary)
  /\ UNCHANGED <<epoch, ps, periodStart, pcp>>

\* ChainHead fails: Expiration returns 0 and the error.
ChainHeadFail ==
  /\ ret = "pending"
  /\ ret' = "err"
  /\ res' = 0
  /\ UNCHANGED <<epoch, ps, periodStart, pcp>>

\* The call has returned, or the miner never started.
Returned ==
  /\ ret \in {"down", "ok", "err"}
  /\ UNCHANGED vars

Next == Run \/ RunFail \/ Expire \/ ChainHeadFail \/ Returned

Spec == Init /\ [][Next]_vars

-----------------------------------------------------------------------------
(* Properties.                                                              *)

TypeOK ==
  /\ epoch \in Epochs /\ ps \in PieceLists /\ periodStart \in PeriodStarts \cup {0}
  /\ pcp \in [provingBoundary : Nat, duration : Int]
  /\ ret \in {"starting", "down", "pending", "ok", "err"}
  /\ res \in Nat

\* Ends of the deals still live at the head epoch.
LiveEnds == {ps[i].end : i \in {j \in DOMAIN ps : ps[j].deal /\ ps[j].end >= epoch}}

\* The design (spec section 4.3) as a set-based reference: the latest live
\* deal end, else head + duration, aligned to the proving boundary.
DesignExpiration ==
  LET end == IF LiveEnds = {} THEN epoch + defaultDuration ELSE Max(LiveEnds)
  IN end + WPoStProvingPeriod - (end % WPoStProvingPeriod)
         + provingBoundary(periodStart) - 1

\* The loop of Expiration, with its skips and its nil end, returns what the
\* design defines, for every list of pieces.
ExpirationFollowsDesign == ret = "ok" => res = DesignExpiration

\* The sector expires on the proving boundary (one epoch before it, modulo
\* the period) and no earlier than any of its live deals ends, or than
\* head + duration when it has none: Expiration never cuts a deal short.
ExpirationCoversDeals ==
  ret = "ok" =>
    /\ res % WPoStProvingPeriod
         = (provingBoundary(periodStart) - 1) % WPoStProvingPeriod
    /\ \A e \in LiveEnds : res >= e
    /\ LiveEnds = {} => res >= epoch + defaultDuration

\* The headroom Miner.Run leaves in defaultDuration absorbs the alignment:
\* a sector without live deals never expires past head + the maximum
\* sector expiration extension, the bound the chain enforces.
DefaultWithinMaxExtension ==
  (ret = "ok" /\ LiveEnds = {}) => res <= epoch + MaxExtension
=============================================================================
