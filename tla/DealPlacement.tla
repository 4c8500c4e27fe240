---------------------------- MODULE DealPlacement ----------------------------
(***************************************************************************)
(* What the piece-to-sector matcher promises, without its matching,        *)
(* sorting, sector creation, timers or FSM events: a deal handed to        *)
(* AddPieceToAnySector waits, then is either placed, once, in a sector     *)
(* that has not started packing and still has room and a deal slot for it, *)
(* or refused; refusals of several deals may come at once, as when a       *)
(* sector starts packing with pieces still assigned.  PieceMatcher         *)
(* implements this (ImplementsDealPlacement).                              *)
(***************************************************************************)
EXTENDS Naturals, FiniteSets, FiniteSetsExt

CONSTANTS Deals, DealSize, Cap, MaxDeals, Sectors

VARIABLES
  status,   \* deal -> "idle", "waiting", "placed" or "refused"
  where,    \* deal -> the sector it was placed in (0: none)
  sealed    \* sectors that have started packing

vars == <<status, where, sealed>>

\* Deals placed in sector s.
In(s) == {d \in Deals : status[d] = "placed" /\ where[d] = s}

Load(s) == FoldSet(LAMBDA d, acc : DealSize[d] + acc, 0, In(s))

Init ==
  /\ status = [d \in Deals |-> "idle"]
  /\ where = [d \in Deals |-> 0]
  /\ sealed = {}

\* The deal is handed over and its caller waits.
Submit(d) ==
  /\ status[d] = "idle"
  /\ status' = [status EXCEPT ![d] = "waiting"]
  /\ UNCHANGED <<where, sealed>>

\* The deal is placed in sector s.
Place(d, s) ==
  /\ status[d] = "waiting"
  /\ s \notin sealed
  /\ Load(s) + DealSize[d] <= Cap
  /\ Cardinality(In(s)) < MaxDeals
  /\ status' = [status EXCEPT ![d] = "placed"]
  /\ where' = [where EXCEPT ![d] = s]
  /\ UNCHANGED sealed

\* The waiting deals ds are refused.
Refuse(ds) ==
  /\ ds # {}
  /\ \A d \in ds : status[d] = "waiting"
  /\ status' = [d \in Deals |-> IF d \in ds THEN "refused" ELSE status[d]]
  /\ UNCHANGED <<where, sealed>>

\* Sector s starts packing and takes no more deals.
Pack(s) ==
  /\ s \notin sealed
  /\ sealed' = sealed \cup {s}
  /\ UNCHANGED <<status, where>>

Next ==
  \/ \E d \in Deals : Submit(d) \/ \E s \in Sectors : Place(d, s)
  \/ \E ds \in SUBSET Deals : Refuse(ds)
  \/ \E s \in Sectors : Pack(s)

Spec == Init /\ [][Next]_vars
=============================================================================
