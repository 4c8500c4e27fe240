--------------------------- MODULE PreCommitQueue ----------------------------
(***************************************************************************)
(* What the pre-commit batcher promises its callers, without its loop,     *)
(* timer, cutoffs or Flush: an AddPreCommit call either fails before its   *)
(* sector is queued or queues it and waits; a batch takes at most          *)
(* MaxPreCommitBatch queued sectors and answers every call waiting on      *)
(* them with the one result of that batch; a waiting call returns the      *)
(* answer, or gives up and leaves its sector queued.  PreCommitBatcher     *)
(* implements this (ImplementsPreCommitQueue).                             *)
(***************************************************************************)
EXTENDS Naturals, FiniteSets

CONSTANTS Sectors, Callers, MaxPreCommitBatch, NoRes

VARIABLES
  queued,    \* sectors with a pre-commit entry awaiting a batch
  pending,   \* sector -> calls waiting for that sector's batch
  ans,       \* call -> the batch result it has been given, or NoRes
  st         \* call -> "idle", "queued", "returned" or "cancelled"

vars == <<queued, pending, ans, st>>

BatchRes == [sectors : SUBSET Sectors, ok : BOOLEAN]

Init ==
  /\ queued = {}
  /\ pending = [sn \in Sectors |-> {}]
  /\ ans = [c \in Callers |-> NoRes]
  /\ st = [c \in Callers |-> "idle"]

\* The call fails before it queues anything.
GiveUp(c) ==
  /\ st[c] = "idle"
  /\ st' = [st EXCEPT ![c] = "returned"]
  /\ UNCHANGED <<queued, pending, ans>>

\* The call queues sector sn (again, if it is queued already) and waits.
Submit(c, sn) ==
  /\ st[c] = "idle"
  /\ queued' = queued \cup {sn}
  /\ pending' = [pending EXCEPT ![sn] = @ \cup {c}]
  /\ st' = [st EXCEPT ![c] = "queued"]
  /\ UNCHANGED ans

\* One batch of queued sectors, sent or failed as a whole, answers every
\* call waiting on them (given up or not) and leaves the queue.
Batch(b, ok) ==
  LET receivers == UNION {pending[sn] : sn \in b}
  IN /\ b # {} /\ b \subseteq queued
     /\ Cardinality(b) <= MaxPreCommitBatch
     /\ \A c \in receivers : ans[c] = NoRes
     /\ ans' = [c \in Callers |->
                  IF c \in receivers THEN [sectors |-> b, ok |-> ok] ELSE ans[c]]
     /\ pending' = [sn \in Sectors |-> IF sn \in b THEN {} ELSE pending[sn]]
     /\ queued' = queued \ b
     /\ UNCHANGED st

\* A waiting call returns the answer it was given.
Return(c) ==
  /\ st[c] = "queued" /\ ans[c] # NoRes
  /\ st' = [st EXCEPT ![c] = "returned"]
  /\ UNCHANGED <<queued, pending, ans>>

\* A waiting call gives up; its sector stays queued.
Abandon(c) ==
  /\ st[c] = "queued"
  /\ st' = [st EXCEPT ![c] = "cancelled"]
  /\ UNCHANGED <<queued, pending, ans>>

Next ==
  \/ \E c \in Callers : GiveUp(c) \/ Return(c) \/ Abandon(c)
  \/ \E c \in Callers, sn \in Sectors : Submit(c, sn)
  \/ \E b \in SUBSET queued, ok \in BOOLEAN : Batch(b, ok)

Spec == Init /\ [][Next]_vars
=============================================================================
