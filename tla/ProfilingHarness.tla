-------------------------- MODULE ProfilingHarness --------------------------
(***************************************************************************)
(* The profiling main of src/app/main.go: it opens the sqlite repository   *)
(* (log.Fatal on error), migrates it, then for i from Lo up to Hi - 1 adds *)
(* one to a WaitGroup and starts a goroutine that reads the sector info of *)
(* id i and calls Done, and finally waits on the WaitGroup.  The goroutine *)
(* closure captures the loop variable i itself, not its value (Go before   *)
(* 1.22 has one i for the whole loop), so each goroutine reads the shared  *)
(* i while main goes on incrementing it: an unsynchronised read racing     *)
(* main's writes.  The read may return the value the iteration started    *)
(* with or any value main has written since (never an earlier one: the go *)
(* statement happens after i took the iteration's value).  The database,   *)
(* the profile file and the query result are left out.                     *)
(***************************************************************************)
EXTENDS Naturals

CONSTANTS
  Lo, Hi      \* the loop bounds (10 and 200 in the code)

ASSUME Lo \in Nat \ {0} /\ Hi \in Nat /\ Lo <= Hi

Iterations == Lo..(Hi - 1)   \* one goroutine per iteration
NoId == 0                    \* a goroutine that has not read i yet

VARIABLES
  pc,     \* main: "open", "loop" (before wg.Add), "post" (before i++),
          \* "wait" (in wg.Wait), "done" (returned) or "fatal" (log.Fatal)
  i,      \* the loop variable, shared with every goroutine
  wg,     \* the WaitGroup counter
  gst,    \* iteration -> "unborn", "running", "queried" or "done"
  qid     \* iteration -> the id its goroutine passed to GetSectorInfoByID

vars == <<pc, i, wg, gst, qid>>

Init ==
  /\ pc = "open"
  /\ i = 0
  /\ wg = 0
  /\ gst = [k \in Iterations |-> "unborn"]
  /\ qid = [k \in Iterations |-> NoId]

\* OpenSqlite succeeds and AutoMigrate runs (the CPU profile is then
\* started, its errors ignored); the loop starts with i = Lo.
Open ==
  /\ pc = "open"
  /\ i' = Lo
  /\ pc' = IF Lo < Hi THEN "loop" ELSE "wait"
  /\ UNCHANGED <<wg, gst, qid>>

\* OpenSqlite fails: log.Fatal exits before any goroutine exists.
OpenFail ==
  /\ pc = "open"
  /\ pc' = "fatal"
  /\ UNCHANGED <<i, wg, gst, qid>>

\* wg.Add(1) and the go statement of iteration i.
Launch ==
  /\ pc = "loop"
  /\ wg' = wg + 1
  /\ gst' = [gst EXCEPT ![i] = "running"]
  /\ pc' = "post"
  /\ UNCHANGED <<i, qid>>

\* Mutant: the loop condition i <= Hi.
Incr_OffByOne ==
  /\ pc = "post"
  /\ i' = i + 1
  /\ pc' = IF i + 1 <= Hi THEN "loop" ELSE "wait"
  /\ UNCHANGED <<wg, gst, qid>>

\* The loop's post statement i++ and its condition i < Hi.
Incr ==
  /\ pc = "post"
  /\ i' = i + 1
  /\ pc' = IF i + 1 < Hi THEN "loop" ELSE "wait"
  /\ UNCHANGED <<wg, gst, qid>>

\* Mutant: the WaitGroup is not waited on.
Wait_NoWait ==
  /\ pc = "wait"
  /\ pc' = "done"
  /\ UNCHANGED <<i, wg, gst, qid>>

\* wg.Wait returns once the counter is zero; main returns.
Wait ==
  /\ pc = "wait"
  /\ wg = 0
  /\ pc' = "done"
  /\ UNCHANGED <<i, wg, gst, qid>>

\* The goroutine of iteration k evaluates uint64(i) and queries that id:
\* its racy read sees k or a later value main has written.
Query(k) ==
  /\ gst[k] = "running"
  /\ \E v \in k..i : qid' = [qid EXCEPT ![k] = v]
  /\ gst' = [gst EXCEPT ![k] = "queried"]
  /\ UNCHANGED <<pc, i, wg>>

\* Mutant: the deferred Done is missing.
Done_NoDone(k) ==
  /\ gst[k] = "queried"
  /\ gst' = [gst EXCEPT ![k] = "done"]
  /\ UNCHANGED <<pc, i, wg, qid>>

\* The deferred wg.Done() as the goroutine returns.
Done(k) ==
  /\ gst[k] = "queried"
  /\ gst' = [gst EXCEPT ![k] = "done"]
  /\ wg' = wg - 1
  /\ UNCHANGED <<pc, i, qid>>

\* The process has exited.
Exited ==
  /\ pc \in {"done", "fatal"}
  /\ UNCHANGED vars

MainStep == Open \/ OpenFail \/ Launch \/ Incr \/ Wait

Next ==
  \/ MainStep
  \/ \E k \in Iterations : Query(k) \/ Done(k)
  \/ Exited

\* The Go scheduler runs every runnable goroutine, main included.
Fairness ==
  /\ WF_vars(MainStep)
  /\ \A k \in Iterations : WF_vars(Query(k) \/ Done(k))

Spec == Init /\ [][Next]_vars /\ Fairness

-----------------------------------------------------------------------------
(* Properties.                                                              *)

TypeOK ==
  /\ pc \in {"open", "loop", "post", "wait", "done", "fatal"}
  /\ i \in {0} \cup Lo..Hi
  /\ wg \in Nat
  /\ gst \in [Iterations -> {"unborn", "running", "queried", "done"}]
  /\ qid \in [Iterations -> {NoId} \cup Lo..Hi]

\* wg.Wait: main returns, and the process exits, only after every
\* goroutine it started has finished its query.
MainOutlivesQueries ==
  pc = "done" => \A k \in Iterations : gst[k] = "done"

\* The harness terminates: log.Fatal, or wg.Wait returning after every
\* goroutine's deferred Done.
Terminates == <>(pc \in {"done", "fatal"})
=============================================================================
