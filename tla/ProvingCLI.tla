------------------------------ MODULE ProvingCLI ------------------------------
(***************************************************************************)
(* The read-only "proving" subcommands faults, info and deadlines          *)
(* (src/app/venus-sealer/proving.go).  Each reads the miner actor's        *)
(* deadlines and partitions from one chain state, walks them and prints    *)
(* what it counted.  The chain state is chosen in Init among the states    *)
(* the miner actor keeps: every sector sits in one partition of one        *)
(* deadline, partitions of a deadline are numbered from 0, a terminated    *)
(* sector is neither faulty nor recovering, and a recovering sector is     *)
(* faulty.  One invocation runs one command; the output is kept as the     *)
(* numbers printed, without the table layout, colours and epoch times.     *)
(***************************************************************************)
EXTENDS Naturals, FiniteSets, FiniteSetsExt

CONSTANTS
  Sectors,      \* sector numbers
  Deadlines,    \* deadline indexes 0..n-1
  Partitions,   \* partition indexes 0..n-1 within a deadline
  NoOut         \* nothing printed yet

Status == {"active", "faulty", "recovering", "terminated"}

\* The miner actor states the commands may read.
ChainStates ==
  { cs \in [loc : [Sectors -> Deadlines \X Partitions],
            st : [Sectors -> Status],
            posted : [Deadlines -> SUBSET Partitions],
            index : Deadlines] :
      LET used(d, p) == \E s \in Sectors : cs.loc[s] = <<d, p>>
      IN \A d \in Deadlines :
           /\ \A p \in Partitions : p > 0 /\ used(d, p) => used(d, p - 1)
           /\ \A p \in cs.posted[d] : used(d, p) }

VARIABLES
  cs,     \* the chain state read (mas, cd.Index, PostSubmissions)
  ret,    \* "pending", then "ok" or "err"
  out     \* what the command printed

vars == <<cs, ret, out>>

\* part.AllSectors / LiveSectors / FaultySectors / RecoveringSectors.
AllSectors(d, p) == {s \in Sectors : cs.loc[s] = <<d, p>>}
LiveSectors(d, p) == {s \in AllSectors(d, p) : cs.st[s] # "terminated"}
FaultySectors(d, p) == {s \in AllSectors(d, p) : cs.st[s] \in {"faulty", "recovering"}}
RecoveringSectors(d, p) == {s \in AllSectors(d, p) : cs.st[s] = "recovering"}

\* dl.ForEachPartition: the partitions of deadline d.
PartitionsOf(d) == {p \in Partitions : AllSectors(d, p) # {}}
Parts == UNION {{<<d, p>> : p \in PartitionsOf(d)} : d \in Deadlines}

\* Mutant: every deadline's live sectors counted as the current deadline's.
Walk_AnyDeadline ==
  FoldSet(LAMBDA dp, acc :
            LET live == Cardinality(LiveSectors(dp[1], dp[2]))
            IN [proving |-> acc.proving + live,
                faults |-> acc.faults + Cardinality(FaultySectors(dp[1], dp[2])),
                recovering |-> acc.recovering + Cardinality(RecoveringSectors(dp[1], dp[2])),
                cur |-> acc.cur + live],
          [proving |-> 0, faults |-> 0, recovering |-> 0, cur |-> 0], Parts)

\* mas.ForEachDeadline / dl.ForEachPartition in provingInfoCmd: each
\* partition adds its live, faulty and recovering counts, and its live
\* count to curDeadlineSectors when dlIdx == cd.Index.  The counters are
\* sums, so the walk's order does not matter and it folds over the set.
Walk ==
  FoldSet(LAMBDA dp, acc :
            LET live == Cardinality(LiveSectors(dp[1], dp[2]))
            IN [proving |-> acc.proving + live,
                faults |-> acc.faults + Cardinality(FaultySectors(dp[1], dp[2])),
                recovering |-> acc.recovering + Cardinality(RecoveringSectors(dp[1], dp[2])),
                cur |-> acc.cur + (IF dp[1] = cs.index THEN live ELSE 0)],
          [proving |-> 0, faults |-> 0, recovering |-> 0, cur |-> 0], Parts)

\* Mutant: the division's operands swapped.
faultPerc_Swapped(faults, proving) ==
  IF faults > 0 THEN ((proving * 100) \div faults) * 100 ELSE 0

\* faultPerc = float64(faults * 100 / proving), in hundredths of a percent
\* as "%.2f%%" prints it: the division is on integers.
faultPerc(faults, proving) ==
  IF proving > 0 THEN ((faults * 100) \div proving) * 100 ELSE 0

Init ==
  /\ cs \in ChainStates
  /\ ret = "pending"
  /\ out = NoOut

\* "proving faults": one row per faulty sector of every partition.
provingFaultsCmd ==
  /\ ret = "pending"
  /\ ret' = "ok"
  /\ out' = [cmd |-> "faults",
             rows |-> UNION {{<<dp[1], dp[2], s>> : s \in FaultySectors(dp[1], dp[2])}
                             : dp \in Parts}]
  /\ UNCHANGED cs

\* "proving info": the totals over every partition and the current
\* deadline's sectors.
provingInfoCmd ==
  /\ ret = "pending"
  /\ ret' = "ok"
  /\ out' = [cmd |-> "info", proving |-> Walk.proving, faults |-> Walk.faults,
             recovering |-> Walk.recovering,
             faultPerc |-> faultPerc(Walk.faults, Walk.proving),
             index |-> cs.index, curDeadlineSectors |-> Walk.cur]
  /\ UNCHANGED cs

\* "proving deadlines": per deadline, its partitions, all its sectors, its
\* faulty ones, its proven partitions and the current-deadline mark.
provingDeadlinesCmd ==
  /\ ret = "pending"
  /\ ret' = "ok"
  /\ out' = [cmd |-> "deadlines",
             rows |-> [d \in Deadlines |->
                        [partitions |-> Cardinality(PartitionsOf(d)),
                         sectors |-> MapThenSumSet(LAMBDA p : Cardinality(AllSectors(d, p)), PartitionsOf(d)),
                         faults |-> MapThenSumSet(LAMBDA p : Cardinality(FaultySectors(d, p)), PartitionsOf(d)),
                         proven |-> Cardinality(cs.posted[d]),
                         current |-> cs.index = d]]]
  /\ UNCHANGED cs

\* The <deadlineIdx> arguments tried: every deadline and one past the last.
DeadlineArgs == 0..Cardinality(Deadlines)

\* "proving deadline <dlIdx>": StateMinerPartitions rejects an index past
\* the last deadline before deadlines[dlIdx] is read; otherwise the
\* deadline's partitions, proven partitions, current mark, and per
\* partition its sectors and faulty sectors.
provingDeadlineInfoCmd(dlIdx) ==
  /\ ret = "pending"
  /\ IF dlIdx \in Deadlines
       THEN /\ ret' = "ok"
            /\ out' = [cmd |-> "deadline", dl |-> dlIdx,
                       partitions |-> Cardinality(PartitionsOf(dlIdx)),
                       proven |-> Cardinality(cs.posted[dlIdx]),
                       current |-> cs.index = dlIdx,
                       parts |-> [p \in PartitionsOf(dlIdx) |->
                                   [sectors |-> AllSectors(dlIdx, p),
                                    faults |-> FaultySectors(dlIdx, p)]]]
       ELSE /\ ret' = "err"
            /\ UNCHANGED out
  /\ UNCHANGED cs

\* "proving check [--only-bad] <dlIdx>": per partition of the deadline,
\* CheckProvable is asked about its live sectors and answers with the bad
\* ones; each live sector is printed "bad", or "good" unless only-bad.
provingCheckProvableCmd(dlIdx, onlyBad) ==
  /\ ret = "pending"
  /\ dlIdx \in Deadlines
  /\ \E bad \in [PartitionsOf(dlIdx) -> SUBSET Sectors] :
       /\ \A p \in PartitionsOf(dlIdx) : bad[p] \subseteq LiveSectors(dlIdx, p)
       /\ ret' = "ok"
       /\ out' = [cmd |-> "check", dl |-> dlIdx, onlyBad |-> onlyBad, bad |-> bad,
                  rows |-> UNION {{<<p, s, IF s \in bad[p] THEN "bad" ELSE "good">>
                                    : s \in {x \in LiveSectors(dlIdx, p) :
                                               ~onlyBad \/ x \in bad[p]}}
                                  : p \in PartitionsOf(dlIdx)}]
  /\ UNCHANGED cs

\* A command fails: its argument is missing or not a number, an API client
\* cannot be built, or an RPC (actor
\* address, ChainHead, StateGetActor, miner.Load, StateMinerProvingDeadline,
\* StateMinerDeadlines, StateMinerPartitions, StateMinerInfo,
\* StateMinerSectors, CheckProvable) or a bitfield count returns
\* an error, which the command returns.
CmdFail ==
  /\ ret = "pending"
  /\ ret' = "err"
  /\ UNCHANGED <<cs, out>>

\* The command has returned.
Returned ==
  /\ ret \in {"ok", "err"}
  /\ UNCHANGED vars

Next ==
  \/ provingFaultsCmd \/ provingInfoCmd \/ provingDeadlinesCmd
  \/ \E dl \in DeadlineArgs : \/ provingDeadlineInfoCmd(dl)
                              \/ \E onlyBad \in BOOLEAN : provingCheckProvableCmd(dl, onlyBad)
  \/ CmdFail
  \/ Returned

Spec == Init /\ [][Next]_vars

-----------------------------------------------------------------------------
(* Properties.                                                              *)

TypeOK ==
  /\ cs \in ChainStates
  /\ ret \in {"pending", "ok", "err"}
  /\ out = NoOut \/ out.cmd \in {"faults", "info", "deadlines", "deadline", "check"}
  /\ out # NoOut /\ out.cmd = "info" =>
       /\ out.faultPerc \in 0..10000
       /\ out.curDeadlineSectors \in 0..out.proving

\* Set-based reference of what each command reports: faults lists exactly
\* the faulty sectors where they sit; info counts the live, faulty and
\* recovering sectors and the live sectors of the current deadline;
\* deadlines counts each deadline's sectors (terminated ones included, as
\* AllSectors does) and faults and marks the current deadline only;
\* deadline lists exactly the deadline's sectors and faults; check prints
\* each live sector of the deadline once, under its own partition, with
\* the status CheckProvable gave it (only the bad ones with only-bad).
OutputFollowsState ==
  LET live == {s \in Sectors : cs.st[s] # "terminated"}
      faulty == {s \in Sectors : cs.st[s] \in {"faulty", "recovering"}}
      InDl(S, d) == {s \in S : cs.loc[s][1] = d}
  IN ret = "ok" =>
     CASE out.cmd = "faults" ->
            out.rows = {<<cs.loc[s][1], cs.loc[s][2], s>> : s \in faulty}
       [] out.cmd = "info" ->
            /\ out.proving = Cardinality(live)
            /\ out.faults = Cardinality(faulty)
            /\ out.recovering = Cardinality({s \in Sectors : cs.st[s] = "recovering"})
            /\ out.curDeadlineSectors = Cardinality(InDl(live, cs.index))
       [] out.cmd = "deadlines" ->
            \A d \in Deadlines :
              /\ out.rows[d].sectors = Cardinality(InDl(Sectors, d))
              /\ out.rows[d].faults = Cardinality(InDl(faulty, d))
              /\ out.rows[d].current = (d = cs.index)
       [] out.cmd = "deadline" ->
            /\ UNION {out.parts[p].sectors : p \in DOMAIN out.parts} = InDl(Sectors, out.dl)
            /\ UNION {out.parts[p].faults : p \in DOMAIN out.parts} = InDl(faulty, out.dl)
            /\ out.current = (out.dl = cs.index)
       [] out.cmd = "check" ->
            \A s \in InDl(live, out.dl) :
              LET isBad == s \in out.bad[cs.loc[s][2]]
                  printed == {r \in out.rows : r[2] = s}
              IN IF isBad \/ ~out.onlyBad
                   THEN printed = {<<cs.loc[s][2], s, IF isBad THEN "bad" ELSE "good">>}
                   ELSE printed = {}

\* The fault share info prints with "%.2f%%" is the share of faults among
\* the proven sectors, to two decimals (rounded to the nearest hundredth).
FaultPercentShown ==
  (ret = "ok" /\ out.cmd = "info" /\ out.proving > 0) =>
    out.faultPerc = ((2 * out.faults * 10000) + out.proving) \div (2 * out.proving)
=============================================================================
