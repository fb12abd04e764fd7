--------------------------- MODULE ModelUsageProofs ---------------------------
(***************************************************************************)
(* For every number of threads, clients and task ids, every width of the   *)
(* counters and every lifetime: the ledger stays within its types, no      *)
(* total falls below its parts, and a budget check counts what was used    *)
(* before it began.                                                        *)
(*                                                                         *)
(* For every base, number of places and largest amount: the spend of an    *)
(* entry is exact, and refused only when it does not fit (from Sets of     *)
(* numbers on).                                                            *)
(***************************************************************************)
EXTENDS ModelUsage, Spend, WellFoundedInduction, NaturalsInduction, TLAPS

Covers(r) == r.total >= r.input + r.output

\* What the threads report is sensible: a total, if given, covers the parts.
SoundUsages ==
  \A u \in Usages : DerivedTotal(u) >= OrZero(u.input) + OrZero(u.output)

\* TotalCoversParts is not inductive: a usage waiting for the lock must cover
\* its parts as well, for the sum to do so.
CoverInv ==
  SoundUsages =>
    /\ \A k \in TaskIds : ledger[k] # None => Covers(ledger[k])
    /\ \A t \in Threads : Covers(usage[t])

Inv == TypeOK /\ CoverInv

-----------------------------------------------------------------------------
(* The pure parts. *)

\* Every call acts on a task id, whichever of the three sources it comes from.
LEMMA TaskResolved ==
  \A client \in Clients, explicit \in TaskIds \cup {None} :
    ResolveTask(client, explicit) \in TaskIds
  BY UsageAssumption DEF ResolveTask

\* A usage that normalizes fits the counters.
LEMMA NormalizedType ==
  \A u \in Usages : Normalizes(u) => Normalized(u) \in ReportType
  <1> SUFFICES ASSUME NEW u \in Usages, Normalizes(u)
               PROVE  Normalized(u) \in ReportType
    OBVIOUS
  <1>1. u \in UsageType
    BY UsageAssumption
  <1>2. OrZero(u.input) \in Tokens /\ OrZero(u.output) \in Tokens
    BY <1>1, UsageAssumption DEF UsageType, OrZero, Tokens
  <1>3. DerivedTotal(u) \in Tokens
    BY <1>1, <1>2, UsageAssumption DEF Normalizes, DerivedTotal, UsageType, Tokens
  <1> QED BY <1>2, <1>3 DEF Normalized, ReportType

\* Eviction only removes entries.
LEMMA EvictedType ==
  TypeOK => \A at : /\ Evicted(at) \in [TaskIds -> EntryType \cup {None}]
                    /\ \A k \in TaskIds : Evicted(at)[k] \in {None, ledger[k]}
  BY DEF TypeOK, Evicted

\* What a task had before an addition, or nothing at all.
LEMMA PreviousType ==
  \A entries \in [TaskIds -> EntryType \cup {None}], k \in TaskIds :
    Previous(entries, k) \in ReportType
  BY UsageAssumption DEF Previous, Nothing, ReportOf, ReportType, EntryType, Tokens

\* A sum that fits can be stored and reported.
LEMMA SumType ==
  \A r \in ReportType, u \in ReportType :
    Fits(Sum(r, u)) => Sum(r, u) \in ReportType
  <1> SUFFICES ASSUME NEW r \in ReportType, NEW u \in ReportType, Fits(Sum(r, u))
               PROVE  Sum(r, u) \in ReportType
    OBVIOUS
  <1>1. /\ r.input + u.input \in Tokens
        /\ r.output + u.output \in Tokens
        /\ r.total + u.total \in Tokens
    BY UsageAssumption DEF Fits, Sum, ReportType, Tokens
  <1> QED BY <1>1 DEF Sum, ReportType

\* Adding componentwise keeps totals above their parts.
LEMMA SumCovers ==
  \A r \in ReportType, u \in ReportType :
    Covers(r) /\ Covers(u) => Covers(Sum(r, u))
  BY UsageAssumption DEF Covers, Sum, ReportType, Tokens

-----------------------------------------------------------------------------
(* The parts that several actions share. *)

LEMMA FloorType ==
  TypeOK => \A entries : FloorAfter(entries) \in [Threads -> Tokens]
  BY UsageAssumption DEF TypeOK, FloorAfter, Tokens

LEMMA EnterType ==
  ASSUME TypeOK, NEW t \in Threads, NEW next \in {"recording", "reporting", "budgeting"},
         NEW client \in Clients, NEW explicit \in TaskIds \cup {None},
         Enter(t, next, client, explicit), usage' \in [Threads -> ReportType]
  PROVE  TypeOK'
  <1> DEFINE k == ResolveTask(client, explicit)
  <1>1. k \in TaskIds
    BY TaskResolved
  <1>2. Previous(ledger, k).total \in Tokens
    BY <1>1, PreviousType DEF TypeOK, ReportType
  <1> HIDE DEF k
  <1>3. /\ pc' = [pc EXCEPT ![t] = next]
        /\ task' = [task EXCEPT ![t] = k]
        /\ stamp' = [stamp EXCEPT ![t] = now]
        /\ report' = [report EXCEPT ![t] = None]
        /\ floor' = [floor EXCEPT ![t] = Previous(ledger, k).total]
        /\ UNCHANGED <<now, ledger>>
    BY DEF Enter, k
  <1> QED BY <1>1, <1>2, <1>3 DEF TypeOK

LEMMA LeaveType ==
  ASSUME TypeOK, NEW t \in Threads, Leave(t)
  PROVE  /\ pc' \in [Threads -> {"idle", "recording", "reporting", "budgeting", "asking"}]
         /\ task' \in [Threads -> TaskIds]
         /\ stamp' \in [Threads -> 0..MaxNow]
         /\ usage' \in [Threads -> ReportType]
  <1>1. Nothing \in ReportType /\ 0 \in 0..MaxNow /\ DefaultTaskId \in TaskIds
    BY UsageAssumption DEF Nothing, ReportType, Tokens
  <1> QED BY <1>1 DEF TypeOK, Leave

\* A call that leaves replaces its usage by nothing, which covers its parts.
LEMMA LeaveCovers ==
  ASSUME TypeOK, NEW t \in Threads, Leave(t),
         \A s \in Threads : Covers(usage[s])
  PROVE  \A s \in Threads : Covers(usage'[s])
  <1>1. Covers(Nothing)
    BY DEF Covers, Nothing
  <1> QED BY <1>1 DEF TypeOK, Leave

LEMMA ReadType ==
  ASSUME TypeOK, NEW t \in Threads, ReadReport(t)
  PROVE  /\ ledger' \in [TaskIds -> EntryType \cup {None}]
         /\ report' \in [Threads -> ReportType \cup {None}]
         /\ \A k \in TaskIds : ledger'[k] \in {None, ledger[k]}
  <1> DEFINE entries == Evicted(stamp[t])
  <1>1. /\ entries \in [TaskIds -> EntryType \cup {None}]
        /\ \A k \in TaskIds : entries[k] \in {None, ledger[k]}
    BY EvictedType
  <1>2. /\ ledger' = entries
        /\ report' = [report EXCEPT ![t] = IF entries[task[t]] = None THEN None
                                           ELSE ReportOf(entries[task[t]])]
    BY DEF ReadReport
  <1> HIDE DEF entries
  <1>3. task[t] \in TaskIds
    BY DEF TypeOK
  <1>4. entries[task[t]] # None => ReportOf(entries[task[t]]) \in ReportType
    BY <1>1, <1>3 DEF ReportOf, EntryType, ReportType
  <1> QED BY <1>1, <1>2, <1>4 DEF TypeOK

\* A record, accepted or refused, leaves every entry it does not evict with at
\* least the total it had.
LEMMA RecordKeeps ==
  ASSUME TypeOK, NEW t \in Threads, FinishRecord(t)
  PROVE  \A k \in TaskIds : Evicted(stamp[t])[k] # None =>
           ledger'[k] # None /\ ledger'[k].total >= Evicted(stamp[t])[k].total
  <1> DEFINE entries == Evicted(stamp[t])
             old     == Previous(entries, task[t])
             sum     == Sum(old, usage[t])
  <1>1. /\ entries \in [TaskIds -> EntryType \cup {None}]
        /\ \A k \in TaskIds : entries[k] \in {None, ledger[k]}
    BY EvictedType
  <1>2. task[t] \in TaskIds /\ usage[t] \in ReportType
    BY DEF TypeOK
  <1>3. old \in ReportType /\ (entries[task[t]] # None => old.total = entries[task[t]].total)
    BY <1>1, <1>2, PreviousType DEF Previous, ReportOf
  <1>4. entries[task[t]] # None => sum.total >= entries[task[t]].total
    BY <1>2, <1>3, UsageAssumption DEF Sum, ReportType, Tokens
  <1>5. \/ /\ Fits(sum)
           /\ ledger' = [entries EXCEPT ![task[t]] = Stored(sum, stamp[t])]
        \/ ledger' = entries
    BY DEF FinishRecord
  <1>6. Fits(sum) => Stored(sum, stamp[t]) # None /\ Stored(sum, stamp[t]).total = sum.total
    <2>1. Fits(sum) => Stored(sum, stamp[t]) \in EntryType
      BY <1>2, <1>3, SumType DEF Stored, ReportType, EntryType, TypeOK
    <2> QED BY <2>1, AbsenceAssumption DEF Stored
  <1> HIDE DEF entries, old, sum
  <1>7. \A k \in TaskIds : entries[k] # None => entries[k].total \in Int
    BY <1>1, UsageAssumption DEF EntryType, Tokens
  <1>8. \A k \in TaskIds : entries[k] # None =>
          ledger'[k] # None /\ ledger'[k].total >= entries[k].total
    BY <1>1, <1>2, <1>4, <1>5, <1>6, <1>7
  <1> QED BY <1>8 DEF entries

-----------------------------------------------------------------------------
LEMMA InvInit == Init => Inv
  <1> SUFFICES ASSUME Init PROVE Inv
    OBVIOUS
  <1>1. Nothing \in ReportType /\ Covers(Nothing) /\ 0 \in Tokens /\ 0 \in 0..MaxNow
    BY UsageAssumption DEF Nothing, ReportType, Tokens, Covers
  <1> QED BY <1>1, UsageAssumption DEF Init, Inv, TypeOK, CoverInv

LEMMA InvStep == Inv /\ [Next]_vars => Inv'
  <1> SUFFICES ASSUME Inv, [Next]_vars PROVE Inv'
    OBVIOUS
  <1>t. TypeOK
    BY DEF Inv
  <1>1. ASSUME NEW t \in Threads, NEW client \in Clients,
               NEW explicit \in TaskIds \cup {None}, NEW u \in Usages,
               BeginRecord(t, client, explicit, u)
        PROVE  Inv'
    <2>1. /\ Normalized(u) \in ReportType
          /\ usage' = [usage EXCEPT ![t] = Normalized(u)]
          /\ Enter(t, "recording", client, explicit)
      BY <1>1, NormalizedType DEF BeginRecord
    <2>2. TypeOK'
      BY <1>t, <2>1, EnterType DEF TypeOK
    <2>3. SoundUsages => Covers(Normalized(u))
      BY DEF SoundUsages, Covers, Normalized
    <2>4. UNCHANGED ledger
      BY <2>1 DEF Enter
    <2>5. CoverInv'
      BY <1>t, <2>1, <2>3, <2>4 DEF CoverInv, Inv, SoundUsages, TypeOK
    <2> QED BY <2>2, <2>5 DEF Inv
  <1>2. ASSUME NEW t \in Threads, NEW client \in Clients,
               NEW explicit \in TaskIds \cup {None},
               BeginReport(t, client, explicit)
        PROVE  Inv'
    <2>1. PICK next \in {"reporting", "budgeting"} : Enter(t, next, client, explicit)
      BY <1>2 DEF BeginReport
    <2>2. UNCHANGED <<usage, ledger>>
      BY <1>2, <2>1 DEF BeginReport, Enter
    <2>3. TypeOK'
      BY <1>t, <2>1, <2>2, EnterType DEF TypeOK
    <2> QED BY <2>2, <2>3 DEF Inv, CoverInv, SoundUsages
  <1>3. ASSUME NEW t \in Threads, NEW client \in Clients,
               NEW explicit \in TaskIds \cup {None}, Clear(t, client, explicit)
        PROVE  Inv'
    <2>1. ResolveTask(client, explicit) \in TaskIds
      BY TaskResolved
    <2>2. /\ ledger' = [ledger EXCEPT ![ResolveTask(client, explicit)] = None]
          /\ report' = [report EXCEPT ![t] = None]
          /\ floor' \in [Threads -> Tokens]
          /\ UNCHANGED <<now, pc, task, stamp, usage>>
      BY <1>3, <1>t, FloorType DEF Clear
    <2>3. TypeOK'
      BY <1>t, <2>1, <2>2 DEF TypeOK
    <2> QED BY <1>t, <2>1, <2>2, <2>3 DEF Inv, CoverInv, SoundUsages, TypeOK
  <1>4. ASSUME NEW t \in Threads, FinishRecord(t) PROVE Inv'
    <2> DEFINE entries == Evicted(stamp[t])
               old     == Previous(entries, task[t])
               sum     == Sum(old, usage[t])
    <2>1. /\ entries \in [TaskIds -> EntryType \cup {None}]
          /\ \A k \in TaskIds : entries[k] \in {None, ledger[k]}
      BY <1>t, EvictedType
    <2>2. task[t] \in TaskIds /\ stamp[t] \in 0..MaxNow /\ usage[t] \in ReportType
      BY <1>t DEF TypeOK
    <2>3. old \in ReportType
      BY <2>1, <2>2, PreviousType
    <2>4. SoundUsages => Covers(old)
      BY <2>1, <2>2 DEF Inv, CoverInv, Previous, Covers, Nothing, ReportOf
    <2>5. SoundUsages => Covers(sum)
      BY <2>2, <2>3, <2>4, SumCovers DEF Inv, CoverInv
    <2>6. Fits(sum) => sum \in ReportType /\ Stored(sum, stamp[t]) \in EntryType
      BY <2>2, <2>3, SumType DEF Stored, ReportType, EntryType
    <2>7. SoundUsages => Covers(Stored(sum, stamp[t]))
      BY <2>5 DEF Covers, Stored
    <2>8. /\ \/ /\ Fits(sum)
                /\ ledger' = [entries EXCEPT ![task[t]] = Stored(sum, stamp[t])]
                /\ report' = [report EXCEPT ![t] = sum]
             \/ /\ ledger' = entries
                /\ report' = [report EXCEPT ![t] = None]
          /\ floor' = [FloorAfter(entries) EXCEPT ![t] = 0]
          /\ Leave(t)
          /\ UNCHANGED now
      BY <1>4 DEF FinishRecord
    <2> HIDE DEF entries, old, sum
    <2>9. floor' \in [Threads -> Tokens]
      BY <1>t, <2>8, FloorType, UsageAssumption DEF Tokens
    <2>10. /\ ledger' \in [TaskIds -> EntryType \cup {None}]
           /\ report' \in [Threads -> ReportType \cup {None}]
      BY <1>t, <2>1, <2>2, <2>6, <2>8 DEF TypeOK
    <2>11. TypeOK'
      BY <1>t, <2>8, <2>9, <2>10, LeaveType DEF TypeOK
    <2>12. SoundUsages => \A k \in TaskIds : ledger'[k] # None => Covers(ledger'[k])
      BY <2>1, <2>2, <2>7, <2>8 DEF Inv, CoverInv
    <2>13. SoundUsages => \A s \in Threads : Covers(usage'[s])
      BY <1>t, <2>8, LeaveCovers DEF Inv, CoverInv
    <2> QED BY <2>11, <2>12, <2>13 DEF Inv, CoverInv, SoundUsages
  <1>5. ASSUME NEW t \in Threads, FinishReport(t) PROVE Inv'
    <2>1. /\ ReadReport(t)
          /\ Leave(t)
          /\ floor' = [FloorAfter(ledger') EXCEPT ![t] = 0]
          /\ UNCHANGED now
      BY <1>5 DEF FinishReport
    <2>2. floor' \in [Threads -> Tokens]
      BY <1>t, <2>1, FloorType, UsageAssumption DEF Tokens
    <2>3. TypeOK'
      BY <1>t, <2>1, <2>2, ReadType, LeaveType DEF TypeOK
    <2>4. SoundUsages => \A s \in Threads : Covers(usage'[s])
      BY <1>t, <2>1, LeaveCovers DEF Inv, CoverInv
    <2>5. \A k \in TaskIds : ledger'[k] \in {None, ledger[k]}
      BY <1>t, <2>1, ReadType
    <2> QED BY <2>3, <2>4, <2>5 DEF Inv, CoverInv, SoundUsages
  <1>6. ASSUME NEW t \in Threads, AskBudget(t) PROVE Inv'
    <2>1. /\ ReadReport(t)
          /\ pc' = [pc EXCEPT ![t] = "asking"]
          /\ floor' \in [Threads -> Tokens]
          /\ UNCHANGED <<now, task, stamp, usage>>
      BY <1>6, <1>t, FloorType DEF AskBudget
    <2>2. TypeOK'
      BY <1>t, <2>1, ReadType DEF TypeOK
    <2>3. \A k \in TaskIds : ledger'[k] \in {None, ledger[k]}
      BY <1>t, <2>1, ReadType
    <2> QED BY <2>1, <2>2, <2>3 DEF Inv, CoverInv, SoundUsages
  <1>7. ASSUME NEW t \in Threads, BudgetAnswered(t) PROVE Inv'
    <2>1. /\ report' = [report EXCEPT ![t] = None]
          /\ floor' = [floor EXCEPT ![t] = 0]
          /\ Leave(t)
          /\ UNCHANGED <<now, ledger>>
      BY <1>7 DEF BudgetAnswered
    <2>2. 0 \in Tokens
      BY UsageAssumption DEF Tokens
    <2>3. TypeOK'
      BY <1>t, <2>1, <2>2, LeaveType DEF TypeOK
    <2>4. SoundUsages => \A s \in Threads : Covers(usage'[s])
      BY <1>t, <2>1, LeaveCovers DEF Inv, CoverInv
    <2> QED BY <2>1, <2>3, <2>4 DEF Inv, CoverInv, SoundUsages
  <1>8. CASE Tick
    <2>1. now' \in 0..MaxNow
      BY <1>8, <1>t, UsageAssumption DEF Tick, TypeOK
    <2> QED BY <1>8, <2>1 DEF Tick, Inv, TypeOK, CoverInv, SoundUsages
  <1>9. CASE UNCHANGED vars
    BY <1>9 DEF vars, Inv, TypeOK, CoverInv, SoundUsages
  <1> QED BY <1>1, <1>2, <1>3, <1>4, <1>5, <1>6, <1>7, <1>8, <1>9 DEF Next

-----------------------------------------------------------------------------
(* What a budget check counts.  BudgetCountsPriorUsage speaks of checks that *)
(* have read the ledger; before they do, the entry itself has to be there.   *)

FloorOf(s) ==
  floor[s] > 0 =>
    IF pc[s] = "asking"
      THEN report[s] # None /\ report[s].total >= floor[s]
      ELSE ledger[task[s]] # None /\ ledger[task[s]].total >= floor[s]

FloorInv == \A s \in Threads : FloorOf(s)

\* A thread that does not move keeps its floor when other threads drop entries
\* and then only add to what is left.
LEMMA BystanderFloor ==
  ASSUME TypeOK, TypeOK', FloorInv, NEW s \in Threads,
         NEW entries \in [TaskIds -> EntryType \cup {None}],
         \A k \in TaskIds : entries[k] \in {None, ledger[k]},
         \A k \in TaskIds : entries[k] # None =>
           ledger'[k] # None /\ ledger'[k].total >= entries[k].total,
         floor'[s] = FloorAfter(entries)[s],
         pc'[s] = pc[s], task'[s] = task[s],
         pc[s] = "asking" => report'[s] = report[s]
  PROVE  FloorOf(s)'
  <1>1. SUFFICES ASSUME floor'[s] > 0
                 PROVE  IF pc[s] = "asking"
                          THEN report'[s] # None /\ report'[s].total >= floor'[s]
                          ELSE ledger'[task[s]] # None /\ ledger'[task[s]].total >= floor'[s]
    BY DEF FloorOf
  <1>2. task[s] \in TaskIds
    BY DEF TypeOK
  <1>3. entries[task[s]] # None /\ floor'[s] = floor[s]
    BY <1>1 DEF FloorAfter
  <1>4. entries[task[s]] = ledger[task[s]]
    BY <1>2, <1>3
  <1>5. CASE pc[s] = "asking"
    BY <1>1, <1>3, <1>5 DEF FloorInv, FloorOf
  <1>6. CASE pc[s] # "asking"
    <2>1. ledger[task[s]].total >= floor[s] /\ ledger'[task[s]] # None
          /\ ledger'[task[s]].total >= ledger[task[s]].total
      BY <1>1, <1>2, <1>3, <1>4, <1>6 DEF FloorInv, FloorOf
    <2>2. ledger[task[s]] \in EntryType /\ ledger'[task[s]] \in EntryType /\ floor[s] \in Tokens
      BY <1>2, <1>3, <1>4, <2>1 DEF TypeOK
    <2>3. ledger[task[s]].total \in Int /\ ledger'[task[s]].total \in Int /\ floor[s] \in Int
      BY <2>2, UsageAssumption DEF EntryType, Tokens
    <2> QED BY <1>3, <1>6, <2>1, <2>3
  <1> QED BY <1>5, <1>6

\* The same when nothing is dropped and no floor changes.
LEMMA IdleFloor ==
  ASSUME FloorInv, NEW s \in Threads, UNCHANGED ledger,
         floor'[s] = floor[s], pc'[s] = pc[s], task'[s] = task[s], report'[s] = report[s]
  PROVE  FloorOf(s)'
  BY DEF FloorInv, FloorOf

LEMMA EnterFloor ==
  ASSUME TypeOK, FloorInv, NEW t \in Threads,
         NEW next \in {"recording", "reporting", "budgeting"},
         NEW client \in Clients, NEW explicit \in TaskIds \cup {None},
         Enter(t, next, client, explicit)
  PROVE  FloorInv'
  <1> DEFINE k == ResolveTask(client, explicit)
  <1>1. k \in TaskIds
    BY TaskResolved
  <1> HIDE DEF k
  <1>2. /\ pc' = [pc EXCEPT ![t] = next]
        /\ task' = [task EXCEPT ![t] = k]
        /\ report' = [report EXCEPT ![t] = None]
        /\ floor' = [floor EXCEPT ![t] = Previous(ledger, k).total]
        /\ UNCHANGED ledger
    BY DEF Enter, k
  <1>3. ASSUME NEW s \in Threads, s # t PROVE FloorOf(s)'
    BY <1>2, <1>3, IdleFloor DEF TypeOK
  <1>4. FloorOf(t)'
    <2>1. /\ pc'[t] # "asking" /\ task'[t] = k
          /\ floor'[t] = Previous(ledger, k).total
      BY <1>2 DEF TypeOK
    <2>2. CASE ledger[k] = None
      BY <2>1, <2>2 DEF FloorOf, Previous, Nothing
    <2>3. CASE ledger[k] # None
      <3>1. ledger[k].total \in Int
        BY <1>1, <2>3, UsageAssumption DEF TypeOK, EntryType, Tokens
      <3> QED BY <1>2, <2>1, <2>3, <3>1 DEF FloorOf, Previous, ReportOf
    <2> QED BY <2>2, <2>3
  <1> QED BY <1>3, <1>4 DEF FloorInv

\* A thread whose call ends has no floor left to keep.
LEMMA NoFloor ==
  ASSUME NEW t \in Threads, floor'[t] = 0
  PROVE  FloorOf(t)'
  BY DEF FloorOf

LEMMA FloorStep == TypeOK /\ TypeOK' /\ FloorInv /\ [Next]_vars => FloorInv'
  <1> SUFFICES ASSUME TypeOK, TypeOK', FloorInv, [Next]_vars PROVE FloorInv'
    OBVIOUS
  <1>1. ASSUME NEW t \in Threads, NEW client \in Clients,
               NEW explicit \in TaskIds \cup {None}, NEW u \in Usages,
               BeginRecord(t, client, explicit, u)
        PROVE  FloorInv'
    BY <1>1, EnterFloor DEF BeginRecord
  <1>2. ASSUME NEW t \in Threads, NEW client \in Clients,
               NEW explicit \in TaskIds \cup {None},
               BeginReport(t, client, explicit)
        PROVE  FloorInv'
    BY <1>2, EnterFloor DEF BeginReport
  <1>3. ASSUME NEW t \in Threads, NEW client \in Clients,
               NEW explicit \in TaskIds \cup {None}, Clear(t, client, explicit)
        PROVE  FloorInv'
    <2>1. ResolveTask(client, explicit) \in TaskIds
      BY TaskResolved
    <2>2. /\ pc[t] = "idle"
          /\ ledger' = [ledger EXCEPT ![ResolveTask(client, explicit)] = None]
          /\ report' = [report EXCEPT ![t] = None]
          /\ floor' = FloorAfter(ledger')
          /\ UNCHANGED <<pc, task>>
      BY <1>3 DEF Clear
    <2>3. /\ ledger' \in [TaskIds -> EntryType \cup {None}]
          /\ \A k \in TaskIds : ledger'[k] \in {None, ledger[k]}
          /\ \A k \in TaskIds : ledger'[k] # None => ledger'[k].total \in Int
      BY <2>1, <2>2, UsageAssumption DEF TypeOK, EntryType, Tokens
    <2>4. ASSUME NEW s \in Threads PROVE FloorOf(s)'
      <3>1. pc[s] = "asking" => report'[s] = report[s]
        BY <2>2 DEF TypeOK
      <3>2. \A k \in TaskIds : ledger'[k] # None => ledger'[k].total >= ledger'[k].total
        BY <2>3
      <3> QED BY <2>2, <2>3, <3>1, <3>2, BystanderFloor
    <2> QED BY <2>4 DEF FloorInv
  <1>4. ASSUME NEW t \in Threads, FinishRecord(t) PROVE FloorInv'
    <2> DEFINE entries == Evicted(stamp[t])
    <2>1. /\ entries \in [TaskIds -> EntryType \cup {None}]
          /\ \A k \in TaskIds : entries[k] \in {None, ledger[k]}
      BY EvictedType
    <2>2. /\ report' = [report EXCEPT ![t] = report'[t]]
          /\ floor' = [FloorAfter(entries) EXCEPT ![t] = 0]
          /\ Leave(t)
      BY <1>4 DEF FinishRecord, TypeOK
    <2>3. \A k \in TaskIds : entries[k] # None =>
            ledger'[k] # None /\ ledger'[k].total >= entries[k].total
      BY <1>4, RecordKeeps
    <2> HIDE DEF entries
    <2>4. ASSUME NEW s \in Threads, s # t PROVE FloorOf(s)'
      <3>1. /\ floor'[s] = FloorAfter(entries)[s]
            /\ pc'[s] = pc[s] /\ task'[s] = task[s] /\ report'[s] = report[s]
        BY <2>2, <2>4 DEF Leave, FloorAfter, TypeOK
      <3> QED BY <2>1, <2>3, <3>1, BystanderFloor
    <2>5. floor'[t] = 0
      BY <2>2 DEF FloorAfter
    <2> QED BY <2>4, <2>5, NoFloor DEF FloorInv
  <1>5. ASSUME NEW t \in Threads, FinishReport(t) PROVE FloorInv'
    <2>1. /\ ReadReport(t) /\ Leave(t)
          /\ floor' = [FloorAfter(ledger') EXCEPT ![t] = 0]
      BY <1>5 DEF FinishReport
    <2>2. /\ ledger' \in [TaskIds -> EntryType \cup {None}]
          /\ \A k \in TaskIds : ledger'[k] \in {None, ledger[k]}
          /\ \A k \in TaskIds : ledger'[k] # None => ledger'[k].total >= ledger'[k].total
      BY <2>1, ReadType, UsageAssumption DEF EntryType, Tokens
    <2>3. ASSUME NEW s \in Threads, s # t PROVE FloorOf(s)'
      <3>1. /\ floor'[s] = FloorAfter(ledger')[s]
            /\ pc'[s] = pc[s] /\ task'[s] = task[s] /\ report'[s] = report[s]
        BY <2>1, <2>3 DEF Leave, ReadReport, FloorAfter, TypeOK
      <3> QED BY <2>2, <3>1, BystanderFloor
    <2>4. floor'[t] = 0
      BY <2>1 DEF FloorAfter
    <2> QED BY <2>3, <2>4, NoFloor DEF FloorInv
  <1>6. ASSUME NEW t \in Threads, AskBudget(t) PROVE FloorInv'
    <2>1. /\ pc[t] = "budgeting"
          /\ ReadReport(t)
          /\ pc' = [pc EXCEPT ![t] = "asking"]
          /\ floor' = FloorAfter(ledger')
          /\ UNCHANGED task
      BY <1>6 DEF AskBudget
    <2>2. /\ ledger' \in [TaskIds -> EntryType \cup {None}]
          /\ \A k \in TaskIds : ledger'[k] \in {None, ledger[k]}
          /\ \A k \in TaskIds : ledger'[k] # None => ledger'[k].total >= ledger'[k].total
      BY <2>1, ReadType, UsageAssumption DEF EntryType, Tokens
    <2>3. ASSUME NEW s \in Threads, s # t PROVE FloorOf(s)'
      <3>1. /\ floor'[s] = FloorAfter(ledger')[s]
            /\ pc'[s] = pc[s] /\ task'[s] = task[s] /\ report'[s] = report[s]
        BY <2>1, <2>3 DEF ReadReport, TypeOK
      <3> QED BY <2>2, <3>1, BystanderFloor
    <2>4. FloorOf(t)'
      <3>1. SUFFICES ASSUME floor'[t] > 0
                     PROVE  report'[t] # None /\ report'[t].total >= floor'[t]
        BY <2>1 DEF FloorOf, TypeOK
      <3>2. task[t] \in TaskIds /\ ledger'[task[t]] # None /\ floor'[t] = floor[t]
        BY <2>1, <3>1 DEF FloorAfter, TypeOK
      <3>3. ledger'[task[t]] = ledger[task[t]] /\ ledger[task[t]].total >= floor[t]
        BY <2>1, <2>2, <3>1, <3>2 DEF FloorInv, FloorOf
      <3>4. report'[t] = ReportOf(ledger'[task[t]])
        BY <2>1, <3>2 DEF ReadReport, TypeOK
      <3>5. ReportOf(ledger'[task[t]]) # None
        <4>1. ledger'[task[t]] \in EntryType
          BY <2>2, <3>2
        <4>2. ReportOf(ledger'[task[t]]) \in ReportType
          BY <4>1 DEF EntryType, ReportOf, ReportType
        <4> QED BY <4>2, AbsenceAssumption
      <3> QED BY <3>2, <3>3, <3>4, <3>5 DEF ReportOf
    <2> QED BY <2>3, <2>4 DEF FloorInv
  <1>7. ASSUME NEW t \in Threads, BudgetAnswered(t) PROVE FloorInv'
    <2>1. /\ report' = [report EXCEPT ![t] = None]
          /\ floor' = [floor EXCEPT ![t] = 0]
          /\ Leave(t)
          /\ UNCHANGED ledger
      BY <1>7 DEF BudgetAnswered
    <2>2. ASSUME NEW s \in Threads, s # t PROVE FloorOf(s)'
      <3>1. /\ floor'[s] = floor[s]
            /\ pc'[s] = pc[s] /\ task'[s] = task[s] /\ report'[s] = report[s]
        BY <2>1, <2>2 DEF Leave, TypeOK
      <3> QED BY <2>1, <3>1, IdleFloor
    <2>3. floor'[t] = 0
      BY <2>1 DEF TypeOK
    <2> QED BY <2>2, <2>3, NoFloor DEF FloorInv
  <1>8. CASE Tick \/ UNCHANGED vars
    BY <1>8 DEF Tick, vars, FloorInv, FloorOf
  <1> QED BY <1>1, <1>2, <1>3, <1>4, <1>5, <1>6, <1>7, <1>8 DEF Next

-----------------------------------------------------------------------------
(* What evictions may take: the two action properties need no invariant but  *)
(* the type invariant, because eviction, reading and adding are one step.    *)

\* An entry evicted by a stamp had expired at that stamp; one that is kept had
\* not.  A saturated difference is 0, and so never beyond the lifetime.
LEMMA EvictionIsExpiry ==
  TypeOK => \A at \in 0..MaxNow, k \in TaskIds : ledger[k] # None =>
    (Evicted(at)[k] = None <=> at > ledger[k].updatedAt + MODEL_USAGE_TTL)
  <1> SUFFICES ASSUME TypeOK, NEW at \in 0..MaxNow, NEW k \in TaskIds, ledger[k] # None
               PROVE  Evicted(at)[k] = None <=> at > ledger[k].updatedAt + MODEL_USAGE_TTL
    OBVIOUS
  <1>1. ledger[k].updatedAt \in 0..MaxNow
    BY DEF TypeOK, EntryType
  <1>2. at \in Int /\ ledger[k].updatedAt \in Int /\ MODEL_USAGE_TTL \in Nat
    BY <1>1, UsageAssumption
  <1>3. SinceUpdate(at, ledger[k]) > MODEL_USAGE_TTL
          <=> at > ledger[k].updatedAt + MODEL_USAGE_TTL
    BY <1>2 DEF SinceUpdate
  <1> QED BY <1>3 DEF Evicted

UsageKept ==
  \A k \in TaskIds :
    /\ ledger[k] # None
    /\ ledger'[k] = None \/ ledger'[k].total < ledger[k].total
    /\ pc' # pc
    => \E t \in Threads :
         pc'[t] # pc[t] /\ stamp[t] > ledger[k].updatedAt + MODEL_USAGE_TTL

\* A step of thread t that keeps whatever it does not evict loses only what
\* had expired by the thread's own stamp.
LEMMA LosesOnlyExpired ==
  ASSUME TypeOK, NEW t \in Threads, pc'[t] # pc[t],
         \A k \in TaskIds : Evicted(stamp[t])[k] # None =>
           ledger'[k] # None /\ ledger'[k].total >= Evicted(stamp[t])[k].total,
         ledger' \in [TaskIds -> EntryType \cup {None}]
  PROVE  UsageKept
  <1> SUFFICES ASSUME NEW k \in TaskIds, ledger[k] # None,
                      ledger'[k] = None \/ ledger'[k].total < ledger[k].total
               PROVE  stamp[t] > ledger[k].updatedAt + MODEL_USAGE_TTL
    BY DEF UsageKept
  <1>1. Evicted(stamp[t])[k] \in {None, ledger[k]} /\ stamp[t] \in 0..MaxNow
    BY EvictedType DEF TypeOK
  <1>2. Evicted(stamp[t])[k] = None
    <2>1. SUFFICES ASSUME Evicted(stamp[t])[k] # None PROVE FALSE
      OBVIOUS
    <2>2. ledger'[k] # None /\ ledger'[k].total >= ledger[k].total
      BY <1>1, <2>1
    <2>3. ledger[k] \in EntryType /\ ledger'[k] \in EntryType
      BY <2>2 DEF TypeOK
    <2>4. ledger[k].total \in Int /\ ledger'[k].total \in Int
      BY <2>3, UsageAssumption DEF EntryType, Tokens
    <2> QED BY <2>2, <2>4
  <1> QED BY <1>1, <1>2, EvictionIsExpiry

\* Reading drops what the stamp evicts and nothing else.
LEMMA ReadKeeps ==
  ASSUME TypeOK, NEW t \in Threads, ReadReport(t)
  PROVE  \A k \in TaskIds : Evicted(stamp[t])[k] # None =>
           ledger'[k] # None /\ ledger'[k].total >= Evicted(stamp[t])[k].total
  <1> DEFINE entries == Evicted(stamp[t])
  <1>1. entries \in [TaskIds -> EntryType \cup {None}] /\ ledger' = entries
    BY EvictedType DEF ReadReport
  <1> HIDE DEF entries
  <1>2. \A k \in TaskIds : entries[k] # None => entries[k].total \in Int
    BY <1>1, UsageAssumption DEF EntryType, Tokens
  <1>3. \A k \in TaskIds : entries[k] # None =>
          ledger'[k] # None /\ ledger'[k].total >= entries[k].total
    BY <1>1, <1>2
  <1> QED BY <1>3 DEF entries

LEMMA KeptStep == TypeOK /\ TypeOK' /\ [Next]_vars => UsageKept
  <1> SUFFICES ASSUME TypeOK, TypeOK', [Next]_vars PROVE UsageKept
    OBVIOUS
  <1>t. ledger' \in [TaskIds -> EntryType \cup {None}]
    BY DEF TypeOK
  <1>0. ASSUME UNCHANGED ledger PROVE UsageKept
    <2>1. \A k \in TaskIds : ledger[k] # None => ledger[k].total \in Int
      BY UsageAssumption DEF TypeOK, EntryType, Tokens
    <2> QED BY <1>0, <2>1 DEF UsageKept
  <1>1. ASSUME NEW t \in Threads, NEW client \in Clients,
               NEW explicit \in TaskIds \cup {None}, NEW u \in Usages,
               BeginRecord(t, client, explicit, u)
        PROVE  UsageKept
    BY <1>0, <1>1 DEF BeginRecord, Enter
  <1>2. ASSUME NEW t \in Threads, NEW client \in Clients,
               NEW explicit \in TaskIds \cup {None}, BeginReport(t, client, explicit)
        PROVE  UsageKept
    BY <1>0, <1>2 DEF BeginReport, Enter
  <1>3. ASSUME NEW t \in Threads, NEW client \in Clients,
               NEW explicit \in TaskIds \cup {None}, Clear(t, client, explicit)
        PROVE  UsageKept
    BY <1>3 DEF Clear, UsageKept
  <1>4. ASSUME NEW t \in Threads, FinishRecord(t) PROVE UsageKept
    <2>1. pc'[t] # pc[t]
      BY <1>4 DEF FinishRecord, Leave, TypeOK
    <2> QED BY <1>t, <1>4, <2>1, RecordKeeps, LosesOnlyExpired
  <1>5. ASSUME NEW t \in Threads, FinishReport(t) PROVE UsageKept
    <2>1. pc'[t] # pc[t] /\ ReadReport(t)
      BY <1>5 DEF FinishReport, Leave, TypeOK
    <2> QED BY <1>t, <2>1, ReadKeeps, LosesOnlyExpired
  <1>6. ASSUME NEW t \in Threads, AskBudget(t) PROVE UsageKept
    <2>1. pc'[t] # pc[t] /\ ReadReport(t)
      BY <1>6 DEF AskBudget, TypeOK
    <2> QED BY <1>t, <2>1, ReadKeeps, LosesOnlyExpired
  <1>7. ASSUME NEW t \in Threads, BudgetAnswered(t) PROVE UsageKept
    BY <1>0, <1>7 DEF BudgetAnswered
  <1>8. CASE Tick \/ UNCHANGED vars
    BY <1>0, <1>8 DEF Tick, vars
  <1> QED BY <1>1, <1>2, <1>3, <1>4, <1>5, <1>6, <1>7, <1>8 DEF Next

ReportAlive ==
  \A t \in Threads :
    pc[t] \in {"reporting", "budgeting"} /\ pc'[t] # pc[t] /\ report'[t] # None =>
      stamp[t] <= ledger[task[t]].updatedAt + MODEL_USAGE_TTL

\* What is read after the eviction had not expired by the reader's stamp.
LEMMA ReadIsAlive ==
  ASSUME TypeOK, NEW t \in Threads, ReadReport(t), report'[t] # None
  PROVE  stamp[t] <= ledger[task[t]].updatedAt + MODEL_USAGE_TTL
  <1>1. task[t] \in TaskIds /\ stamp[t] \in 0..MaxNow
    BY DEF TypeOK
  <1>2. Evicted(stamp[t])[task[t]] # None
    BY DEF ReadReport, TypeOK
  <1>3. ledger[task[t]] # None
    BY <1>1, <1>2, EvictedType
  <1>4. ~ (stamp[t] > ledger[task[t]].updatedAt + MODEL_USAGE_TTL)
    BY <1>1, <1>2, <1>3, EvictionIsExpiry
  <1>5. ledger[task[t]].updatedAt \in 0..MaxNow
    BY <1>1, <1>3 DEF TypeOK, EntryType
  <1> QED BY <1>1, <1>4, <1>5, UsageAssumption

LEMMA AliveStep == TypeOK /\ [Next]_vars => ReportAlive
  <1> SUFFICES ASSUME TypeOK, [Next]_vars, NEW t \in Threads,
                      pc[t] \in {"reporting", "budgeting"}, pc'[t] # pc[t],
                      report'[t] # None
               PROVE  stamp[t] <= ledger[task[t]].updatedAt + MODEL_USAGE_TTL
    BY DEF ReportAlive
  <1>1. ReadReport(t)
    <2>1. ASSUME NEW s \in Threads, s # t,
                 \/ \E next \in {"recording", "reporting", "budgeting", "asking"} :
                      pc' = [pc EXCEPT ![s] = next]
                 \/ Leave(s)
          PROVE  FALSE
      BY <2>1 DEF Leave, TypeOK
    <2>2. ASSUME NEW s \in Threads, NEW client \in Clients,
                 NEW explicit \in TaskIds \cup {None},
                 \/ \E u \in Usages : BeginRecord(s, client, explicit, u)
                 \/ BeginReport(s, client, explicit)
                 \/ Clear(s, client, explicit)
          PROVE  FALSE
      BY <2>1, <2>2 DEF BeginRecord, BeginReport, Clear, Enter
    <2>3. ASSUME NEW s \in Threads, FinishRecord(s) \/ BudgetAnswered(s) PROVE FALSE
      BY <2>1, <2>3 DEF FinishRecord, BudgetAnswered
    <2>4. ASSUME NEW s \in Threads, FinishReport(s) \/ AskBudget(s) PROVE ReadReport(t)
      BY <2>1, <2>4 DEF FinishReport, AskBudget
    <2> QED BY <2>2, <2>3, <2>4 DEF Next, Tick, vars
  <1> QED BY <1>1, ReadIsAlive

-----------------------------------------------------------------------------
\* The inductive invariant of the ledger.
THEOREM LedgerInvariant == Spec => []Inv
  <1> QED BY InvInit, InvStep, PTL DEF Spec

\* Counters never leave the width of their type, for any sequence of records,
\* refusals, evictions and clears of any number of threads.
THEOREM LedgerTypeCorrect == Spec => []TypeOK
  <1>1. Inv => TypeOK
    BY DEF Inv
  <1> QED BY <1>1, LedgerInvariant, PTL

\* No interleaving leaves a half-added usage behind: totals cover their parts.
THEOREM TotalsCoverParts == Spec => []TotalCoversParts
  <1>1. Inv => TotalCoversParts
    BY DEF Inv, CoverInv, SoundUsages, Covers, TotalCoversParts
  <1> QED BY <1>1, LedgerInvariant, PTL

\* A budget check sends the server at least what the task had used when it
\* began, whatever other threads record, evict or clear meanwhile.
THEOREM BudgetsCountPriorUsage == Spec => []BudgetCountsPriorUsage
  <1>1. Init => FloorInv
    BY DEF Init, FloorInv, FloorOf
  <1>2. FloorInv => BudgetCountsPriorUsage
    BY DEF FloorInv, FloorOf, BudgetCountsPriorUsage
  <1> QED BY <1>1, <1>2, FloorStep, LedgerTypeCorrect, PTL DEF Spec

\* Whatever threads record, refuse or read, a task loses usage only to a clear
\* or to a call by whose clock reading the entry had expired.
THEOREM UsageNeverLost == Spec => UsageIsNeverLost
  <1>1. TypeOK /\ TypeOK' /\ [Next]_vars => [UsageKept]_vars
    BY KeptStep
  <1> QED BY <1>1, LedgerTypeCorrect, PTL DEF Spec, UsageIsNeverLost, UsageKept

\* No report or budget check returns an entry that had expired when the call
\* read the clock.
THEOREM ReportsStayAlive == Spec => ReportsAreAlive
  <1>1. TypeOK /\ [Next]_vars => [ReportAlive]_vars
    BY AliveStep
  <1> QED BY <1>1, LedgerTypeCorrect, PTL DEF Spec, ReportsAreAlive, ReportAlive

-----------------------------------------------------------------------------
(* Sets of numbers: least elements, and functions defined by recursion.      *)

\* Every set of natural numbers has a least element.
LEMMA LeastNatural ==
  ASSUME NEW T \in SUBSET Nat, T # {}
  PROVE  \E n \in T : \A m \in T : ~(m < n)
<1>1. \E n \in T : \A m \in T : ~(<<m, n>> \in OpToRel(<, Nat))
  BY NatLessThanWellFounded, WFMin
<1> QED
  BY <1>1 DEF OpToRel

\* A set that holds a number once it holds all smaller ones holds them all.
LEMMA Descent ==
  ASSUME NEW G, \A n \in Nat : (\A m \in Nat : m < n => m \in G) => n \in G
  PROVE  Nat \subseteq G
<1> DEFINE T == {n \in Nat : n \notin G}
<1>1. SUFFICES ASSUME T # {} PROVE FALSE
  OBVIOUS
<1>2. PICK n \in T : \A m \in T : ~(m < n)
  BY <1>1, LeastNatural
<1> QED
  BY <1>2

\* next leads each argument outside ends to one of lower rank.
Descends(X, A, rank, next, ends, base, step) ==
  /\ rank \in [X -> Nat] /\ next \in [X -> X]
  /\ ends \in SUBSET X
  /\ base \in [X -> A] /\ step \in [X \X A -> A]
  /\ \A x \in X \ ends : rank[next[x]] < rank[x]

Solves(f, X, A, next, ends, base, step) ==
  /\ f \in [X -> A]
  /\ \A x \in X : f[x] = IF x \in ends THEN base[x] ELSE step[<<x, f[next[x]]>>]

\* Recursion that descends in rank defines a function.
LEMMA RecursionDefines ==
  ASSUME NEW X, NEW A, NEW rank, NEW next, NEW ends, NEW base, NEW step,
         Descends(X, A, rank, next, ends, base, step)
  PROVE  \E f : Solves(f, X, A, next, ends, base, step)
<1>0. /\ rank \in [X -> Nat] /\ next \in [X -> X]
      /\ ends \in SUBSET X
      /\ base \in [X -> A] /\ step \in [X \X A -> A]
      /\ \A x \in X \ ends : rank[next[x]] < rank[x]
  BY DEF Descends
<1> USE <1>0
<1> DEFINE Body(g, x) == IF x \in ends THEN base[x] ELSE step[<<x, g[next[x]]>>]
           Good(n) == {g \in [X -> A] : \A x \in X : rank[x] < n => g[x] = Body(g, x)}
           Defined == {n \in Nat : Good(n) # {}}
           Unique == {n \in Nat : \A g, h \in Good(n + 1) : \A x \in X :
                                    rank[x] = n => g[x] = h[x]}
<1>1. Nat \subseteq Defined
  <2>1. ASSUME NEW n \in Nat, \A m \in Nat : m < n => m \in Defined PROVE n \in Defined
    <3>1. CASE n = 0
      <4>1. \A x \in X : ~(rank[x] < 0)
        OBVIOUS
      <4>2. base \in Good(n)
        BY <3>1, <4>1
      <4> QED
        BY <4>2
    <3>2. CASE n # 0
      <4>1. n - 1 \in Nat /\ n - 1 < n
        BY <3>2
      <4>2. PICK g \in Good(n - 1) : TRUE
        BY <2>1, <4>1
      <4> DEFINE h == [x \in X |-> Body(g, x)]
      <4>3. h \in [X -> A]
        BY <4>2
      <4>4. ASSUME NEW x \in X, rank[x] < n PROVE h[x] = Body(h, x)
        <5>1. CASE x \in ends
          BY <5>1
        <5>2. CASE x \notin ends
          <6>1. next[x] \in X /\ rank[next[x]] \in Nat /\ rank[x] \in Nat /\ rank[next[x]] < rank[x]
            BY <5>2
          <6>2. rank[next[x]] < n - 1
            BY <6>1, <4>4, <4>1
          <6>3. g[next[x]] = Body(g, next[x])
            BY <4>2, <6>1, <6>2
          <6>4. h[next[x]] = g[next[x]]
            BY <6>1, <6>3
          <6> QED
            BY <6>4, <5>2
        <5> QED
          BY <5>1, <5>2
      <4>5. h \in Good(n)
        BY <4>3, <4>4
      <4> QED
        BY <4>5
    <3> QED
      BY <3>1, <3>2
  <2> HIDE DEF Defined
  <2> QED
    BY <2>1, Descent
<1>2. ASSUME NEW k \in Nat, NEW n \in Nat, n <= k PROVE Good(k) \subseteq Good(n)
  <2>1. \A x \in X : rank[x] \in Nat /\ (rank[x] < n => rank[x] < k)
    BY <1>2
  <2> QED
    BY <2>1
<1>3. ASSUME NEW n \in Nat, \A m \in Nat : m < n => m \in Unique PROVE n \in Unique
  <2> SUFFICES ASSUME NEW g \in Good(n + 1), NEW h \in Good(n + 1), NEW x \in X, rank[x] = n
               PROVE  g[x] = h[x]
    OBVIOUS
  <2>1. g[x] = Body(g, x) /\ h[x] = Body(h, x)
    OBVIOUS
  <2>2. CASE x \in ends
    BY <2>1, <2>2
  <2>3. CASE x \notin ends
    <3>1. next[x] \in X /\ rank[next[x]] \in Nat /\ rank[next[x]] < n
      BY <2>3
    <3>2. g \in Good(rank[next[x]] + 1) /\ h \in Good(rank[next[x]] + 1)
      <4>1. rank[next[x]] + 1 \in Nat /\ n + 1 \in Nat /\ rank[next[x]] + 1 <= n + 1
        BY <3>1
      <4> HIDE DEF Good
      <4> QED
        BY <4>1, <1>2
    <3>3. g[next[x]] = h[next[x]]
      BY <3>1, <3>2, <1>3
    <3> QED
      BY <2>1, <2>3, <3>3
  <2> QED
    BY <2>2, <2>3
<1>4. Nat \subseteq Unique
  <2> HIDE DEF Unique
  <2> QED
    BY <1>3, Descent
<1> DEFINE pick == [n \in Nat |-> CHOOSE g \in Good(n) : TRUE]
           f == [x \in X |-> pick[rank[x] + 1][x]]
<1>5. \A n \in Nat : pick[n] \in Good(n)
  BY <1>1
<1>6. f \in [X -> A]
  <2>1. \A x \in X : rank[x] + 1 \in Nat
    OBVIOUS
  <2> QED
    BY <1>5, <2>1
<1>7. ASSUME NEW x \in X PROVE f[x] = Body(f, x)
  <2>1. rank[x] \in Nat /\ rank[x] + 1 \in Nat
    OBVIOUS
  <2> DEFINE g == pick[rank[x] + 1]
  <2>2. g \in Good(rank[x] + 1)
    BY <1>5, <2>1
  <2>3. f[x] = g[x] /\ g[x] = Body(g, x)
    BY <2>1, <2>2
  <2>4. CASE x \in ends
    BY <2>3, <2>4
  <2>5. CASE x \notin ends
    <3>1. next[x] \in X /\ rank[next[x]] \in Nat /\ rank[next[x]] < rank[x]
      BY <2>5
    <3> DEFINE m == rank[next[x]]
    <3>2. g \in Good(m + 1) /\ pick[m + 1] \in Good(m + 1)
      <4>1. m + 1 \in Nat /\ m + 1 <= rank[x] + 1
        BY <3>1, <2>1
      <4> HIDE DEF Good, pick, m
      <4> QED
        BY <4>1, <1>2, <1>5, <2>2, <2>1
    <3>3. g[next[x]] = pick[m + 1][next[x]]
      <4>1. m \in Unique
        BY <1>4, <3>1
      <4> HIDE DEF g, pick
      <4> QED
        BY <4>1, <3>1, <3>2
    <3>4. f[next[x]] = g[next[x]]
      BY <3>1, <3>3
    <3> HIDE DEF f, g, m
    <3> QED
      BY <2>3, <2>5, <3>4
  <2> QED
    BY <2>4, <2>5
<1> HIDE DEF f
<1> QED
  BY <1>6, <1>7 DEF Solves

-----------------------------------------------------------------------------
(* The recursive functions of Spend are functions, with the values that    *)
(* their definitions state.                                                *)

\* The recursion of power defines a function to the positive numbers.
LEMMA PowerIs ==
  /\ power \in [Nat -> Nat]
  /\ power[0] = 1
  /\ \A n \in Nat : power[n + 1] = Base * power[n] /\ power[n] > 0
<1> DEFINE next == [n \in Nat |-> IF n = 0 THEN 0 ELSE n - 1]
           rank == [n \in Nat |-> n]
           base == [n \in Nat |-> 1]
           step == [z \in Nat \X Nat |-> Base * z[2]]
<1>1. Descends(Nat, Nat, rank, next, {0}, base, step)
  BY SpendAssumption DEF Descends
<1>2. PICK f : Solves(f, Nat, Nat, next, {0}, base, step)
  <2> HIDE DEF next, rank, base, step
  <2> QED
    BY <1>1, RecursionDefines
<1>3. f \in [Nat -> Nat]
  BY <1>2 DEF Solves
<1>4. ASSUME NEW n \in Nat PROVE f[n] = IF n = 0 THEN 1 ELSE Base * f[n - 1]
  <2>1. CASE n = 0
    BY <2>1, <1>2 DEF Solves
  <2>2. CASE n # 0
    <3>1. next[n] = n - 1 /\ n - 1 \in Nat
      BY <2>2
    <3>2. f[n] = step[<<n, f[n - 1]>>]
      BY <1>2, <2>2, <3>1 DEF Solves
    <3>3. <<n, f[n - 1]>> \in Nat \X Nat
      BY <1>3, <3>1
    <3> QED
      BY <2>2, <3>2, <3>3
  <2> QED
    BY <2>1, <2>2
<1>5. f = [n \in Nat |-> IF n = 0 THEN 1 ELSE Base * f[n - 1]]
  BY <1>3, <1>4
<1>6. power = [n \in Nat |-> IF n = 0 THEN 1 ELSE Base * power[n - 1]]
  BY <1>5 DEF power
<1> HIDE DEF next, rank, base, step
<1>7. \A n \in Nat : power[n + 1] = Base * power[n]
  BY <1>6
<1>8. power[0] = 1
  BY <1>6
<1>9. Nat \subseteq {n \in Nat : power[n] \in Nat /\ power[n] > 0}
  <2>1. ASSUME NEW n \in Nat, power[n] \in Nat, power[n] > 0
        PROVE  Base * power[n] \in Nat /\ Base * power[n] > 0
    BY <2>1, SpendAssumption
  <2> DEFINE G == {n \in Nat : power[n] \in Nat /\ power[n] > 0}
  <2>2. ASSUME NEW n \in Nat, \A m \in Nat : m < n => m \in G PROVE n \in G
    <3>1. CASE n = 0
      BY <3>1, <1>8
    <3>2. CASE n # 0
      <4>1. n - 1 \in G /\ (n - 1) + 1 = n
        BY <2>2, <3>2
      <4> QED
        BY <4>1, <2>1, <1>7
    <3> QED
      BY <3>1, <3>2
  <2> HIDE DEF G
  <2>3. Nat \subseteq G
    BY <2>2, Descent
  <2> QED
    BY <2>3 DEF G
<1> QED
  BY <1>6, <1>7, <1>8, <1>9

\* The initial part of a sequence, and the element it leaves out.
LEMMA InitialIs ==
  ASSUME NEW S, NEW s \in Seq(S), s # <<>>
  PROVE  /\ Initial(s) \in Seq(S)
         /\ Len(s) \in Nat /\ Len(s) > 0
         /\ Len(Initial(s)) = Len(s) - 1
         /\ s[Len(s)] \in S
         /\ \A i \in 1..Len(s) - 1 : Initial(s)[i] = s[i]
<1>1. Len(s) \in Nat /\ Len(s) > 0
  OBVIOUS
<1>2. \A i \in 1..Len(s) : s[i] \in S
  OBVIOUS
<1>3. Initial(s) = [i \in 1..Len(s) - 1 |-> s[i]]
  BY <1>1 DEF Initial
<1>4. Initial(s) \in Seq(S) /\ Len(Initial(s)) = Len(s) - 1
  BY <1>1, <1>2, <1>3
<1> QED
  BY <1>1, <1>2, <1>3, <1>4

\* What a sequence has once its initial part has it, every sequence has.
LEMMA SequenceDescent ==
  ASSUME NEW S, NEW G, \A s \in Seq(S) : (s # <<>> => Initial(s) \in G) => s \in G
  PROVE  Seq(S) \subseteq G
<1> DEFINE N == {n \in Nat : \A s \in Seq(S) : Len(s) = n => s \in G}
<1>1. ASSUME NEW n \in Nat, \A m \in Nat : m < n => m \in N PROVE n \in N
  <2> SUFFICES ASSUME NEW s \in Seq(S), Len(s) = n PROVE s \in G
    OBVIOUS
  <2>1. ASSUME s # <<>> PROVE Initial(s) \in G
    <3>1. /\ Initial(s) \in Seq(S) /\ Len(Initial(s)) = n - 1
          /\ n - 1 \in Nat /\ n - 1 < n
      BY <2>1, InitialIs
    <3>2. n - 1 \in N
      BY <3>1, <1>1
    <3> QED
      BY <3>1, <3>2
  <2> QED
    BY <2>1
<1>2. Nat \subseteq N
  <2> HIDE DEF N
  <2> QED
    BY <1>1, Descent
<1> QED
  BY <1>2

\* The recursion of number defines a function to the integers.
LEMMA NumberIs ==
  /\ number \in [Numerals -> Int]
  /\ number[<<>>] = 0
  /\ \A s \in Numerals : s # <<>> => number[s] = Base * number[Initial(s)] + s[Len(s)]
<1> DEFINE next == [s \in Numerals |-> IF s = <<>> THEN s ELSE Initial(s)]
           rank == [s \in Numerals |-> Len(s)]
           base == [s \in Numerals |-> 0]
           step == [z \in Numerals \X Int |->
                      Base * z[2] + IF z[1] = <<>> THEN 0 ELSE z[1][Len(z[1])]]
<1>1. ASSUME NEW s \in Numerals, s # <<>>
      PROVE  /\ Initial(s) \in Numerals /\ Len(Initial(s)) < Len(s)
             /\ s[Len(s)] \in Int
  BY <1>1, InitialIs, SpendAssumption DEF Numerals, Digits, Other
<1>2. Descends(Numerals, Int, rank, next, {<<>>}, base, step)
  <2>1. next \in [Numerals -> Numerals]
    BY <1>1
  <2>2. rank \in [Numerals -> Nat]
    BY DEF Numerals
  <2>3. step \in [Numerals \X Int -> Int]
    <3>1. ASSUME NEW z \in Numerals \X Int
          PROVE  Base * z[2] + (IF z[1] = <<>> THEN 0 ELSE z[1][Len(z[1])]) \in Int
      BY <1>1, SpendAssumption
    <3> QED
      BY <3>1
  <2>4. <<>> \in Numerals
    BY DEF Numerals
  <2>5. \A s \in Numerals \ {<<>>} : rank[next[s]] < rank[s]
    BY <1>1
  <2>6. base \in [Numerals -> Int]
    OBVIOUS
  <2> HIDE DEF next, rank, base, step
  <2> QED
    BY <2>1, <2>2, <2>3, <2>4, <2>5, <2>6 DEF Descends
<1>3. PICK f : Solves(f, Numerals, Int, next, {<<>>}, base, step)
  <2> HIDE DEF next, rank, base, step
  <2> QED
    BY <1>2, RecursionDefines
<1>4. f \in [Numerals -> Int]
  BY <1>3 DEF Solves
<1>5. ASSUME NEW s \in Numerals
      PROVE  f[s] = IF s = <<>> THEN 0 ELSE Base * f[Initial(s)] + s[Len(s)]
  <2>1. CASE s = <<>>
    BY <2>1, <1>3 DEF Solves
  <2>2. CASE s # <<>>
    <3>1. next[s] = Initial(s) /\ Initial(s) \in Numerals
      BY <2>2, <1>1
    <3>2. f[s] = step[<<s, f[Initial(s)]>>]
      BY <1>3, <2>2, <3>1 DEF Solves
    <3>3. <<s, f[Initial(s)]>> \in Numerals \X Int
      BY <1>4, <3>1
    <3> QED
      BY <2>2, <3>2, <3>3
  <2> QED
    BY <2>1, <2>2
<1>6. f = [s \in Numerals |-> IF s = <<>> THEN 0 ELSE Base * f[Initial(s)] + s[Len(s)]]
  BY <1>4, <1>5
<1>7. number = [s \in Numerals |-> IF s = <<>> THEN 0 ELSE Base * number[Initial(s)] + s[Len(s)]]
  BY <1>6 DEF number
<1> HIDE DEF next, rank, base, step
<1>8. Numerals \subseteq {s \in Numerals : number[s] \in Int}
  <2> DEFINE G == {s \in Numerals : number[s] \in Int}
  <2>1. ASSUME NEW s \in Numerals, s # <<>> => Initial(s) \in G PROVE s \in G
    <3>1. CASE s = <<>>
      BY <3>1, <1>7
    <3>2. CASE s # <<>>
      <4>1. number[s] = Base * number[Initial(s)] + s[Len(s)]
        BY <3>2, <1>7
      <4>2. number[Initial(s)] \in Int /\ s[Len(s)] \in Int
        BY <3>2, <2>1, <1>1
      <4> QED
        BY <4>1, <4>2, SpendAssumption
    <3> QED
      BY <3>1, <3>2
  <2> HIDE DEF G
  <2>2. Numerals \subseteq G
    BY <2>1, SequenceDescent DEF Numerals
  <2> QED
    BY <2>2 DEF G
<1>9. <<>> \in Numerals
  BY DEF Numerals
<1> QED
  BY <1>7, <1>8, <1>9

\* The parts of a text of numerals.
LEMMA NumeralParts ==
  ASSUME NEW s \in Numerals, s # <<>>
  PROVE  /\ Initial(s) \in Numerals /\ Len(Initial(s)) = Len(s) - 1
         /\ s[Len(s)] \in Int
         /\ Len(s) \in Nat /\ Len(s) > 0
BY InitialIs, SpendAssumption DEF Numerals, Digits, Other

\* The empty text of numerals.
LEMMA EmptyNumerals == <<>> \in Numerals /\ Len(<<>>) = 0
BY DEF Numerals

\* The recursion of trim_end defines a function on the texts of numerals.
LEMMA TrimIs ==
  /\ trim_end \in [Numerals -> Numerals]
  /\ \A s \in Numerals :
       trim_end[s] = IF s = <<>> THEN s ELSE IF s[Len(s)] # 0 THEN s ELSE trim_end[Initial(s)]
<1> DEFINE next == [s \in Numerals |-> IF s = <<>> THEN s ELSE Initial(s)]
           rank == [s \in Numerals |-> Len(s)]
           base == [s \in Numerals |-> s]
           step == [z \in Numerals \X Numerals |-> z[2]]
           ends == {s \in Numerals : s = <<>> \/ s[Len(s)] # 0}
           Def(g, s) == IF s = <<>> THEN s ELSE IF s[Len(s)] # 0 THEN s ELSE g[Initial(s)]
<1>1. Descends(Numerals, Numerals, rank, next, ends, base, step)
  <2>1. next \in [Numerals -> Numerals]
    BY NumeralParts
  <2>2. rank \in [Numerals -> Nat]
    BY DEF Numerals
  <2>3. step \in [Numerals \X Numerals -> Numerals] /\ base \in [Numerals -> Numerals]
    OBVIOUS
  <2>4. \A s \in Numerals \ ends : rank[next[s]] < rank[s]
    BY NumeralParts
  <2>5. ends \in SUBSET Numerals
    OBVIOUS
  <2> HIDE DEF next, rank, base, step, ends
  <2> QED
    BY <2>1, <2>2, <2>3, <2>4, <2>5 DEF Descends
<1>2. PICK f : Solves(f, Numerals, Numerals, next, ends, base, step)
  <2> HIDE DEF next, rank, base, step, ends
  <2> QED
    BY <1>1, RecursionDefines
<1>3. f \in [Numerals -> Numerals]
  BY <1>2 DEF Solves
<1>4. ASSUME NEW s \in Numerals
      PROVE  f[s] = Def(f, s)
  <2>1. CASE s \in ends
    BY <2>1, <1>2 DEF Solves
  <2>2. CASE s \notin ends
    <3>1. next[s] = Initial(s) /\ Initial(s) \in Numerals
      BY <2>2, NumeralParts
    <3>2. f[s] = step[<<s, f[Initial(s)]>>]
      BY <1>2, <2>2, <3>1 DEF Solves
    <3>3. <<s, f[Initial(s)]>> \in Numerals \X Numerals
      BY <1>3, <3>1
    <3> QED
      BY <2>2, <3>2, <3>3
  <2> QED
    BY <2>1, <2>2
<1>5. f = [s \in Numerals |-> Def(f, s)]
  <2> HIDE DEF Def
  <2> QED
    BY <1>3, <1>4
<1>6. trim_end = [s \in Numerals |-> Def(trim_end, s)]
  BY <1>5 DEF trim_end
<1> HIDE DEF next, rank, base, step, ends
<1>7. ASSUME NEW s \in Numerals
      PROVE  trim_end[s] = Def(trim_end, s)
  <2> HIDE DEF Def
  <2> QED
    BY <1>6
<1>8. Numerals \subseteq {s \in Numerals : trim_end[s] \in Numerals}
  <2> DEFINE G == {s \in Numerals : trim_end[s] \in Numerals}
  <2>1. ASSUME NEW s \in Numerals, s # <<>> => Initial(s) \in G PROVE s \in G
    BY <2>1, <1>7
  <2> HIDE DEF G
  <2>2. Numerals \subseteq G
    BY <2>1, SequenceDescent DEF Numerals
  <2> QED
    BY <2>2 DEF G
<1>9. trim_end = [s \in Numerals |-> trim_end[s]]
  BY <1>6
<1> QED
  BY <1>7, <1>8, <1>9

\* The recursion of to_string defines a function to texts of digits.
LEMMA ToStringIs ==
  /\ to_string \in [Nat -> Seq(Digits)]
  /\ \A n \in Nat :
       to_string[n] = IF n < Base THEN <<n>> ELSE Append(to_string[n \div Base], n % Base)
<1> DEFINE next == [n \in Nat |-> n \div Base]
           rank == [n \in Nat |-> n]
           base == [n \in Nat |-> IF n < Base THEN <<n>> ELSE <<>>]
           step == [z \in Nat \X Seq(Digits) |-> Append(z[2], z[1] % Base)]
           ends == {n \in Nat : n < Base}
           Def(g, n) == IF n < Base THEN <<n>> ELSE Append(g[n \div Base], n % Base)
<1> USE SpendAssumption
<1>1. ASSUME NEW n \in Nat
      PROVE  /\ n \div Base \in Nat /\ n % Base \in Digits
             /\ n >= Base => n \div Base < n
             /\ n < Base => n \in Digits
  BY DEF Digits
<1>2. Descends(Nat, Seq(Digits), rank, next, ends, base, step)
  <2>1. next \in [Nat -> Nat] /\ rank \in [Nat -> Nat] /\ ends \in SUBSET Nat
    BY <1>1
  <2>2. base \in [Nat -> Seq(Digits)]
    BY <1>1
  <2>3. step \in [Nat \X Seq(Digits) -> Seq(Digits)]
    <3>1. ASSUME NEW z \in Nat \X Seq(Digits) PROVE Append(z[2], z[1] % Base) \in Seq(Digits)
      <4>1. z[2] \in Seq(Digits) /\ z[1] % Base \in Digits
        BY <1>1
      <4> QED
        BY <4>1
    <3> QED
      BY <3>1
  <2>4. \A n \in Nat \ ends : rank[next[n]] < rank[n]
    BY <1>1
  <2> HIDE DEF next, rank, base, step, ends
  <2> QED
    BY <2>1, <2>2, <2>3, <2>4 DEF Descends
<1>3. PICK f : Solves(f, Nat, Seq(Digits), next, ends, base, step)
  <2> HIDE DEF next, rank, base, step, ends
  <2> QED
    BY <1>2, RecursionDefines
<1>4. f \in [Nat -> Seq(Digits)]
  BY <1>3 DEF Solves
<1>5. ASSUME NEW n \in Nat
      PROVE  f[n] = Def(f, n)
  <2>1. CASE n \in ends
    BY <2>1, <1>3 DEF Solves
  <2>2. CASE n \notin ends
    <3>1. next[n] = n \div Base /\ n \div Base \in Nat
      BY <1>1
    <3>2. f[n] = step[<<n, f[n \div Base]>>]
      BY <1>3, <2>2, <3>1 DEF Solves
    <3>3. <<n, f[n \div Base]>> \in Nat \X Seq(Digits)
      BY <1>4, <3>1
    <3> QED
      BY <2>2, <3>2, <3>3
  <2> QED
    BY <2>1, <2>2
<1>6. f = [n \in Nat |-> Def(f, n)]
  <2> HIDE DEF Def
  <2> QED
    BY <1>4, <1>5
<1>7. to_string = [n \in Nat |-> Def(to_string, n)]
  BY <1>6 DEF to_string
<1> HIDE DEF next, rank, base, step, ends
<1>8. ASSUME NEW n \in Nat
      PROVE  to_string[n] = Def(to_string, n)
  <2> HIDE DEF Def
  <2> QED
    BY <1>7
<1>9. Nat \subseteq {n \in Nat : to_string[n] \in Seq(Digits)}
  <2> DEFINE G == {n \in Nat : to_string[n] \in Seq(Digits)}
  <2>1. ASSUME NEW n \in Nat, \A m \in Nat : m < n => m \in G PROVE n \in G
    <3>1. CASE n < Base
      <4>1. to_string[n] = <<n>> /\ n \in Digits
        BY <3>1, <1>8, <1>1
      <4>2. <<n>> \in Seq(Digits)
        BY <4>1
      <4>3. to_string[n] \in Seq(Digits)
        BY <4>1, <4>2
      <4> QED
        BY <4>3
    <3>2. CASE ~(n < Base)
      <4>1. n \div Base \in G /\ n % Base \in Digits
        <5>1. n \div Base \in Nat /\ n % Base \in Digits /\ n \div Base < n
          BY <3>2, <1>1
        <5> HIDE DEF G
        <5> QED
          BY <5>1, <2>1
      <4>2. to_string[n] = Append(to_string[n \div Base], n % Base)
        BY <3>2, <1>8
      <4>3. to_string[n \div Base] \in Seq(Digits)
        BY <4>1
      <4>4. to_string[n] \in Seq(Digits)
        BY <4>1, <4>2, <4>3
      <4> QED
        BY <4>4
    <3> QED
      BY <3>1, <3>2
  <2> HIDE DEF G
  <2>2. Nat \subseteq G
    BY <2>1, Descent
  <2> QED
    BY <2>2 DEF G
<1>10. to_string = [n \in Nat |-> to_string[n]]
  BY <1>7
<1> QED
  BY <1>8, <1>9, <1>10

\* The recursion of places defines a function to the integers.
LEMMA PlacesIs ==
  /\ places \in [Numerals -> Int]
  /\ places[<<>>] = 0
  /\ \A s \in Numerals : s # <<>> =>
       places[s] = s[1] * power[Len(s) - 1] + places[Tail(s)]
<1> DEFINE next == [s \in Numerals |-> IF s = <<>> THEN s ELSE Tail(s)]
           rank == [s \in Numerals |-> Len(s)]
           base == [s \in Numerals |-> 0]
           step == [z \in Numerals \X Int |->
                      (IF z[1] = <<>> THEN 0 ELSE z[1][1] * power[Len(z[1]) - 1]) + z[2]]
           Def(g, s) == IF s = <<>> THEN 0 ELSE s[1] * power[Len(s) - 1] + g[Tail(s)]
<1>1. ASSUME NEW s \in Numerals, s # <<>>
      PROVE  /\ Tail(s) \in Numerals /\ Len(Tail(s)) = Len(s) - 1 /\ Len(Tail(s)) < Len(s)
             /\ s[1] * power[Len(s) - 1] \in Int
  <2>1. /\ Tail(s) \in Numerals /\ Len(Tail(s)) = Len(s) - 1
        /\ s[1] \in {Other} \cup Digits
        /\ Len(s) - 1 \in Nat
    BY <1>1 DEF Numerals
  <2>2. s[1] \in Int
    BY <2>1, SpendAssumption DEF Digits, Other
  <2>3. power[Len(s) - 1] \in Int
    BY <2>1, PowerIs
  <2> QED
    BY <2>1, <2>2, <2>3
<1>2. Descends(Numerals, Int, rank, next, {<<>>}, base, step)
  <2>1. next \in [Numerals -> Numerals]
    BY <1>1
  <2>2. rank \in [Numerals -> Nat]
    BY DEF Numerals
  <2>3. step \in [Numerals \X Int -> Int]
    <3>1. ASSUME NEW z \in Numerals \X Int
          PROVE  (IF z[1] = <<>> THEN 0 ELSE z[1][1] * power[Len(z[1]) - 1]) + z[2] \in Int
      BY <1>1
    <3> QED
      BY <3>1
  <2>4. \A s \in Numerals \ {<<>>} : rank[next[s]] < rank[s]
    BY <1>1
  <2>5. base \in [Numerals -> Int] /\ <<>> \in Numerals
    BY EmptyNumerals
  <2> HIDE DEF next, rank, base, step
  <2> QED
    BY <2>1, <2>2, <2>3, <2>4, <2>5 DEF Descends
<1>3. PICK f : Solves(f, Numerals, Int, next, {<<>>}, base, step)
  <2> HIDE DEF next, rank, base, step
  <2> QED
    BY <1>2, RecursionDefines
<1>4. f \in [Numerals -> Int]
  BY <1>3 DEF Solves
<1>5. ASSUME NEW s \in Numerals PROVE f[s] = Def(f, s)
  <2>1. CASE s = <<>>
    BY <2>1, <1>3 DEF Solves
  <2>2. CASE s # <<>>
    <3>1. next[s] = Tail(s) /\ Tail(s) \in Numerals
      BY <2>2, <1>1
    <3>2. f[s] = step[<<s, f[Tail(s)]>>]
      BY <1>3, <2>2, <3>1 DEF Solves
    <3>3. <<s, f[Tail(s)]>> \in Numerals \X Int
      BY <1>4, <3>1
    <3> QED
      BY <2>2, <3>2, <3>3
  <2> QED
    BY <2>1, <2>2
<1>6. f = [s \in Numerals |-> Def(f, s)]
  <2> HIDE DEF Def
  <2> QED
    BY <1>4, <1>5
<1>7. places = [s \in Numerals |-> Def(places, s)]
  BY <1>6 DEF places
<1> HIDE DEF next, rank, base, step
<1>8. ASSUME NEW s \in Numerals PROVE places[s] = Def(places, s)
  <2> HIDE DEF Def
  <2> QED
    BY <1>7
<1>9. Nat \subseteq {n \in Nat : \A s \in Numerals : Len(s) = n => places[s] \in Int}
  <2> DEFINE G == {n \in Nat : \A s \in Numerals : Len(s) = n => places[s] \in Int}
  <2>1. ASSUME NEW n \in Nat, \A m \in Nat : m < n => m \in G PROVE n \in G
    <3> SUFFICES ASSUME NEW s \in Numerals, Len(s) = n PROVE places[s] \in Int
      OBVIOUS
    <3>1. CASE s = <<>>
      BY <3>1, <1>8
    <3>2. CASE s # <<>>
      <4>1. /\ Tail(s) \in Numerals /\ Len(Tail(s)) = n - 1 /\ n - 1 \in Nat
            /\ s[1] * power[Len(s) - 1] \in Int
        BY <3>2, <1>1, n > 0 DEF Numerals
      <4>2. places[Tail(s)] \in Int
        <5>1. n - 1 < n
          OBVIOUS
        <5>2. n - 1 \in G
          <6> HIDE DEF G
          <6> QED
            BY <5>1, <4>1, <2>1
        <5> QED
          BY <5>2, <4>1
      <4> QED
        BY <4>1, <4>2, <3>2, <1>8
    <3> QED
      BY <3>1, <3>2
  <2> HIDE DEF G
  <2>2. Nat \subseteq G
    BY <2>1, Descent
  <2> QED
    BY <2>2 DEF G
<1>10. \A s \in Numerals : Len(s) \in Nat
  BY DEF Numerals
<1>11. places = [s \in Numerals |-> places[s]] /\ \A s \in Numerals : places[s] \in Int
  BY <1>7, <1>9, <1>10
<1> QED
  BY <1>8, <1>11, EmptyNumerals


-----------------------------------------------------------------------------
(* Printing and parsing amounts.                                           *)

\* A quotient and a remainder in range are the quotient and the remainder.
LEMMA DivisionUnique ==
  ASSUME NEW d \in Nat, d > 0, NEW q \in Nat, NEW r \in 0..d - 1, NEW n, n = d * q + r
  PROVE  n \div d = q /\ n % d = r
OBVIOUS

\* The laws of arithmetic that the provers need by name.
LEMMA Distribute == \A a, b, c \in Int : a * (b + c) = a * b + a * c /\ (b + c) * a = b * a + c * a
OBVIOUS

\* Products can be regrouped.
LEMMA Associate ==
  \A a, b, c \in Int : /\ a * b \in Int /\ a * b = b * a
                       /\ (a * b) * c = a * (b * c) /\ a * (b * c) = b * (a * c)
OBVIOUS

\* A number is its quotient and its remainder.
LEMMA DivisionIs ==
  ASSUME NEW d \in Nat, d > 0, NEW n \in Nat
  PROVE  n \div d \in Nat /\ n % d \in 0..d - 1 /\ n = d * (n \div d) + (n % d)
<1> DEFINE G == {m \in Nat : \E q \in Nat : \E r \in 0..d - 1 : m = d * q + r}
<1>1. ASSUME NEW m \in Nat, \A k \in Nat : k < m => k \in G PROVE m \in G
  <2>1. CASE m < d
    <3>1. m = d * 0 + m /\ m \in 0..d - 1
      BY <2>1
    <3> QED
      BY <3>1
  <2>2. CASE ~(m < d)
    <3>1. m - d \in Nat /\ m - d < m
      BY <2>2
    <3>2. m - d \in G
      <4> HIDE DEF G
      <4> QED
        BY <3>1, <1>1
    <3>3. PICK q \in Nat, r \in 0..d - 1 : m - d = d * q + r
      BY <3>2
    <3>4. m = d * (q + 1) + r /\ q + 1 \in Nat
      <4>1. d * (q + 1) = d * q + d * 1 /\ d * 1 = d /\ d * q \in Int
        BY Distribute
      <4> QED
        BY <4>1, <3>3
    <3> QED
      BY <3>4
  <2> QED
    BY <2>1, <2>2
<1>2. Nat \subseteq G
  <2> HIDE DEF G
  <2> QED
    BY <1>1, Descent
<1>3. PICK q \in Nat, r \in 0..d - 1 : n = d * q + r
  BY <1>2
<1> QED
  BY <1>3, DivisionUnique

\* Dropping one numeral, then all but k, or all but k + 1 at once.
LEMMA DivisionNested ==
  ASSUME NEW d \in Nat, d > 0, NEW p \in Nat, p > 0, NEW n \in Nat
  PROVE  n \div p = d * (n \div (d * p)) + ((n \div p) % d)
<1> DEFINE a == n \div p
           r == n % p
           b == a \div d
           c == a % d
<1>1. a \in Nat /\ r \in 0..p - 1 /\ n = p * a + r
  BY DivisionIs
<1> HIDE DEF a, r
<1>2. b \in Nat /\ c \in 0..d - 1 /\ a = d * b + c
  BY <1>1, DivisionIs
<1> HIDE DEF b, c
<1>3. n = (d * p) * b + (p * c + r)
  <2>1. p * a = p * (d * b) + p * c
    BY <1>2, Distribute
  <2>2. p * (d * b) = (d * p) * b
    BY <1>2, Associate
  <2>3. (d * p) * b \in Int /\ p * c \in Int
    BY <1>2
  <2> QED
    BY <1>1, <2>1, <2>2, <2>3
<1>4. d * p \in Nat /\ d * p > 0
  OBVIOUS
<1>5. p * c + r \in 0..d * p - 1
  <2>1. p * c \in Nat
    BY <1>2
  <2>2. d * p = p * (c + 1) + p * (d - 1 - c)
    <3>1. c + 1 \in Int /\ d - 1 - c \in Int /\ (c + 1) + (d - 1 - c) = d
      BY <1>2
    <3> QED
      BY <3>1, Distribute, Associate
  <2>3. p * (d - 1 - c) \in Nat /\ p * (c + 1) = p * c + p
    BY <1>2
  <2> QED
    BY <1>1, <2>1, <2>2, <2>3
<1>6. n \div (d * p) = b
  BY <1>2, <1>3, <1>4, <1>5, DivisionUnique
<1> QED
  BY <1>2, <1>6 DEF a, b, c

\* A power of a sum is the product of the powers.
LEMMA PowerOfSum == \A a, b \in Nat : power[a + b] = power[a] * power[b]
<1> SUFFICES ASSUME NEW a \in Nat PROVE \A b \in Nat : power[a + b] = power[a] * power[b]
  OBVIOUS
<1> DEFINE G == {b \in Nat : power[a + b] = power[a] * power[b]}
<1>1. ASSUME NEW b \in Nat, \A m \in Nat : m < b => m \in G PROVE b \in G
  <2>1. CASE b = 0
    <3>1. a + b = a /\ power[b] = 1 /\ power[a] \in Nat
      BY <2>1, PowerIs
    <3> QED
      BY <3>1
  <2>2. CASE b # 0
    <3>1. b - 1 \in Nat /\ b - 1 < b
      BY <2>2
    <3>2. b - 1 \in G
      <4> HIDE DEF G
      <4> QED
        BY <3>1, <1>1
    <3>3. power[b] = Base * power[b - 1] /\ power[a + b] = Base * power[a + (b - 1)]
      <4>1. (b - 1) + 1 = b /\ (a + (b - 1)) + 1 = a + b /\ a + (b - 1) \in Nat
        BY <3>1
      <4> QED
        BY <4>1, <3>1, PowerIs
    <3>4. power[a] \in Int /\ power[b - 1] \in Int /\ Base \in Int
      BY <3>1, PowerIs, SpendAssumption
    <3> QED
      BY <3>2, <3>3, <3>4, Associate
  <2> QED
    BY <2>1, <2>2
<1>2. Nat \subseteq G
  <2> HIDE DEF G
  <2> QED
    BY <1>1, Descent
<1> QED
  BY <1>2

\* Digits are numerals.
LEMMA DigitsAreNumerals == Seq(Digits) \subseteq Numerals
BY DEF Numerals

\* Digits are worth a natural number.
LEMMA DigitsNumber == \A s \in Seq(Digits) : number[s] \in Nat
<1> DEFINE G == {s \in Seq(Digits) : number[s] \in Nat}
<1>1. ASSUME NEW s \in Seq(Digits), s # <<>> => Initial(s) \in G PROVE s \in G
  <2>1. CASE s = <<>>
    BY <2>1, NumberIs
  <2>2. CASE s # <<>>
    <3>1. s[Len(s)] \in Digits /\ s \in Numerals /\ number[Initial(s)] \in Nat
      BY <2>2, <1>1, InitialIs, DigitsAreNumerals
    <3>2. number[s] = Base * number[Initial(s)] + s[Len(s)]
      BY <2>2, <3>1, NumberIs
    <3> QED
      BY <3>1, <3>2, SpendAssumption DEF Digits
  <2> QED
    BY <2>1, <2>2
<1>2. Seq(Digits) \subseteq G
  <2> HIDE DEF G
  <2> QED
    BY <1>1, SequenceDescent
<1> QED
  BY <1>2

\* A printed number reads back as itself and has no leading zero.
LEMMA ToStringReadsBack ==
  \A n \in Nat :
    /\ to_string[n] \in Seq(Digits) /\ to_string[n] # <<>>
    /\ number[to_string[n]] = n
    /\ Len(to_string[n]) > 1 => to_string[n][1] # 0
<1> USE SpendAssumption
<1> DEFINE G == {n \in Nat : /\ to_string[n] \in Seq(Digits) /\ to_string[n] # <<>>
                             /\ number[to_string[n]] = n
                             /\ n > 0 => to_string[n][1] # 0
                             /\ Len(to_string[n]) > 1 => n > 0}
<1>1. ASSUME NEW n \in Nat, \A m \in Nat : m < n => m \in G PROVE n \in G
  <2>1. CASE n < Base
    <3> DEFINE w == <<n>>
    <3>1. n \in Digits
      BY <2>1 DEF Digits
    <3>2. w \in Seq(Digits) /\ w # <<>> /\ Len(w) = 1 /\ w[1] = n
      BY <3>1
    <3>3. Initial(w) = <<>>
      BY <3>2 DEF Initial
    <3>4. to_string[n] = w
      BY <2>1, ToStringIs
    <3> HIDE DEF w
    <3>5. number[w] = n
      <4>1. number[w] = Base * number[Initial(w)] + w[Len(w)]
        BY <3>2, NumberIs, DigitsAreNumerals
      <4>2. number[Initial(w)] = 0
        BY <3>3, NumberIs
      <4> QED
        BY <4>1, <4>2, <3>2
    <3>6. (n > 0 => w[1] # 0) /\ ~(Len(w) > 1)
      BY <3>2
    <3> QED
      BY <3>2, <3>4, <3>5, <3>6
  <2>2. CASE ~(n < Base)
    <3> DEFINE q == n \div Base
               r == n % Base
               s == to_string[q]
    <3>1. q \in Nat /\ r \in Digits /\ n = Base * q + r /\ q < n /\ q > 0
      <4>1. q \in Nat /\ r \in 0..Base - 1 /\ n = Base * q + r
        BY DivisionIs
      <4> HIDE DEF q, r
      <4>2. q # 0
        BY <4>1, <2>2
      <4>3. q < n
        BY <4>1, <4>2, <2>2
      <4> QED
        BY <4>1, <4>2, <4>3 DEF Digits
    <3>2. q \in G
      <4> HIDE DEF G, q, r
      <4> QED
        BY <1>1, <3>1
    <3>3. to_string[n] = Append(s, r)
      BY <2>2, ToStringIs
    <3>4. s \in Seq(Digits) /\ s # <<>> /\ number[s] = q /\ s[1] # 0
      BY <3>1, <3>2
    <3> HIDE DEF q, r, s
    <3> DEFINE w == Append(s, r)
    <3>5. /\ w \in Seq(Digits) /\ Len(w) = Len(s) + 1 /\ w[Len(w)] = r /\ w # <<>>
          /\ w[1] = s[1]
      BY <3>1, <3>4
    <3>6. Initial(w) = s
      BY <3>1, <3>4 DEF Initial
    <3>7. number[w] = n
      <4>1. number[w] = Base * number[Initial(w)] + w[Len(w)]
        BY <3>5, NumberIs, DigitsAreNumerals
      <4> QED
        BY <4>1, <3>1, <3>4, <3>5, <3>6
    <3>8. to_string[n] = w
      BY <3>3
    <3> HIDE DEF w
    <3> QED
      BY <3>1, <3>4, <3>5, <3>7, <3>8
  <2> QED
    BY <2>1, <2>2
<1>2. Nat \subseteq G
  <2> HIDE DEF G
  <2> QED
    BY <1>1, Descent
<1> QED
  BY <1>2


\* The elements of a sequence but for the first.
LEMMA TailIs ==
  ASSUME NEW S, NEW s \in Seq(S), Len(s) # 0
  PROVE  Tail(s) = [j \in 1..Len(s) - 1 |-> s[j + 1]] /\ s # <<>>
<1>1. Len(s) \in Nat /\ s # <<>>
  OBVIOUS
<1> DEFINE u == Tail(s)
<1>2. u \in Seq(S) /\ Len(u) = Len(s) - 1
  BY <1>1
<1>3. \A j \in 1..Len(s) - 1 : u[j] = s[j + 1]
  BY <1>1
<1> HIDE DEF u
<1>4. u = [j \in 1..Len(u) |-> u[j]]
  BY <1>2
<1> QED
  BY <1>1, <1>2, <1>3, <1>4 DEF u

\* The sequence of length zero.
LEMMA EmptyByLength == ASSUME NEW S, NEW s \in Seq(S), Len(s) = 0 PROVE s = <<>>
OBVIOUS

\* Numerals that are cut off the end of a number are worth the remainder: the
\* Places lowest numerals of a number below Micro are worth that number.
LEMMA PaddedReadsBack ==
  \A n \in Nat : n < Micro =>
    padded(n) \in Seq(Digits) /\ Len(padded(n)) = Places /\ number[padded(n)] = n
<1> USE SpendAssumption
<1> SUFFICES ASSUME NEW n \in Nat, n < Micro
             PROVE  padded(n) \in Seq(Digits) /\ Len(padded(n)) = Places /\ number[padded(n)] = n
  OBVIOUS
<1> DEFINE w == padded(n)
           digit(i) == (n \div power[Places - i]) % Base
<1>1. \A k \in Nat : power[k] \in Nat /\ power[k] > 0
  BY PowerIs
<1>2. ASSUME NEW i \in 1..Places PROVE digit(i) \in Digits
  <2>1. n \div power[Places - i] \in Nat
    <3>1. Places - i \in Nat
      OBVIOUS
    <3> QED
      BY <3>1, <1>1, DivisionIs
  <2> QED
    BY <2>1, DivisionIs DEF Digits
<1>3. w \in Seq(Digits) /\ Len(w) = Places /\ \A i \in 1..Places : w[i] = digit(i)
  <2>1. w = [i \in 1..Places |-> digit(i)]
    BY DEF padded
  <2> HIDE DEF w, digit
  <2> QED
    BY <1>2, <2>1
<1> HIDE DEF w
<1> DEFINE front(i) == SubSeq(w, 1, i)
           G == {i \in Nat : i <= Places => number[front(i)] = n \div power[Places - i]}
<1>4. ASSUME NEW i \in Nat, \A m \in Nat : m < i => m \in G PROVE i \in G
  <2>1. CASE i = 0
    <3>1. front(0) = <<>>
      BY <1>3
    <3>2. n \div power[Places] = 0
      <4>1. n = (power[Places] * 0) + n /\ n \in 0..power[Places] - 1
        BY <1>1 DEF Micro
      <4> QED
        BY <4>1, <1>1, DivisionUnique
    <3>3. Places - 0 = Places
      OBVIOUS
    <3> HIDE DEF front
    <3> QED
      BY <2>1, <3>1, <3>2, <3>3, NumberIs
  <2>2. CASE i # 0
    <3> SUFFICES ASSUME i <= Places PROVE number[front(i)] = n \div power[Places - i]
      OBVIOUS
    <3>1. i \in 1..Places /\ i - 1 \in Nat /\ i - 1 < i /\ i - 1 <= Places
          /\ Places - i \in Nat /\ (Places - i) + 1 = Places - (i - 1)
      BY <2>2
    <3>2. number[front(i - 1)] = n \div power[Places - (i - 1)]
      <4>1. i - 1 \in G
        <5> HIDE DEF G
        <5> QED
          BY <1>4, <3>1
      <4> QED
        BY <4>1, <3>1
    <3>3. /\ front(i) \in Seq(Digits) /\ Len(front(i)) = i /\ front(i) # <<>>
          /\ front(i)[i] = w[i]
      BY <1>3, <3>1
    <3>4. Initial(front(i)) = front(i - 1)
      <4>1. front(i) = [j \in 1..i |-> w[j]] /\ front(i - 1) = [j \in 1..i - 1 |-> w[j]]
        BY <1>3, <3>1
      <4>2. Initial(front(i)) = [j \in 1..i - 1 |-> front(i)[j]]
        BY <3>1, <3>3 DEF Initial
      <4>3. \A j \in 1..i - 1 : front(i)[j] = w[j]
        BY <4>1, <3>1
      <4> HIDE DEF front
      <4> QED
        BY <4>1, <4>2, <4>3
    <3>5. number[front(i)] = Base * number[front(i - 1)] + w[i]
      <4> HIDE DEF front
      <4> QED
        BY <3>3, <3>4, NumberIs, DigitsAreNumerals
    <3> DEFINE p == power[Places - i]
    <3>6. power[Places - (i - 1)] = Base * p /\ p \in Nat /\ p > 0
      BY <3>1, <1>1, PowerIs
    <3>7. w[i] = (n \div p) % Base
      BY <1>3, <3>1
    <3> HIDE DEF p, front
    <3>8. n \div p = Base * (n \div (Base * p)) + ((n \div p) % Base)
      <4>1. Base \in Nat /\ Base > 0
        OBVIOUS
      <4> QED
        BY <3>6, <4>1, DivisionNested
    <3>9. number[front(i)] = n \div p
      BY <3>2, <3>5, <3>6, <3>7, <3>8
    <3> QED
      BY <3>9 DEF p
  <2> QED
    BY <2>1, <2>2
<1>5. Nat \subseteq G
  <2> HIDE DEF G
  <2> QED
    BY <1>4, Descent
<1>6. number[front(Places)] = n \div power[0]
  <2>1. Places - Places = 0
    OBVIOUS
  <2> QED
    BY <1>5, <2>1
<1>7. front(Places) = w
  BY <1>3
<1>8. n \div power[0] = n
  BY PowerIs
<1> QED
  BY <1>3, <1>6, <1>7, <1>8 DEF w

\* Cutting the zeros off the end leaves digits that end in none, and the number
\* is what is left with the zeros put back.
LEMMA TrimKeeps ==
  \A s \in Seq(Digits) :
    LET t == trim_end[s]
    IN  /\ t \in Seq(Digits) /\ Len(t) <= Len(s)
        /\ t # <<>> => t[Len(t)] # 0
        /\ number[s] = number[t] * power[Len(s) - Len(t)]
<1> USE SpendAssumption
<1> DEFINE Kept(s, t) == /\ t \in Seq(Digits) /\ Len(t) <= Len(s)
                         /\ t # <<>> => t[Len(t)] # 0
                         /\ number[s] = number[t] * power[Len(s) - Len(t)]
           G == {s \in Seq(Digits) : Kept(s, trim_end[s])}
<1>1. ASSUME NEW s \in Seq(Digits), s # <<>> => Initial(s) \in G PROVE s \in G
  <2>0. s \in Numerals /\ Len(s) \in Nat /\ number[s] \in Nat
    BY DigitsAreNumerals, DigitsNumber
  <2>1. CASE s = <<>> \/ s[Len(s)] # 0
    <3>1. trim_end[s] = s
      BY <2>0, <2>1, TrimIs
    <3>2. Kept(s, s)
      <4>1. Len(s) - Len(s) = 0 /\ number[s] * 1 = number[s]
        BY <2>0
      <4>2. number[s] = number[s] * power[Len(s) - Len(s)]
        BY <4>1, PowerIs
      <4> QED
        BY <4>2, <2>0, <2>1
    <3> HIDE DEF Kept
    <3> QED
      BY <3>1, <3>2
  <2>2. CASE s # <<>> /\ s[Len(s)] = 0
    <3> DEFINE i == Initial(s)
               t == trim_end[i]
    <3>1. trim_end[s] = t
      BY <2>0, <2>2, TrimIs
    <3>2. Kept(i, t) /\ i \in Seq(Digits)
      BY <1>1, <2>2
    <3>3. Len(i) = Len(s) - 1 /\ Len(s) > 0
      BY <2>2, InitialIs
    <3>4. number[s] = Base * number[i]
      <4>1. number[s] = Base * number[i] + s[Len(s)] /\ number[i] \in Nat
        BY <2>0, <2>2, <3>2, NumberIs, DigitsNumber
      <4> QED
        BY <4>1, <2>2
    <3> HIDE DEF i, t
    <3>5. Len(t) \in Nat /\ number[t] \in Nat
      BY <3>2, DigitsNumber
    <3> DEFINE k == Len(i) - Len(t)
    <3>6. k \in Nat /\ Len(s) - Len(t) = k + 1
      BY <3>2, <3>3, <3>5, <2>0
    <3> HIDE DEF k
    <3>7. number[s] = number[t] * power[Len(s) - Len(t)]
      <4>1. number[i] = number[t] * power[k] /\ power[k] \in Nat /\ power[k + 1] = Base * power[k]
        BY <3>2, <3>6, PowerIs DEF k
      <4> QED
        BY <4>1, <3>4, <3>5, <3>6, Associate
    <3>8. Kept(s, t)
      BY <3>2, <3>3, <3>5, <3>7, <2>0
    <3> HIDE DEF Kept
    <3> QED
      BY <3>1, <3>8
  <2> QED
    BY <2>1, <2>2
<1>2. Seq(Digits) \subseteq G
  <2> HIDE DEF G
  <2> QED
    BY <1>1, SequenceDescent
<1> QED
  BY <1>2

\* The first numeral of a sequence is worth its place.
LEMMA NumberByFirst ==
  \A s \in Numerals : s # <<>> => number[s] = s[1] * power[Len(s) - 1] + number[Tail(s)]
<1> USE SpendAssumption
<1> DEFINE G == {s \in Numerals : s # <<>> =>
                   number[s] = s[1] * power[Len(s) - 1] + number[Tail(s)]}
<1>1. ASSUME NEW s \in Numerals, s # <<>> => Initial(s) \in G PROVE s \in G
  <2> SUFFICES ASSUME s # <<>>
               PROVE  number[s] = s[1] * power[Len(s) - 1] + number[Tail(s)]
    OBVIOUS
  <2>1. /\ Initial(s) \in Numerals /\ Len(Initial(s)) = Len(s) - 1
        /\ s[Len(s)] \in Int /\ Len(s) \in Nat /\ Len(s) > 0
        /\ number[s] = Base * number[Initial(s)] + s[Len(s)]
    BY NumeralParts, NumberIs
  <2>2. CASE Len(s) = 1
    <3>1. Initial(s) = <<>> /\ Tail(s) = <<>>
      <4>1. Tail(s) \in Numerals /\ Len(Tail(s)) = 0 /\ Len(Initial(s)) = 0
        BY <2>1, <2>2 DEF Numerals
      <4>2. Initial(s) \in Seq({Other} \cup Digits) /\ Tail(s) \in Seq({Other} \cup Digits)
        BY <4>1, <2>1 DEF Numerals
      <4> QED
        BY <4>1, <4>2, EmptyByLength
    <3>2. number[s] = s[1] /\ s[1] \in Int
      BY <2>1, <2>2, <3>1, NumberIs
    <3>3. power[Len(s) - 1] = 1 /\ number[Tail(s)] = 0
      <4>1. Len(s) - 1 = 0
        BY <2>2
      <4>2. power[0] = 1
        BY PowerIs
      <4>3. number[<<>>] = 0
        BY NumberIs
      <4> QED
        BY <4>1, <4>2, <4>3, <3>1
    <3> QED
      BY <3>2, <3>3
  <2>3. CASE Len(s) # 1
    <3> DEFINE i == Initial(s)
               u == Tail(s)
    <3>1. i # <<>> /\ i \in G /\ i \in Numerals
      BY <1>1, <2>1, <2>3
    <3>2. /\ u \in Numerals /\ u # <<>> /\ Len(u) = Len(s) - 1 /\ u[Len(u)] = s[Len(s)]
          /\ i[1] = s[1] /\ Initial(u) = Tail(i)
      <4>1. /\ u \in Numerals /\ Len(u) = Len(s) - 1 /\ u # <<>>
            /\ \A j \in 1..Len(u) : u[j] = s[j + 1]
        BY <2>1, <2>3 DEF Numerals
      <4>2. i = [j \in 1..Len(s) - 1 |-> s[j]]
        BY <2>1 DEF Initial
      <4>3. Tail(i) = [j \in 1..Len(s) - 2 |-> s[j + 1]]
        <5>1. Len(i) = Len(s) - 1 /\ i # <<>> /\ Tail(i) = [j \in 1..Len(i) - 1 |-> i[j + 1]]
          <6>1. i \in Seq({Other} \cup Digits) /\ Len(i) = Len(s) - 1 /\ Len(i) # 0
            BY <2>1, <2>3 DEF Numerals
          <6> HIDE DEF i
          <6> QED
            BY <6>1, TailIs
        <5>2. Len(i) - 1 = Len(s) - 2 /\ \A j \in 1..Len(s) - 2 : i[j + 1] = s[j + 1]
          BY <4>2, <5>1, <2>1
        <5> HIDE DEF i
        <5> QED
          BY <5>1, <5>2
      <4>4. Initial(u) = [j \in 1..Len(s) - 2 |-> s[j + 1]]
        <5>1. Initial(u) = [j \in 1..Len(u) - 1 |-> u[j]]
          BY <4>1, <2>1 DEF Initial, Numerals
        <5>2. Len(u) - 1 = Len(s) - 2 /\ \A j \in 1..Len(s) - 2 : u[j] = s[j + 1]
          BY <4>1, <2>1
        <5> HIDE DEF u
        <5> QED
          BY <5>1, <5>2
      <4>5. u[Len(u)] = s[Len(s)] /\ i[1] = s[1]
        BY <4>1, <4>2, <2>1, <2>3
      <4> HIDE DEF u, i
      <4> QED
        BY <4>1, <4>3, <4>4, <4>5
    <3>3. number[i] = i[1] * power[Len(i) - 1] + number[Tail(i)]
      BY <3>1
    <3>4. number[u] = Base * number[Tail(i)] + s[Len(s)]
      BY <3>2, NumberIs
    <3> DEFINE k == Len(s) - 2
    <3>5. k \in Nat /\ Len(s) - 1 = k + 1 /\ Len(i) - 1 = k
      BY <2>1, <2>3
    <3> HIDE DEF k
    <3>6. power[k + 1] = Base * power[k] /\ power[k] \in Int /\ Base \in Int
      <4>1. power[k + 1] = Base * power[k]
        BY <3>5, PowerIs
      <4>2. power[k] \in Nat
        BY <3>5, PowerIs
      <4> QED
        BY <4>1, <4>2
    <3>7. number[Tail(i)] \in Int /\ s[1] \in Int
      <4>1. Tail(i) \in Numerals
        BY <3>1 DEF Numerals
      <4>2. s[1] \in {Other} \cup Digits
        BY <2>1 DEF Numerals
      <4> QED
        BY <4>1, <4>2, NumberIs DEF Other, Digits
    <3> HIDE DEF i, u
    <3>8. Base * number[i] = s[1] * power[k + 1] + Base * number[Tail(i)]
      <4> DEFINE p == power[k]
                 n == number[Tail(i)]
      <4>1. number[i] = s[1] * p + n
        BY <3>2, <3>3, <3>5
      <4> HIDE DEF p, n
      <4>2. p \in Int /\ n \in Int /\ s[1] * p \in Int
        BY <3>6, <3>7 DEF p, n
      <4>3. Base * (s[1] * p + n) = Base * (s[1] * p) + Base * n
        BY <4>2, Distribute
      <4>4. Base * (s[1] * p) = s[1] * (Base * p)
        BY <4>2, <3>7, Associate
      <4> QED
        BY <4>1, <4>3, <4>4, <3>6 DEF p, n
    <3>9. s[1] * power[k + 1] \in Int /\ Base * number[Tail(i)] \in Int
      BY <3>6, <3>7
    <3>10. number[s] = s[1] * power[k + 1] + number[u]
      BY <2>1, <3>4, <3>8, <3>9 DEF i
    <3> QED
      BY <3>5, <3>10 DEF u
  <2> QED
    BY <2>2, <2>3
<1>2. Numerals \subseteq G
  <2> HIDE DEF G
  <2> QED
    BY <1>1, SequenceDescent DEF Numerals
<1> QED
  BY <1>2

\* Numerals are worth the same read from either end.
LEMMA PlacesAreNumber == \A s \in Numerals : places[s] = number[s]
<1> DEFINE G == {n \in Nat : \A s \in Numerals : Len(s) = n => places[s] = number[s]}
<1>1. ASSUME NEW n \in Nat, \A m \in Nat : m < n => m \in G PROVE n \in G
  <2> SUFFICES ASSUME NEW s \in Numerals, Len(s) = n PROVE places[s] = number[s]
    OBVIOUS
  <2>1. CASE s = <<>>
    BY <2>1, PlacesIs, NumberIs
  <2>2. CASE s # <<>>
    <3>1. Tail(s) \in Numerals /\ Len(Tail(s)) = n - 1 /\ n - 1 \in Nat /\ n - 1 < n
      BY <2>2 DEF Numerals
    <3>2. n - 1 \in G
      <4> HIDE DEF G
      <4> QED
        BY <3>1, <1>1
    <3>3. places[Tail(s)] = number[Tail(s)]
      BY <3>1, <3>2
    <3> QED
      BY <2>2, <3>3, PlacesIs, NumberByFirst
  <2> QED
    BY <2>1, <2>2
<1>2. Nat \subseteq G
  <2> HIDE DEF G
  <2> QED
    BY <1>1, Descent
<1>3. \A s \in Numerals : Len(s) \in Nat
  BY DEF Numerals
<1> QED
  BY <1>2, <1>3

\* Appending numerals moves those before them up by as many places.
LEMMA NumberOfConcat ==
  \A a \in Seq(Digits), b \in Seq(Digits) :
    number[a \o b] = number[a] * power[Len(b)] + number[b]
<1> USE SpendAssumption
<1> SUFFICES ASSUME NEW a \in Seq(Digits)
             PROVE  \A b \in Seq(Digits) : number[a \o b] = number[a] * power[Len(b)] + number[b]
  OBVIOUS
<1> DEFINE G == {b \in Seq(Digits) : number[a \o b] = number[a] * power[Len(b)] + number[b]}
<1>0. number[a] \in Nat
  BY DigitsNumber
<1>1. ASSUME NEW b \in Seq(Digits), b # <<>> => Initial(b) \in G PROVE b \in G
  <2>1. CASE b = <<>>
    <3>1. a \o b = a /\ Len(b) = 0
      BY <2>1
    <3>2. power[Len(b)] = 1 /\ number[b] = 0
      BY <2>1, <3>1, NumberIs, PowerIs
    <3>3. number[a \o b] = number[a] * power[Len(b)] + number[b]
      BY <3>1, <3>2, <1>0
    <3> QED
      BY <3>3
  <2>2. CASE b # <<>>
    <3> DEFINE i == Initial(b)
               w == a \o b
               k == Len(b) - 1
               x == b[Len(b)]
    <3>1. /\ i \in Seq(Digits) /\ i \in G /\ Len(i) = k /\ k \in Nat /\ Len(b) = k + 1
          /\ x \in Int
      BY <1>1, <2>2, InitialIs DEF Digits
    <3>2. w \in Seq(Digits) /\ w # <<>> /\ w[Len(w)] = x
      BY <2>2
    <3>3. Initial(w) = a \o i
      BY <2>2 DEF Initial
    <3>4. number[w] = Base * number[a \o i] + x /\ number[b] = Base * number[i] + x
      <4> HIDE DEF w, i
      <4> QED
        BY <2>2, <3>2, <3>3, NumberIs, DigitsAreNumerals DEF i
    <3>5. number[a \o i] = number[a] * power[k] + number[i]
      BY <3>1
    <3> HIDE DEF w, i, k, x, G
    <3>6. power[k + 1] = Base * power[k] /\ power[k] \in Int /\ number[i] \in Int
      <4>1. power[k + 1] = Base * power[k]
        BY <3>1, PowerIs
      <4>2. power[k] \in Nat
        BY <3>1, PowerIs
      <4>3. number[i] \in Nat
        BY <3>1, DigitsNumber
      <4> QED
        BY <4>1, <4>2, <4>3
    <3>7. Base * (number[a] * power[k] + number[i])
            = number[a] * (Base * power[k]) + Base * number[i]
      <4>1. number[a] * power[k] \in Int
        BY <1>0, <3>6
      <4> QED
        BY <4>1, <1>0, <3>6, Distribute, Associate
    <3>8. number[w] = number[a] * power[Len(b)] + number[b]
      <4>1. number[a] * power[k + 1] \in Int /\ Base * number[i] \in Int
        BY <1>0, <3>6
      <4> QED
        BY <4>1, <3>1, <3>4, <3>5, <3>6, <3>7
    <3> QED
      BY <3>8 DEF w, G
  <2> QED
    BY <2>1, <2>2
<1>2. Seq(Digits) \subseteq G
  <2> HIDE DEF G
  <2> QED
    BY <1>1, SequenceDescent
<1> QED
  BY <1>2


\* The texts the ledger holds: digits, none missing, none too many.
Written(t) ==
  /\ t \in [whole : Seq(Digits), fraction : Seq(Digits)]
  /\ t.whole # <<>>
  /\ Len(t.whole) > 1 => t.whole[1] # 0
  /\ Len(t.fraction) <= Places
  /\ t.fraction # <<>> => t.fraction[Len(t.fraction)] # 0

\* A text of digits is worth what the parser reads in it.
LEMMA WorthIsMicros ==
  ASSUME NEW t \in [whole : Seq(Digits), fraction : Seq(Digits)], t # NoSpend,
         Len(t.fraction) <= Places
  PROVE  Worth(t) = decimal_to_micros(t) /\ decimal_to_micros(t) \in Nat
<1> USE SpendAssumption
<1> DEFINE a == t.whole
           b == t.fraction
           k == Len(b)
           z == Places - k
<1>1. a \in Seq(Digits) /\ b \in Seq(Digits) /\ k \in Nat /\ z \in Nat /\ k + z = Places
  OBVIOUS
<1>2. places[a \o b] = number[a \o b]
  <2>1. a \o b \in Seq(Digits)
    BY <1>1
  <2> QED
    BY <2>1, DigitsAreNumerals, PlacesAreNumber
<1>3. Worth(t) = places[a \o b] * power[z] /\ decimal_to_micros(t) = number[a] * Micro + number[b] * power[z]
  BY DEF Worth, decimal_to_micros
<1> HIDE DEF a, b, k, z
<1>4. number[a \o b] = number[a] * power[k] + number[b]
  BY <1>1, NumberOfConcat DEF k
<1>5. number[a] \in Nat /\ number[b] \in Nat
  BY <1>1, DigitsNumber
<1>6. power[k] \in Nat /\ power[z] \in Nat /\ Micro \in Nat
  BY <1>1, PowerIs DEF Micro
<1>7. Micro = power[k] * power[z]
  BY <1>1, PowerOfSum DEF Micro
<1>8. (number[a] * power[k] + number[b]) * power[z] = number[a] * Micro + number[b] * power[z]
  <2>1. number[a] * power[k] \in Int
    BY <1>5, <1>6
  <2>2. (number[a] * power[k] + number[b]) * power[z]
          = (number[a] * power[k]) * power[z] + number[b] * power[z]
    BY <2>1, <1>5, <1>6, Distribute
  <2>3. (number[a] * power[k]) * power[z] = number[a] * Micro
    BY <1>5, <1>6, <1>7, Associate
  <2> QED
    BY <2>2, <2>3
<1>9. number[a] * Micro \in Nat /\ number[b] * power[z] \in Nat
  BY <1>5, <1>6
<1> QED
  BY <1>2, <1>3, <1>4, <1>8, <1>9

\* A printed amount is one the parser reads back as that amount.
LEMMA PrintedReadsBack ==
  ASSUME NEW n \in Nat
  PROVE  /\ Written(micros_to_decimal(n))
         /\ decimal_to_micros(micros_to_decimal(n)) = n
         /\ number[micros_to_decimal(n).whole] <= n
<1> USE SpendAssumption
<1>1. Micro \in Nat /\ Micro > 0
  BY PowerIs DEF Micro
<1> DEFINE q == n \div Micro
           r == n % Micro
           t == micros_to_decimal(n)
<1>2. q \in Nat /\ r \in 0..Micro - 1 /\ n = (Micro * q) + r
  BY <1>1, DivisionIs
<1>3. t = [whole |-> to_string[q], fraction |-> trim_end[padded(r)]]
  BY DEF micros_to_decimal
<1> HIDE DEF q, r, t
<1> DEFINE a == to_string[q]
           p == padded(r)
           b == trim_end[p]
<1>4. a \in Seq(Digits) /\ a # <<>> /\ number[a] = q /\ (Len(a) > 1 => a[1] # 0)
  BY <1>2, ToStringReadsBack
<1>5. p \in Seq(Digits) /\ Len(p) = Places /\ number[p] = r
  BY <1>1, <1>2, PaddedReadsBack
<1> HIDE DEF a, p
<1>6. /\ b \in Seq(Digits) /\ Len(b) <= Len(p)
      /\ b # <<>> => b[Len(b)] # 0
      /\ number[p] = number[b] * power[Len(p) - Len(b)]
  BY <1>5, TrimKeeps
<1> HIDE DEF b
<1>7. t.whole = a /\ t.fraction = b /\ t \in [whole : Seq(Digits), fraction : Seq(Digits)]
  BY <1>3, <1>4, <1>6 DEF a, b, p
<1>8. Written(t)
  BY <1>4, <1>5, <1>6, <1>7 DEF Written
<1>9. decimal_to_micros(t) = n
  <2>1. decimal_to_micros(t) = q * Micro + r
    BY <1>4, <1>5, <1>6, <1>7 DEF decimal_to_micros
  <2> QED
    BY <2>1, <1>1, <1>2, Associate
<1>10. q <= n
  <2>1. Micro * q = q + (Micro - 1) * q /\ (Micro - 1) * q \in Nat
    <3>1. Micro - 1 \in Nat /\ 1 \in Int /\ 1 + (Micro - 1) = Micro
      BY <1>1
    <3>2. (1 + (Micro - 1)) * q = 1 * q + (Micro - 1) * q
      BY <3>1, <1>2, Distribute
    <3> QED
      BY <3>1, <3>2, <1>2
  <2> QED
    BY <2>1, <1>2
<1> QED
  BY <1>4, <1>7, <1>8, <1>9, <1>10 DEF t

\* A text that is read is one of digits.
LEMMA DecimalIsDigits ==
  ASSUME NEW t \in Text, Decimal(t)
  PROVE  /\ t \in [whole : Seq(Digits), fraction : Seq(Digits)]
         /\ Len(t.fraction) <= Places
BY DEF Decimal, AllDigits, Text

\* A printed amount is no larger number than the amount, so it is read again.
LEMMA PrintedIsReadable ==
  ASSUME NEW n \in Nat, n <= U128_MAX
  PROVE  /\ Decimal(micros_to_decimal(n))
         /\ micros_to_decimal(n) # NoSpend
         /\ Worth(micros_to_decimal(n)) = n
<1> USE SpendAssumption
<1> DEFINE t == micros_to_decimal(n)
<1>1. Written(t) /\ decimal_to_micros(t) = n /\ number[t.whole] <= n
  BY PrintedReadsBack
<1>2. number[t.whole] \in Nat
  BY <1>1, DigitsNumber DEF Written
<1>3. Decimal(t)
  BY <1>1, <1>2 DEF Written, Decimal, AllDigits
<1>4. t \in Text
  BY <1>1, DigitsAreNumerals DEF Written, Text
<1>5. t # NoSpend
  BY <1>4
<1>6. Worth(t) = n
  BY <1>1, <1>5, WorthIsMicros DEF Written
<1> QED
  BY <1>3, <1>5, <1>6

-----------------------------------------------------------------------------
(* The spend of an entry.                                                  *)

\* The text of the entry is the one text of what was recorded.
SpendInv ==
  /\ exact \in Nat /\ exact <= U128_MAX
  /\ IF spent = NoSpend THEN exact = 0 ELSE spent = micros_to_decimal(exact)
  /\ last \in [offered : Text \cup {NoSpend}, verdict : {"none", "recorded", "overflow", "invalid"}]
  /\ RefusedOnlyWhenFull

\* What a readable report is worth, once normalized.
LEMMA NormalizedSpend ==
  ASSUME NEW t \in Text, Readable(t)
  PROVE  /\ Worth(t) \in Nat /\ Worth(t) <= U128_MAX
         /\ normalize_spend(t) = micros_to_decimal(Worth(t))
         /\ Micros(normalize_spend(t)) = Worth(t)
<1> USE SpendAssumption
<1>1. t # NoSpend
  OBVIOUS
<1>2. Decimal(t) /\ decimal_to_micros(t) <= U128_MAX
  BY <1>1 DEF Readable
<1>3. Worth(t) = decimal_to_micros(t) /\ Worth(t) \in Nat
  BY <1>1, <1>2, DecimalIsDigits, WorthIsMicros
<1>4. normalize_spend(t) = micros_to_decimal(Worth(t))
  BY <1>1, <1>3 DEF normalize_spend
<1> DEFINE n == Worth(t)
<1> HIDE DEF n
<1>5. n \in Nat /\ n <= U128_MAX
  BY <1>2, <1>3 DEF n
<1>6. micros_to_decimal(n) # NoSpend /\ decimal_to_micros(micros_to_decimal(n)) = n
  BY <1>5, PrintedIsReadable, PrintedReadsBack
<1>7. Micros(micros_to_decimal(n)) = n
  BY <1>6 DEF Micros
<1> QED
  BY <1>2, <1>3, <1>4, <1>7 DEF n

\* What the entry holds is worth what was recorded.
LEMMA HeldSpend == SpendInv => Micros(spent) = exact /\ Worth(spent) = exact
<1> SUFFICES ASSUME SpendInv PROVE Micros(spent) = exact /\ Worth(spent) = exact
  OBVIOUS
<1>1. CASE spent = NoSpend
  BY <1>1 DEF SpendInv, Micros, Worth
<1>2. CASE spent # NoSpend
  <2>1. exact \in Nat /\ exact <= U128_MAX /\ spent = micros_to_decimal(exact)
    BY <1>2 DEF SpendInv
  <2>2. decimal_to_micros(spent) = exact /\ Worth(spent) = exact
    BY <2>1, PrintedReadsBack, PrintedIsReadable
  <2> QED
    BY <1>2, <2>2 DEF Micros
<1> QED
  BY <1>1, <1>2

\* The invariant holds of an empty entry.
LEMMA SpendInvInit == SpendInit => SpendInv
BY SpendAssumption DEF SpendInit, SpendInv, NoRecord, RefusedOnlyWhenFull

\* Records, refusals and clears keep the invariant.
LEMMA SpendInvStep == SpendInv /\ [SpendNext]_spendVars => SpendInv'
<1> USE SpendAssumption
<1> SUFFICES ASSUME SpendInv, [SpendNext]_spendVars PROVE SpendInv'
  OBVIOUS
<1>0. Micros(spent) = exact /\ exact \in Nat /\ exact <= U128_MAX
  BY HeldSpend DEF SpendInv
<1>1. ASSUME NEW t \in Offers, RecordSpend(t) PROVE SpendInv'
  <2>0. t \in Text /\ t # NoSpend
    OBVIOUS
  <2> DEFINE n == Worth(t)
  <2>1. CASE /\ Readable(t)
             /\ SpendFits(spent, normalize_spend(t))
             /\ spent' = add_decimal_strings(spent, normalize_spend(t))
             /\ exact' = exact + Worth(t)
             /\ last' = [offered |-> t, verdict |-> "recorded"]
    <3>1. n \in Nat /\ Micros(normalize_spend(t)) = n /\ normalize_spend(t) # NoSpend
      BY <2>0, <2>1, NormalizedSpend, PrintedIsReadable
    <3>2. exact + n <= U128_MAX /\ spent' = micros_to_decimal(exact + n)
      BY <2>1, <3>1, <1>0 DEF SpendFits, add_decimal_strings
    <3> HIDE DEF n
    <3>3. exact' = exact + n /\ exact' \in Nat
      BY <2>1, <3>1, <1>0 DEF n
    <3>4. spent' # NoSpend
      BY <3>2, <3>3, PrintedIsReadable
    <3> QED
      BY <2>0, <2>1, <3>2, <3>3, <3>4 DEF SpendInv, RefusedOnlyWhenFull
  <2>2. CASE /\ ~(Readable(t) /\ SpendFits(spent, normalize_spend(t)))
             /\ last' = [offered |-> t, verdict |-> IF Decimal(t) THEN "overflow" ELSE "invalid"]
             /\ UNCHANGED <<spent, exact>>
    <3>1. last'.offered = t /\ (last'.verdict = "overflow" => Decimal(t))
          /\ last' \in [offered : Text \cup {NoSpend}, verdict : {"none", "recorded", "overflow", "invalid"}]
      BY <2>0, <2>2
    <3>2. ASSUME Decimal(t) PROVE exact + n > U128_MAX
      <4>1. n \in Nat /\ n = decimal_to_micros(t)
        BY <2>0, <3>2, DecimalIsDigits, WorthIsMicros
      <4>2. CASE Readable(t)
        <5>1. Micros(normalize_spend(t)) = n
          BY <2>0, <4>2, NormalizedSpend
        <5> QED
          BY <5>1, <4>1, <4>2, <2>2, <1>0 DEF SpendFits
      <4>3. CASE ~Readable(t)
        BY <2>0, <3>2, <4>1, <4>3, <1>0 DEF Readable
      <4> QED
        BY <4>2, <4>3
    <3>3. (last'.verdict = "overflow" => exact' + Worth(last'.offered) > U128_MAX)
      BY <2>2, <3>1, <3>2
    <3>4. RefusedOnlyWhenFull'
      BY <3>3 DEF RefusedOnlyWhenFull, Worth
    <3> QED
      BY <2>2, <3>1, <3>4 DEF SpendInv
  <2> QED
    BY <1>1, <2>1, <2>2 DEF RecordSpend
<1>2. CASE RecordWithout
  <2>1. spent' = add_decimal_strings(spent, NoSpend) /\ UNCHANGED <<exact, last>>
    BY <1>2 DEF RecordWithout
  <2>2. spent' = IF spent = NoSpend THEN NoSpend ELSE micros_to_decimal(exact)
    BY <2>1, <1>0 DEF add_decimal_strings, Micros
  <2>3. spent' = spent
    BY <2>2 DEF SpendInv
  <2> QED
    BY <2>1, <2>3 DEF SpendInv, RefusedOnlyWhenFull, Worth
<1>3. CASE Forget
  BY <1>3 DEF Forget, SpendInv, NoRecord, RefusedOnlyWhenFull
<1>4. CASE UNCHANGED spendVars
  BY <1>4 DEF spendVars, SpendInv, RefusedOnlyWhenFull, Worth
<1> QED
  BY <1>1, <1>2, <1>3, <1>4 DEF SpendNext

\* The text of an amount is exact, readable and ends in no zero.
LEMMA SpendInvImplies == SpendInv => SpendIsExact
<1> SUFFICES ASSUME SpendInv PROVE SpendIsExact
  OBVIOUS
<1>1. Worth(spent) = exact
  BY HeldSpend
<1>2. CASE spent = NoSpend
  BY <1>1, <1>2 DEF SpendIsExact, Readable
<1>3. CASE spent # NoSpend
  <2>1. exact \in Nat /\ exact <= U128_MAX /\ spent = micros_to_decimal(exact)
    BY <1>3 DEF SpendInv
  <2>2. Written(spent) /\ decimal_to_micros(spent) = exact /\ Decimal(spent)
    BY <2>1, PrintedReadsBack, PrintedIsReadable
  <2> QED
    BY <1>1, <2>1, <2>2 DEF SpendIsExact, Readable, Written
<1> QED
  BY <1>2, <1>3

\* The inductive invariant of the spend.
LEMMA SpendInvariant == SpendSpec => []SpendInv
  BY SpendInvInit, SpendInvStep, PTL DEF SpendSpec

\* For every base, number of places and largest amount, and every set of texts
\* callers may report: the text in the ledger is the one text of the sum of what
\* was recorded, and the parser reads it back.
THEOREM SpendExact == SpendSpec => []SpendIsExact
  BY SpendInvariant, SpendInvImplies, PTL

\* A decimal is refused only when the sum of what was recorded and what it is
\* worth exceeds the largest amount, whatever was recorded and in what order.
THEOREM RefusedWhenFull == SpendSpec => []RefusedOnlyWhenFull
<1>1. SpendInv => RefusedOnlyWhenFull
  BY DEF SpendInv
<1> QED
  BY <1>1, SpendInvariant, PTL
=============================================================================
