------------------------------ MODULE ModelUsage ------------------------------
(***************************************************************************)
(* The process-wide usage ledger of model_usage.rs: record_model_usage,    *)
(* get_model_usage_report, clear_model_usage and check_model_budget called *)
(* by concurrent threads, some through different clients.                  *)
(*                                                                         *)
(* The ledger is one mutex-protected map keyed by task id.  A call resolves*)
(* its task id and reads the clock BEFORE it takes the lock, so its stamp  *)
(* may be old when it acts; what happens under the lock is one step.       *)
(* Tokens are u64 with checked additions: TokenMax is the largest value.   *)
(* Provider and model names are left out; the spend of an entry is in the  *)
(* module Spend, and here only another reason to refuse a record.          *)
(***************************************************************************)
EXTENDS Integers

CONSTANTS
  Threads,
  Clients,
  TaskIds,          \* task ids, the process-wide default among them
  DefaultTaskId,    \* default_task_id()
  None,
  ClientTask,       \* config.task_id of each client, or None
  Usages,           \* the usages threads report: see UsageType
  TokenMax,         \* u64::MAX, scaled
  MODEL_USAGE_TTL,  \* 24 hours, scaled
  MaxNow            \* bound on the clock

Tokens == 0..TokenMax

UsageType == [input : Tokens \cup {None}, output : Tokens \cup {None},
              total : Tokens \cup {None}]

ASSUME UsageAssumption ==
  /\ TokenMax \in Nat
  /\ MODEL_USAGE_TTL \in Nat
  /\ MaxNow \in Nat
  /\ DefaultTaskId \in TaskIds
  /\ None \notin TaskIds \cup Tokens
  /\ ClientTask \in [Clients -> TaskIds \cup {None}]
  /\ Usages \subseteq UsageType

VARIABLES
  now,       \* the monotonic clock
  ledger,    \* USAGE_BY_TASK: the entry of each task, or None
  pc,        \* what each thread is doing
  task,      \* the task id a call resolved
  stamp,     \* the clock as the call read it
  usage,     \* the normalized usage a record is about to add
  report,    \* the report a call returned, or sent for a budget check
  floor      \* history: total the task had when a report was asked for, as far
             \* as nothing removed the entry since

vars == <<now, ledger, pc, task, stamp, usage, report, floor>>

-----------------------------------------------------------------------------
OrZero(n) == IF n = None THEN 0 ELSE n

\* The explicit argument, then the client's task id, then the process default.
ResolveTask(client, explicit) ==
  IF explicit # None THEN explicit
  ELSE IF ClientTask[client] # None THEN ClientTask[client]
  ELSE DefaultTaskId

\* normalize_model_usage: the total defaults to the checked sum of the parts.
DerivedTotal(u) ==
  IF u.total # None THEN u.total ELSE OrZero(u.input) + OrZero(u.output)

Normalizes(u) == DerivedTotal(u) <= TokenMax

Normalized(u) ==
  [input |-> OrZero(u.input), output |-> OrZero(u.output), total |-> DerivedTotal(u)]

\* Instant::duration_since saturates: a stamp older than the entry counts as 0.
SinceUpdate(at, entry) ==
  IF at >= entry.updatedAt THEN at - entry.updatedAt ELSE 0

\* Seeded fault: expired entries are never dropped.
Evicted_none(at) == ledger

\* Seeded fault: an entry expires one unit early.
Evicted_early(at) ==
  [k \in TaskIds |->
     IF ledger[k] # None /\ SinceUpdate(at, ledger[k]) >= MODEL_USAGE_TTL
       THEN None ELSE ledger[k]]

\* evict_expired_model_usage: every entry, not only the caller's.
Evicted(at) ==
  [k \in TaskIds |->
     IF ledger[k] # None /\ SinceUpdate(at, ledger[k]) > MODEL_USAGE_TTL
       THEN None ELSE ledger[k]]

\* Seeded fault: the additions wrap at the width of the type.
Sum_wrapping(entry, u) ==
  [input |-> (entry.input + u.input) % (TokenMax + 1),
   output |-> (entry.output + u.output) % (TokenMax + 1),
   total |-> (entry.total + u.total) % (TokenMax + 1)]

\* Seeded fault: the ledger keeps the last usage instead of the sum.
Sum_replacing(entry, u) == u

Sum(entry, u) ==
  [input |-> entry.input + u.input,
   output |-> entry.output + u.output,
   total |-> entry.total + u.total]

\* Seeded fault: only the parts are added with a check.
Fits_parts_only(r) == r.input <= TokenMax /\ r.output <= TokenMax

Fits(r) == r.input <= TokenMax /\ r.output <= TokenMax /\ r.total <= TokenMax

ReportOf(entry) ==
  [input |-> entry.input, output |-> entry.output, total |-> entry.total]

Stored(r, at) ==
  [input |-> r.input, output |-> r.output, total |-> r.total, updatedAt |-> at]

Nothing == [input |-> 0, output |-> 0, total |-> 0]

Previous(entries, k) == IF entries[k] = None THEN Nothing ELSE ReportOf(entries[k])

ReportType == [input : Tokens, output : Tokens, total : Tokens]

EntryType == [input : Tokens, output : Tokens, total : Tokens, updatedAt : 0..MaxNow]

\* An absent entry or report is not mistaken for one.
ASSUME AbsenceAssumption == None \notin ReportType \cup EntryType

TypeOK ==
  /\ now \in 0..MaxNow
  /\ ledger \in [TaskIds -> EntryType \cup {None}]
  /\ pc \in [Threads -> {"idle", "recording", "reporting", "budgeting", "asking"}]
  /\ task \in [Threads -> TaskIds]
  /\ stamp \in [Threads -> 0..MaxNow]
  /\ usage \in [Threads -> ReportType]
  /\ report \in [Threads -> ReportType \cup {None}]
  /\ floor \in [Threads -> Tokens]

-----------------------------------------------------------------------------
Init ==
  /\ now = 0
  /\ ledger = [k \in TaskIds |-> None]
  /\ pc = [t \in Threads |-> "idle"]
  /\ task = [t \in Threads |-> DefaultTaskId]
  /\ stamp = [t \in Threads |-> 0]
  /\ usage = [t \in Threads |-> Nothing]
  /\ report = [t \in Threads |-> None]
  /\ floor = [t \in Threads |-> 0]

\* The floor of every thread whose task lost its entry starts over.
FloorAfter(entries) ==
  [t \in Threads |-> IF entries[task[t]] = None THEN 0 ELSE floor[t]]

\* A call resolves its task id and reads the clock; the lock is not held yet.
Enter(t, next, client, explicit) ==
  /\ pc[t] = "idle"
  /\ pc' = [pc EXCEPT ![t] = next]
  /\ task' = [task EXCEPT ![t] = ResolveTask(client, explicit)]
  /\ stamp' = [stamp EXCEPT ![t] = now]
  /\ report' = [report EXCEPT ![t] = None]
  /\ floor' = [floor EXCEPT ![t] = Previous(ledger, ResolveTask(client, explicit)).total]
  /\ UNCHANGED <<now, ledger>>

\* record_model_usage up to the lock; a usage that does not normalize is refused.
BeginRecord(t, client, explicit, u) ==
  /\ Normalizes(u)
  /\ usage' = [usage EXCEPT ![t] = Normalized(u)]
  /\ Enter(t, "recording", client, explicit)

Leave(t) ==
  /\ pc' = [pc EXCEPT ![t] = "idle"]
  /\ task' = [task EXCEPT ![t] = DefaultTaskId]
  /\ stamp' = [stamp EXCEPT ![t] = 0]
  /\ usage' = [usage EXCEPT ![t] = Nothing]

\* record_model_usage under the lock: evict, add with checks, store under the
\* stamp taken before the lock.  On overflow, which may also be that of the
\* spend, only the eviction remains.
FinishRecord(t) ==
  LET entries == Evicted(stamp[t])
      sum     == Sum(Previous(entries, task[t]), usage[t])
  IN /\ pc[t] = "recording"
     /\ \/ /\ Fits(sum)
           /\ ledger' = [entries EXCEPT ![task[t]] = Stored(sum, stamp[t])]
           /\ report' = [report EXCEPT ![t] = sum]
        \/ /\ ledger' = entries
           /\ report' = [report EXCEPT ![t] = None]
     /\ floor' = [FloorAfter(entries) EXCEPT ![t] = 0]
     /\ Leave(t)
     /\ UNCHANGED now

\* get_model_usage_report, called by itself or by check_model_budget.
BeginReport(t, client, explicit) ==
  /\ \E next \in {"reporting", "budgeting"} : Enter(t, next, client, explicit)
  /\ UNCHANGED usage

\* Under the lock: evict by the stamp, then read.
ReadReport(t) ==
  LET entries == Evicted(stamp[t])
  IN /\ ledger' = entries
     /\ report' = [report EXCEPT ![t] = IF entries[task[t]] = None THEN None
                                        ELSE ReportOf(entries[task[t]])]

FinishReport(t) ==
  /\ pc[t] = "reporting"
  /\ ReadReport(t)
  /\ floor' = [FloorAfter(ledger') EXCEPT ![t] = 0]
  /\ Leave(t)
  /\ UNCHANGED now

\* check_model_budget puts the report into the intent's metadata and awaits
\* check_intent; the ledger is free meanwhile.
AskBudget(t) ==
  /\ pc[t] = "budgeting"
  /\ ReadReport(t)
  /\ pc' = [pc EXCEPT ![t] = "asking"]
  /\ floor' = FloorAfter(ledger')
  /\ UNCHANGED <<now, task, stamp, usage>>

\* check_intent returns, or its future is dropped.
BudgetAnswered(t) ==
  /\ pc[t] = "asking"
  /\ report' = [report EXCEPT ![t] = None]
  /\ floor' = [floor EXCEPT ![t] = 0]
  /\ Leave(t)
  /\ UNCHANGED <<now, ledger>>

\* clear_model_usage reads no clock: it is one step under the lock.
Clear(t, client, explicit) ==
  /\ pc[t] = "idle"
  /\ ledger' = [ledger EXCEPT ![ResolveTask(client, explicit)] = None]
  /\ report' = [report EXCEPT ![t] = None]
  /\ floor' = FloorAfter(ledger')
  /\ UNCHANGED <<now, pc, task, stamp, usage>>

Tick ==
  /\ now < MaxNow
  /\ now' = now + 1
  /\ UNCHANGED <<ledger, pc, task, stamp, usage, report, floor>>

Next ==
  \/ \E t \in Threads :
       \/ \E client \in Clients, explicit \in TaskIds \cup {None} :
            \/ \E u \in Usages : BeginRecord(t, client, explicit, u)
            \/ BeginReport(t, client, explicit)
            \/ Clear(t, client, explicit)
       \/ FinishRecord(t)
       \/ FinishReport(t)
       \/ AskBudget(t)
       \/ BudgetAnswered(t)
  \/ Tick

Spec == Init /\ [][Next]_vars

-----------------------------------------------------------------------------
(* Properties. *)

\* When no usage reports a total below its parts, no ledger total is below its
\* parts either, through any interleaving of records, refused records,
\* evictions and clears: a refusal half-way through the additions leaves no
\* trace, and no addition wraps.
TotalCoversParts ==
  (\A u \in Usages : DerivedTotal(u) >= OrZero(u.input) + OrZero(u.output)) =>
    \A k \in TaskIds :
      ledger[k] # None => ledger[k].total >= ledger[k].input + ledger[k].output

\* A budget check sends at least what the task had used when the check began,
\* unless the entry was cleared or expired meanwhile: no record that completed
\* before is missing from the report the server judges.
BudgetCountsPriorUsage ==
  \A t \in Threads :
    pc[t] = "asking" /\ floor[t] > 0 => report[t] # None /\ report[t].total >= floor[t]

\* The usage of a task is lowered or forgotten only by clear_model_usage, or by
\* a call whose own clock reading finds the entry expired.  Records of other
\* threads, refused records and reports never cost a task what it has used.
UsageIsNeverLost ==
  [][\A k \in TaskIds :
       /\ ledger[k] # None
       /\ ledger'[k] = None \/ ledger'[k].total < ledger[k].total
       /\ pc' # pc
       => \E t \in Threads :
            pc'[t] # pc[t] /\ stamp[t] > ledger[k].updatedAt + MODEL_USAGE_TTL]_vars

\* What a report returns was last updated no longer than the lifetime before
\* the call read the clock, whoever evicted or kept the entry.
ReportsAreAlive ==
  [][\A t \in Threads :
       pc[t] \in {"reporting", "budgeting"} /\ pc'[t] # pc[t] /\ report'[t] # None =>
         stamp[t] <= ledger[task[t]].updatedAt + MODEL_USAGE_TTL]_vars

=============================================================================
