--------------------------------- MODULE Cron ---------------------------------
(***************************************************************************)
(* x/cron: messages executed every so many blocks.                         *)
(*                                                                         *)
(* A block begins, delivers transactions and ends; BeginBlock and EndBlock *)
(* read the ready schedules of their stage once and then execute them one  *)
(* by one.  Names are numbers in the order of their store keys.  queue is  *)
(* what is left of the list that ExecuteReadySchedules iterates over: the  *)
(* schedules as they were when the list was read.                          *)
(***************************************************************************)
EXTENDS Stores, Integers

CONSTANTS Names,        \* schedule names, in key order
          Periods,      \* periods a schedule may be added with
          Limits,       \* values of Params.Limit
          Removable,    \* schedules whose removal a schedule's messages may trigger
          Modulus,      \* 2^64 in the code
          MaxHeight     \* bound: the last block

ASSUME CronAssumption ==
    /\ Names \subseteq Nat /\ IsFiniteSet(Names)
    /\ Periods \subseteq Nat \ {0} /\ Limits \subseteq Nat
    /\ Removable \subseteq Names
    /\ MaxHeight \in Nat /\ Modulus \in Nat /\ MaxHeight < Modulus

VARIABLES schedules,    \* store: name -> [period, lastExecuteHeight, stage]
          count,        \* ScheduleCount, an int32
          limit,        \* Params.Limit
          height,
          phase,        \* idle, begin, txs or end
          queue,        \* the ready schedules still to be executed
          executed      \* <<name, stage>> of the schedules executed in this block

cronVars == <<schedules, count, limit, height, phase, queue, executed>>

Stages == {"BEGIN_BLOCKER", "END_BLOCKER"}
Schedules == [period : Periods, lastExecuteHeight : Nat, stage : Stages]

-----------------------------------------------------------------------------
\* The sum is taken in uint64.
intervalPassed(s, h) == h >= (s.lastExecuteHeight + s.period) % Modulus

Due(stage, h) ==
    {n \in DOMAIN schedules : intervalPassed(schedules[n], h) /\ schedules[n].stage = stage}

\* Mutant: the list is cut before the limit is reached.
ReadyOneShort(stage, h) ==
    {<<n, schedules[n]>> : n \in {x \in Due(stage, h) :
        Cardinality({y \in Due(stage, h) : y < x}) + 1 < limit}}

\* The iteration stops once the limit is reached; the limit is compared after
\* a schedule is appended, so a limit of 0 lets one schedule through.
getSchedulesReadyForExecution(stage, h) ==
    {<<n, schedules[n]>> : n \in {x \in Due(stage, h) :
        LET before == Cardinality({y \in Due(stage, h) : y < x})
        IN  before = 0 \/ before < limit}}

\* executeSchedule: the height is stored, from the copy read with the list,
\* before the messages run.  The messages run in a cached context that is
\* written only if all of them succeed; removed is what the security contract
\* removes on the way.  RemoveSchedule ignores names that do not exist.
executeSchedule(n, s, removed) ==
    LET stored == Put(schedules, n, [s EXCEPT !.lastExecuteHeight = height])
    IN  /\ schedules' = [x \in DOMAIN stored \ removed |-> stored[x]]
        /\ count' = count - Cardinality(removed \cap DOMAIN stored)

\* Mutant: an existing schedule is overwritten.
OverwriteSchedule(n, period, stage) ==
    /\ schedules' = Put(schedules, n, [period |-> period, lastExecuteHeight |-> height,
                                       stage |-> stage])
    /\ count' = count + 1

\* MsgAddSchedule from the authority.
AddSchedule(n, period, stage) ==
    /\ n \notin DOMAIN schedules
    /\ schedules' = Put(schedules, n, [period |-> period, lastExecuteHeight |-> height,
                                       stage |-> stage])
    /\ count' = count + 1

\* MsgRemoveSchedule, from the authority or from the security contract.
RemoveSchedule(n) ==
    IF n \in DOMAIN schedules
    THEN schedules' = Drop(schedules, n) /\ count' = count - 1
    ELSE UNCHANGED <<schedules, count>>

-----------------------------------------------------------------------------
Init ==
    /\ schedules = EmptyStore /\ count = 0
    /\ limit \in Limits
    /\ height = 0 /\ phase = "idle"
    /\ queue = {} /\ executed = {}

BeginBlock ==
    /\ phase = "idle" /\ height < MaxHeight
    /\ phase' = "begin" /\ height' = height + 1
    /\ queue' = getSchedulesReadyForExecution("BEGIN_BLOCKER", height + 1)
    /\ executed' = {}
    /\ UNCHANGED <<schedules, count, limit>>

\* The next schedule of the list, in key order.
Execute == \E q \in queue, removed \in SUBSET Removable :
    /\ \A r \in queue : q[1] <= r[1]
    /\ executeSchedule(q[1], q[2], removed)
    /\ queue' = queue \ {q}
    /\ executed' = executed \cup {<<q[1], q[2].stage>>}
    /\ UNCHANGED <<limit, height, phase>>

DeliverTxs ==
    /\ phase = "begin" /\ queue = {}
    /\ phase' = "txs"
    /\ UNCHANGED <<schedules, count, limit, height, queue, executed>>

Add == \E n \in Names, period \in Periods, stage \in Stages :
    /\ phase = "txs"
    /\ AddSchedule(n, period, stage)
    /\ UNCHANGED <<limit, height, phase, queue, executed>>

Remove == \E n \in Names :
    /\ phase = "txs"
    /\ RemoveSchedule(n)
    /\ UNCHANGED <<limit, height, phase, queue, executed>>

\* MsgUpdateParams validates the addresses only, not the limit.
UpdateParams == \E l \in Limits :
    /\ phase = "txs"
    /\ limit' = l
    /\ UNCHANGED <<schedules, count, height, phase, queue, executed>>

EndBlock ==
    /\ phase = "txs"
    /\ phase' = "end"
    /\ queue' = getSchedulesReadyForExecution("END_BLOCKER", height)
    /\ UNCHANGED <<schedules, count, limit, height, executed>>

Commit ==
    /\ phase = "end" /\ queue = {}
    /\ phase' = "idle"
    /\ UNCHANGED <<schedules, count, limit, height, queue, executed>>

\* ExportGenesis and InitGenesis: every exported schedule is added anew.
Reimport ==
    /\ phase = "idle"
    /\ count' = Cardinality(DOMAIN schedules)
    /\ UNCHANGED <<schedules, limit, height, phase, queue, executed>>

Next == BeginBlock \/ Execute \/ DeliverTxs \/ Add \/ Remove \/ UpdateParams
            \/ EndBlock \/ Commit \/ Reimport

Spec == Init /\ [][Next]_cronVars

-----------------------------------------------------------------------------
\* The variables have the types of the stores they model.
TypeOK ==
    /\ IsStore(schedules, Names, Schedules)
    /\ count \in Int
    /\ limit \in Limits
    /\ height \in 0..MaxHeight
    /\ phase \in {"idle", "begin", "txs", "end"}
    /\ queue \subseteq Names \X Schedules
    /\ executed \subseteq Names \X Stages

\* The stored count is the number of schedules, as GetScheduleCount promises.
CountIsSchedules == count = Cardinality(DOMAIN schedules)

\* Additions, removals, also by the messages of a running schedule, and
\* executions keep a right count right; the one step that makes it wrong is
\* the execution of a schedule that an earlier one of the list removed, which
\* executeSchedule stores again without counting it.
MiscountByRevivalOnly ==
    [][CountIsSchedules => \/ CountIsSchedules'
                           \/ \E q \in queue \ queue' : q[1] \notin DOMAIN schedules]_cronVars

\* When a stage is over, a schedule of that stage that is due but was not
\* executed lost against the limit: the limit was used up, and by schedules
\* with smaller names only.
PassedOverByLimitOnly ==
    \A stage \in Stages :
        queue = {} /\ phase = (IF stage = "BEGIN_BLOCKER" THEN "begin" ELSE "end") =>
            LET mine == {x \in executed : x[2] = stage}
            IN  \A n \in Due(stage, height) : Cardinality(mine) >= limit /\ \A x \in mine : x[1] < n

=============================================================================
