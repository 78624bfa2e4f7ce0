----------------------------- MODULE BlockerProofs -----------------------------
(***************************************************************************)
(* Proofs about the two modules with work at the end of every block, for   *)
(* any constants of their specifications.                                  *)
(*   - Cron: the count is wrong only after a revival, and a schedule that  *)
(*     is due is passed over only for the limit.                           *)
(*   - InterchainQueries: deposits are backed, no result and no hash is    *)
(*     orphaned, results only get newer, a transaction is delivered in one *)
(*     message, and a query in service is removed by its owner only.       *)
(* The two share no state.                                                 *)
(***************************************************************************)
EXTENDS Cron, InterchainQueries, StoreLemmas

\* How long the provers may take for a leaf, in seconds.
USE SMTT(30), ZenonT(30)

-----------------------------------------------------------------------------
(* Cron *)

\* A ready schedule is a schedule of the store, as it is there.
LEMMA ReadyIsStored ==
    ASSUME NEW stage, NEW h, NEW q \in getSchedulesReadyForExecution(stage, h)
    PROVE  q[1] \in DOMAIN schedules /\ q = <<q[1], schedules[q[1]]>>
<1>1. PICK n \in Due(stage, h) : q = <<n, schedules[n]>>
  BY ZenonT(60) DEF getSchedulesReadyForExecution
<1>2. n \in DOMAIN schedules BY DEF Due
<1> QED BY <1>1, <1>2

\* The types are kept by every step of a block.
THEOREM CronTypes == Spec => []TypeOK
<1> USE CronAssumption
<1>1. Init => TypeOK
  BY DEF Init, TypeOK, IsStore, EmptyStore
<1>2. TypeOK /\ [Next]_cronVars => TypeOK'
  <2> SUFFICES ASSUME TypeOK, [Next]_cronVars PROVE TypeOK' OBVIOUS
  <2>1. \A stage, h : getSchedulesReadyForExecution(stage, h) \subseteq Names \X Schedules
    <3> SUFFICES ASSUME NEW stage, NEW h, NEW q \in getSchedulesReadyForExecution(stage, h)
                 PROVE  q \in Names \X Schedules
      OBVIOUS
    <3>1. q[1] \in DOMAIN schedules /\ q = <<q[1], schedules[q[1]]>> BY ReadyIsStored
    <3>2. q[1] \in Names /\ schedules[q[1]] \in Schedules BY <3>1 DEF TypeOK, IsStore
    <3> QED BY <3>1, <3>2
  <2>2. CASE BeginBlock BY <2>1, <2>2 DEF BeginBlock, TypeOK
  <2>3. CASE Execute
    <3>1. PICK q \in queue, removed \in SUBSET Removable :
             /\ executeSchedule(q[1], q[2], removed)
             /\ queue' = queue \ {q}
             /\ executed' = executed \cup {<<q[1], q[2].stage>>}
             /\ UNCHANGED <<limit, height, phase>>
      BY <2>3 DEF Execute
    <3>2. q[1] \in Names /\ q[2] \in Schedules BY DEF TypeOK
    <3>3. [q[2] EXCEPT !.lastExecuteHeight = height] \in Schedules
      BY <3>2 DEF Schedules, TypeOK
    <3> DEFINE stored == Put(schedules, q[1], [q[2] EXCEPT !.lastExecuteHeight = height])
    <3>4. IsStore(stored, Names, Schedules) BY <3>2, <3>3 DEF IsStore, Put, TypeOK
    <3>5. schedules' = [x \in DOMAIN stored \ removed |-> stored[x]]
      BY <3>1 DEF executeSchedule
    <3>6. IsStore(schedules', Names, Schedules) BY <3>4, <3>5 DEF IsStore
    <3>7. IsFiniteSet(removed \cap DOMAIN stored)
      BY FS_Subset
    <3>8. count' \in Int
      BY <3>1, <3>7, FS_CardinalityType DEF executeSchedule, TypeOK
    <3>9. executed' \subseteq Names \X Stages /\ queue' \subseteq Names \X Schedules
      BY <3>1, <3>2 DEF TypeOK, Schedules
    <3> QED BY <3>1, <3>6, <3>8, <3>9 DEF TypeOK
  <2>4. CASE DeliverTxs BY <2>4 DEF DeliverTxs, TypeOK
  <2>5. CASE Add
    BY <2>5 DEF Add, AddSchedule, Put, TypeOK, IsStore, Schedules
  <2>6. CASE Remove
    BY <2>6 DEF Remove, RemoveSchedule, Drop, TypeOK, IsStore
  <2>7. CASE UpdateParams BY <2>7 DEF UpdateParams, TypeOK
  <2>8. CASE EndBlock BY <2>1, <2>8 DEF EndBlock, TypeOK
  <2>9. CASE Commit BY <2>9 DEF Commit, TypeOK
  <2>10. CASE Reimport
    <3>1. IsFiniteSet(DOMAIN schedules) BY FS_Subset DEF TypeOK, IsStore
    <3> QED BY <2>10, <3>1, FS_CardinalityType DEF Reimport, TypeOK
  <2>11. CASE UNCHANGED cronVars BY <2>11 DEF cronVars, TypeOK
  <2> QED
    BY <2>2, <2>3, <2>4, <2>5, <2>6, <2>7, <2>8, <2>9, <2>10, <2>11 DEF Next
<1> QED BY <1>1, <1>2, PTL DEF Spec

\* The count goes wrong only when a schedule that was removed after the list
\* was read is executed and stored again: in every other step, with any
\* schedules removed by the messages, a right count stays right.
THEOREM MiscountsByRevivalOnly == Spec => MiscountByRevivalOnly
<1> USE CronAssumption
<1> DEFINE Step == CountIsSchedules => \/ CountIsSchedules'
                                       \/ \E q \in queue \ queue' : q[1] \notin DOMAIN schedules
<1>1. TypeOK /\ [Next]_cronVars => [Step]_cronVars
  <2> SUFFICES ASSUME TypeOK, [Next]_cronVars, CountIsSchedules
               PROVE  CountIsSchedules' \/ \E q \in queue \ queue' : q[1] \notin DOMAIN schedules
    OBVIOUS
  <2>0. IsFiniteSet(DOMAIN schedules) BY FS_Subset DEF TypeOK, IsStore
  <2>1. CASE UNCHANGED <<schedules, count>> BY <2>1 DEF CountIsSchedules
  <2>2. CASE Execute
    <3>1. PICK q \in queue, removed \in SUBSET Removable :
             executeSchedule(q[1], q[2], removed) /\ queue' = queue \ {q}
      BY <2>2 DEF Execute
    <3>2. CASE q[1] \notin DOMAIN schedules BY <3>1, <3>2
    <3>3. CASE q[1] \in DOMAIN schedules
      <4> DEFINE stored == Put(schedules, q[1], [q[2] EXCEPT !.lastExecuteHeight = height])
      <4>1. DOMAIN stored = DOMAIN schedules BY <3>3 DEF Put
      <4>2. DOMAIN schedules' = DOMAIN schedules \ removed
        BY <3>1, <4>1 DEF executeSchedule
      <4>3. count' = count - Cardinality(DOMAIN schedules \cap removed)
        <5>1. removed \cap DOMAIN stored = DOMAIN schedules \cap removed BY <4>1
        <5> QED BY <3>1, <5>1, ZenonT(60) DEF executeSchedule
      <4> HIDE DEF stored
      <4> QED BY <2>0, <4>2, <4>3, FS_Difference, ZenonT(60) DEF CountIsSchedules
    <3> QED BY <3>2, <3>3
  <2>3. CASE Add
    <3>1. PICK n \in Names : n \notin DOMAIN schedules /\ DOMAIN schedules' = DOMAIN schedules \cup {n}
                             /\ count' = count + 1
      BY <2>3 DEF Add, AddSchedule, Put
    <3> QED BY <2>0, <3>1, FS_AddElement, ZenonT(60) DEF CountIsSchedules
  <2>4. CASE Remove
    <3>1. PICK n \in Names : RemoveSchedule(n) BY <2>4 DEF Remove
    <3>2. CASE n \in DOMAIN schedules
      <4>1. DOMAIN schedules' = DOMAIN schedules \ {n} /\ count' = count - 1
        BY <3>1, <3>2 DEF RemoveSchedule, Drop
      <4> QED BY <2>0, <3>2, <4>1, FS_RemoveElement, ZenonT(60) DEF CountIsSchedules
    <3>3. CASE n \notin DOMAIN schedules
      BY <2>1, <3>1, <3>3 DEF RemoveSchedule
    <3> QED BY <3>2, <3>3
  <2>5. CASE Reimport BY <2>5 DEF Reimport, CountIsSchedules
  <2> QED
    BY <2>1, <2>2, <2>3, <2>4, <2>5
       DEF Next, BeginBlock, DeliverTxs, UpdateParams, EndBlock, Commit, cronVars
<1>2. MiscountByRevivalOnly <=> [][Step]_cronVars BY DEF MiscountByRevivalOnly
<1> QED BY <1>1, <1>2, CronTypes, PTL DEF Spec

\* The schedules still to be executed are in the store: outside the
\* transactions nothing is removed, unless the messages remove schedules.
QueueStored == (queue # {} => phase \in {"begin", "end"})
                   /\ \A q \in queue : q[1] \in DOMAIN schedules

\* If no message of a schedule removes a schedule, the count is right: the list
\* read by ExecuteReadySchedules stays in the store while it is executed.
THEOREM CountIsRight == Removable = {} => (Spec => []CountIsSchedules)
<1> SUFFICES ASSUME Removable = {} PROVE Spec => []CountIsSchedules OBVIOUS
<1> USE CronAssumption
<1> DEFINE Inv == CountIsSchedules /\ QueueStored
<1>1. Init => Inv
  BY FS_EmptySet DEF Init, CountIsSchedules, QueueStored, EmptyStore
<1>2. Inv /\ TypeOK /\ [Next]_cronVars => Inv'
  <2> SUFFICES ASSUME Inv, TypeOK, [Next]_cronVars PROVE Inv' OBVIOUS
  <2>0. IsFiniteSet(DOMAIN schedules) BY FS_Subset DEF TypeOK, IsStore
  <2>1. \A stage, h : \A q \in getSchedulesReadyForExecution(stage, h) : q[1] \in DOMAIN schedules
    BY ReadyIsStored
  <2>2. CASE BeginBlock
    BY <2>1, <2>2 DEF BeginBlock, CountIsSchedules, QueueStored
  <2>3. CASE Execute
    <3>1. PICK q \in queue, removed \in SUBSET Removable :
             executeSchedule(q[1], q[2], removed) /\ queue' = queue \ {q} /\ phase' = phase
      BY <2>3 DEF Execute
    <3>2. removed = {} OBVIOUS
    <3>3. q[1] \in DOMAIN schedules BY DEF QueueStored
    <3>4. DOMAIN schedules' = DOMAIN schedules
      BY <3>1, <3>2, <3>3, ZenonT(60) DEF executeSchedule, Put
    <3>5. count' = count
      <4>1. removed \cap DOMAIN Put(schedules, q[1], [q[2] EXCEPT !.lastExecuteHeight = height]) = {}
        BY <3>2
      <4>2. count' = count - Cardinality({}) BY <3>1, <4>1, ZenonT(60) DEF executeSchedule
      <4> QED BY <4>2, FS_EmptySet DEF TypeOK
    <3> QED BY <3>1, <3>4, <3>5 DEF CountIsSchedules, QueueStored
  <2>4. CASE DeliverTxs BY <2>4 DEF DeliverTxs, CountIsSchedules, QueueStored
  <2>5. CASE Add
    <3>1. PICK n \in Names : n \notin DOMAIN schedules /\ DOMAIN schedules' = DOMAIN schedules \cup {n}
                             /\ count' = count + 1
      BY <2>5 DEF Add, AddSchedule, Put
    <3>2. queue' = queue /\ phase' = phase BY <2>5 DEF Add
    <3> QED BY <2>0, <3>1, <3>2, FS_AddElement DEF CountIsSchedules, QueueStored
  <2>6. CASE Remove
    <3>1. PICK n \in Names : RemoveSchedule(n) BY <2>6 DEF Remove
    <3>2. queue = {} /\ queue' = {} BY <2>6 DEF Remove, QueueStored
    <3>3. CASE n \in DOMAIN schedules
      <4>1. DOMAIN schedules' = DOMAIN schedules \ {n} /\ count' = count - 1
        BY <3>1, <3>3 DEF RemoveSchedule, Drop
      <4> QED BY <2>0, <3>2, <3>3, <4>1, FS_RemoveElement, ZenonT(60) DEF CountIsSchedules, QueueStored
    <3>4. CASE n \notin DOMAIN schedules
      BY <3>1, <3>2, <3>4 DEF RemoveSchedule, CountIsSchedules, QueueStored
    <3> QED BY <3>3, <3>4
  <2>7. CASE UpdateParams BY <2>7 DEF UpdateParams, CountIsSchedules, QueueStored
  <2>8. CASE EndBlock BY <2>1, <2>8 DEF EndBlock, CountIsSchedules, QueueStored
  <2>9. CASE Commit BY <2>9 DEF Commit, CountIsSchedules, QueueStored
  <2>10. CASE Reimport BY <2>10 DEF Reimport, CountIsSchedules, QueueStored
  <2>11. CASE UNCHANGED cronVars BY <2>11 DEF cronVars, CountIsSchedules, QueueStored
  <2> QED
    BY <2>2, <2>3, <2>4, <2>5, <2>6, <2>7, <2>8, <2>9, <2>10, <2>11 DEF Next
<1>3. Inv => CountIsSchedules OBVIOUS
<1> QED BY <1>1, <1>2, <1>3, CronTypes, PTL DEF Spec

-----------------------------------------------------------------------------
(* The list of ready schedules and the limit. *)

\* A set of natural numbers has a least element.
LEMMA LeastElement ==
    ASSUME NEW S \in SUBSET Nat, S # {}
    PROVE  \E m \in S : \A n \in S : m <= n
<1>1. PICK m \in S : \A n \in S : ~(<<n, m>> \in OpToRel(<, Nat))
  BY NatLessThanWellFounded, WFMin, ZenonT(60)
<1>2. \A n \in S : ~(n < m)
  BY <1>1, ZenonT(60) DEF OpToRel
<1> QED BY <1>2

\* The names of the list that getSchedulesReadyForExecution returns.
ReadyNames(stage, h) ==
    {x \in Due(stage, h) : LET before == Cardinality({y \in Due(stage, h) : y < x})
                           IN  before = 0 \/ before < limit}

LEMMA ReadyByName ==
    ASSUME NEW stage, NEW h
    PROVE  getSchedulesReadyForExecution(stage, h) = {<<n, schedules[n]>> : n \in ReadyNames(stage, h)}
  BY ZenonT(60) DEF getSchedulesReadyForExecution, ReadyNames

\* What is due and not on the list comes after all of the list, which is then
\* as long as the limit: the least name that is left out has only names of the
\* list before it, and it was left out because they are limit many.
LEMMA LeftOutByLimit ==
    ASSUME TypeOK, NEW stage, NEW h, NEW n \in Due(stage, h) \ ReadyNames(stage, h)
    PROVE  /\ Cardinality(ReadyNames(stage, h)) >= limit
           /\ \A m \in ReadyNames(stage, h) : m < n
<1> DEFINE D == Due(stage, h)
           R == ReadyNames(stage, h)
           Below(x) == {y \in D : y < x}
<1>1. D \subseteq Nat /\ IsFiniteSet(D) /\ limit \in Nat
  <2>1. D \subseteq Names BY DEF Due, TypeOK, IsStore
  <2> QED BY <2>1, CronAssumption, FS_Subset, ZenonT(60) DEF TypeOK
<1>2. R \subseteq D /\ IsFiniteSet(R)
  <2>1. R \subseteq D BY DEF ReadyNames
  <2> QED BY <1>1, <2>1, FS_Subset
<1>3. \A x : IsFiniteSet(Below(x)) /\ Cardinality(Below(x)) \in Nat
  <2> SUFFICES ASSUME NEW x PROVE IsFiniteSet(Below(x)) /\ Cardinality(Below(x)) \in Nat
    OBVIOUS
  <2>1. Below(x) \subseteq D OBVIOUS
  <2>2. IsFiniteSet(Below(x)) BY <1>1, <2>1, FS_Subset
  <2> QED BY <2>2, FS_CardinalityType
<1>4. \A x \in D : x \notin R <=> Cardinality(Below(x)) # 0 /\ ~(Cardinality(Below(x)) < limit)
  BY DEF ReadyNames
<1> HIDE DEF D, R
<1>5. \A m \in R : m < n
  <2> SUFFICES ASSUME NEW m \in R, ~(m < n) PROVE FALSE
    OBVIOUS
  <2>1. n \in D /\ m \in D /\ n \notin R BY <1>2 DEF D, R
  <2>2. n \in Nat /\ m \in Nat /\ n # m BY <1>1, <2>1
  <2>3. Below(n) \subseteq Below(m)
    <3>1. \A y \in D : y < n => y < m BY <1>1, <2>2
    <3> QED BY <3>1
  <2>4. Cardinality(Below(n)) <= Cardinality(Below(m)) BY <1>3, <2>3, FS_Subset
  <2> QED BY <1>1, <1>3, <1>4, <2>1, <2>4
<1>6. Cardinality(R) >= limit
  <2>1. D \ R \in SUBSET Nat /\ n \in D \ R BY <1>1 DEF D, R
  <2>2. PICK l \in D \ R : \A x \in D \ R : l <= x BY <2>1, LeastElement, ZenonT(60)
  <2>3. Below(l) \subseteq R
    <3> SUFFICES ASSUME NEW y \in D, y < l, y \notin R PROVE FALSE
      OBVIOUS
    <3> QED BY <1>1, <2>2
  <2>4. Cardinality(Below(l)) <= Cardinality(R) BY <1>2, <2>3, FS_Subset
  <2>5. Cardinality(R) \in Nat BY <1>2, FS_CardinalityType
  <2> QED BY <1>1, <1>3, <1>4, <2>4, <2>5
<1> QED BY <1>5, <1>6 DEF R

\* As many pairs <<name, stage>> as names.
LEMMA PairsWithStage ==
    ASSUME NEW S, IsFiniteSet(S), NEW stage
    PROVE  Cardinality({<<n, stage>> : n \in S}) = Cardinality(S)
<1> DEFINE T == {<<n, stage>> : n \in S}
           f == [n \in S |-> <<n, stage>>]
<1>1. f \in [S -> T] OBVIOUS
<1>2. \A a, b \in S : f[a] = f[b] => a = b OBVIOUS
<1>3. \A t \in T : \E n \in S : f[n] = t OBVIOUS
<1> HIDE DEF f, T
<1>4. f \in Bijection(S, T)
  BY <1>1, <1>2, <1>3 DEF Bijection, Injection, Surjection, IsInjective
<1>5. ExistsBijection(S, T) BY <1>4 DEF ExistsBijection
<1>6. Cardinality(T) = Cardinality(S) BY <1>5, FS_Bijection
<1> QED BY <1>6 DEF T

-----------------------------------------------------------------------------
(* What is executed in a stage. *)

InStage == phase \in {"begin", "end"}
CurrentStage == IF phase = "begin" THEN "BEGIN_BLOCKER" ELSE "END_BLOCKER"

\* The schedules of the list: executed already, or still in the queue.
Mine == {x \in executed : x[2] = CurrentStage}
Listed == Mine \cup {<<q[1], CurrentStage>> : q \in queue}

\* While a list is executed its schedules are those of its stage, what is due
\* and not listed lost against the limit, and what was executed and is still
\* stored bears this block's height.
ListInv ==
    /\ ~InStage => queue = {}
    /\ phase \in {"begin", "txs"} => \A x \in executed : x[2] = "BEGIN_BLOCKER"
    /\ \A q \in queue : q[2].stage = CurrentStage
    /\ InStage => \A n \in Due(CurrentStage, height) : <<n, CurrentStage>> \notin Listed =>
                      Cardinality(Listed) >= limit /\ \A x \in Listed : x[1] < n
    /\ InStage => \A x \in Mine : x[1] \in DOMAIN schedules =>
                      schedules[x[1]].lastExecuteHeight = height

\* The invariant holds when a list has just been read.
LEMMA ListRead ==
    ASSUME TypeOK, schedules' = schedules, limit' = limit, phase' \in {"begin", "end"}, Mine' = {},
           queue' = getSchedulesReadyForExecution(CurrentStage', height')
    PROVE  /\ \A q \in queue' : q[2].stage = CurrentStage'
           /\ \A n \in Due(CurrentStage, height)' : <<n, CurrentStage'>> \notin Listed' =>
                  Cardinality(Listed') >= limit' /\ \A x \in Listed' : x[1] < n
<1> DEFINE S == CurrentStage'
           R == ReadyNames(S, height')
<1>1. queue' = {<<n, schedules[n]>> : n \in R}
  BY ReadyByName
<1>2. Due(CurrentStage, height)' = Due(S, height')
  BY DEF Due, intervalPassed
<1>3. R \subseteq Due(S, height') /\ IsFiniteSet(R)
  <2>1. R \subseteq Due(S, height') BY DEF ReadyNames
  <2>2. Due(S, height') \subseteq Names BY DEF Due, TypeOK, IsStore
  <2> QED BY <2>1, <2>2, CronAssumption, FS_Subset
<1>4. Listed' = {<<n, S>> : n \in R}
  <2> HIDE DEF R
  <2>1. Listed' = {<<q[1], S>> : q \in queue'} BY DEF Listed
  <2>2. \A x : (\E q \in queue' : x = <<q[1], S>>) <=> \E n \in R : x = <<n, S>>
    <3>1. \A n \in R : <<n, schedules[n]>> \in queue' /\ <<n, schedules[n]>>[1] = n
      BY <1>1
    <3>2. \A q \in queue' : \E n \in R : q[1] = n
      BY <1>1
    <3> QED BY <3>1, <3>2, ZenonT(60)
  <2> HIDE DEF S
  <2> QED BY <2>1, <2>2, ZenonT(60)
<1>5. \A n \in R : schedules[n].stage = S
  BY <1>3 DEF Due
<1> HIDE DEF R
<1>6. \A q \in queue' : q[2].stage = S
  BY <1>1, <1>5
<1>7. ASSUME NEW n \in Due(S, height'), <<n, S>> \notin Listed'
      PROVE  Cardinality(Listed') >= limit' /\ \A x \in Listed' : x[1] < n
  <2>1. n \notin R BY <1>4, <1>7
  <2>2. Cardinality(R) >= limit /\ \A m \in R : m < n
    BY <2>1, LeftOutByLimit DEF R
  <2>3. Cardinality(Listed') = Cardinality(R) BY <1>3, <1>4, PairsWithStage
  <2> QED BY <1>4, <2>2, <2>3
<1> QED BY <1>2, <1>6, <1>7

\* The execution of a schedule of the list.
LEMMA ListExecuted ==
    ASSUME TypeOK, ListInv, Execute
    PROVE  ListInv'
<1>1. PICK q \in queue, removed \in SUBSET Removable :
         /\ executeSchedule(q[1], q[2], removed)
         /\ queue' = queue \ {q}
         /\ executed' = executed \cup {<<q[1], q[2].stage>>}
         /\ UNCHANGED <<limit, height, phase>>
  BY DEF Execute
<1> DEFINE S == CurrentStage
<1>2. InStage /\ InStage' /\ CurrentStage' = S /\ q[2].stage = S
  BY <1>1 DEF ListInv, InStage, CurrentStage
<1>3. q[1] \in Names /\ q[2] \in Schedules BY DEF TypeOK
<1>4. Mine' = Mine \cup {<<q[1], S>>}
  BY <1>1, <1>2 DEF Mine
<1>5. Listed' = Listed
  BY <1>1, <1>2, <1>4 DEF Listed
<1>6. /\ \A n \in DOMAIN schedules' : n # q[1] => n \in DOMAIN schedules /\ schedules'[n] = schedules[n]
      /\ q[1] \in DOMAIN schedules' => schedules'[q[1]].lastExecuteHeight = height
  BY <1>1, <1>3 DEF executeSchedule, Put, Schedules
<1>7. <<q[1], S>> \in Listed
  BY DEF Listed
<1>8. \A n \in Due(CurrentStage, height)' : <<n, S>> \notin Listed => n \in Due(S, height)
  BY <1>1, <1>2, <1>6, <1>7 DEF Due, intervalPassed
<1>9. \A n \in Due(CurrentStage, height)' : <<n, S>> \notin Listed =>
          Cardinality(Listed) >= limit /\ \A x \in Listed : x[1] < n
  BY <1>2, <1>8 DEF ListInv
<1>10. \A x \in Mine' : x[1] \in DOMAIN schedules' => schedules'[x[1]].lastExecuteHeight = height
  BY <1>2, <1>4, <1>6 DEF ListInv
<1>11. phase \in {"begin", "txs"} => \A x \in executed' : x[2] = "BEGIN_BLOCKER"
  BY <1>1, <1>2 DEF ListInv, InStage, CurrentStage
<1>12. \A r \in queue' : r[2].stage = S
  BY <1>1 DEF ListInv
<1> HIDE DEF S
<1> QED BY <1>1, <1>2, <1>5, <1>9, <1>10, <1>11, <1>12 DEF ListInv, S

\* The lists of both stages are executed as they were read.
THEOREM ListsAreKept == Spec => []ListInv
<1>1. Init => ListInv
  BY DEF Init, ListInv, InStage
<1>2. ListInv /\ TypeOK /\ [Next]_cronVars => ListInv'
  <2> SUFFICES ASSUME ListInv, TypeOK, [Next]_cronVars PROVE ListInv'
    OBVIOUS
  <2>1. CASE BeginBlock
    <3>1. phase' = "begin" /\ CurrentStage' = "BEGIN_BLOCKER" /\ Mine' = {} /\ InStage'
      BY <2>1 DEF BeginBlock, CurrentStage, Mine, InStage
    <3>2. height' = height + 1 /\ schedules' = schedules /\ limit' = limit /\ executed' = {}
      BY <2>1 DEF BeginBlock
    <3>3. queue' = getSchedulesReadyForExecution(CurrentStage', height')
      BY <2>1, <3>1, <3>2 DEF BeginBlock
    <3>4. /\ \A q \in queue' : q[2].stage = CurrentStage'
          /\ \A n \in Due(CurrentStage, height)' : <<n, CurrentStage'>> \notin Listed' =>
                  Cardinality(Listed') >= limit' /\ \A x \in Listed' : x[1] < n
      BY <3>1, <3>2, <3>3, ListRead
    <3> QED BY <3>1, <3>2, <3>4 DEF ListInv
  <2>2. CASE Execute BY <2>2, ListExecuted
  <2>3. CASE EndBlock
    <3>1. phase' = "end" /\ CurrentStage' = "END_BLOCKER" /\ InStage'
      BY <2>3 DEF EndBlock, CurrentStage, InStage
    <3>2. Mine' = {}
      BY <2>3, <3>1 DEF EndBlock, Mine, ListInv
    <3>3. height' = height /\ schedules' = schedules /\ limit' = limit
      BY <2>3 DEF EndBlock
    <3>4. queue' = getSchedulesReadyForExecution(CurrentStage', height')
      BY <2>3, <3>1, <3>3 DEF EndBlock
    <3>5. /\ \A q \in queue' : q[2].stage = CurrentStage'
          /\ \A n \in Due(CurrentStage, height)' : <<n, CurrentStage'>> \notin Listed' =>
                  Cardinality(Listed') >= limit' /\ \A x \in Listed' : x[1] < n
      BY <3>1, <3>2, <3>3, <3>4, ListRead
    <3> QED BY <3>1, <3>2, <3>5 DEF ListInv
  <2>4. CASE DeliverTxs BY <2>4 DEF DeliverTxs, ListInv, InStage
  <2>5. CASE Add BY <2>5 DEF Add, ListInv, InStage
  <2>6. CASE Remove BY <2>6 DEF Remove, ListInv, InStage
  <2>7. CASE UpdateParams BY <2>7 DEF UpdateParams, ListInv, InStage
  <2>8. CASE Commit BY <2>8 DEF Commit, ListInv, InStage
  <2>9. CASE Reimport BY <2>9 DEF Reimport, ListInv, InStage
  <2>10. CASE UNCHANGED cronVars
    BY <2>10 DEF cronVars, ListInv, InStage, CurrentStage, Mine, Listed, Due, intervalPassed
  <2> QED
    BY <2>1, <2>2, <2>3, <2>4, <2>5, <2>6, <2>7, <2>8, <2>9, <2>10 DEF Next
<1> QED BY <1>1, <1>2, CronTypes, PTL DEF Spec

\* No interval reaches the end of uint64.  A schedule whose interval does is
\* due again in the block that executed it.
NoIntervalWraps == \A p \in Periods : MaxHeight + p < Modulus

\* When a stage is over, a schedule of that stage that is still due was passed
\* over because the limit was used up by schedules with smaller names, whatever
\* the schedules' messages removed on the way.
THEOREM PassedOverOnlyByLimit == NoIntervalWraps => (Spec => []PassedOverByLimitOnly)
<1> SUFFICES ASSUME NoIntervalWraps PROVE Spec => []PassedOverByLimitOnly
  OBVIOUS
<1>1. TypeOK /\ ListInv => PassedOverByLimitOnly
  <2> SUFFICES ASSUME TypeOK, ListInv, NEW stage \in Stages, queue = {},
                      phase = (IF stage = "BEGIN_BLOCKER" THEN "begin" ELSE "end"),
                      NEW n \in Due(stage, height)
               PROVE  /\ Cardinality({x \in executed : x[2] = stage}) >= limit
                      /\ \A x \in {y \in executed : y[2] = stage} : x[1] < n
    BY DEF PassedOverByLimitOnly
  <2>1. InStage /\ CurrentStage = stage
    BY DEF InStage, CurrentStage, Stages
  <2>2. Mine = {x \in executed : x[2] = stage} /\ Listed = Mine
    BY <2>1 DEF Mine, Listed
  <2>3. <<n, stage>> \notin Listed
    <3> SUFFICES ASSUME <<n, stage>> \in Mine PROVE FALSE
      BY <2>2
    <3>1. n \in DOMAIN schedules /\ intervalPassed(schedules[n], height)
      BY DEF Due
    <3>2. schedules[n].lastExecuteHeight = height
      BY <2>1, <3>1 DEF ListInv
    <3>3. schedules[n].period \in Periods
      BY <3>1 DEF TypeOK, IsStore, Schedules
    <3>4. PICK p \in Periods : p = schedules[n].period
      BY <3>3
    <3>5. p \in Nat /\ p > 0 /\ height \in Nat /\ height + p < Modulus /\ Modulus \in Nat
      BY CronAssumption DEF NoIntervalWraps, TypeOK
    <3>6. (height + p) % Modulus = height + p
      BY <3>5
    <3>7. height >= (height + p) % Modulus
      BY <3>1, <3>2, <3>4 DEF intervalPassed
    <3> QED BY <3>5, <3>6, <3>7
  <2> QED BY <2>1, <2>2, <2>3 DEF ListInv
<1> QED BY <1>1, CronTypes, ListsAreKept, PTL

-----------------------------------------------------------------------------
(* InterchainQueries *)

\* From here on leaves are translated without types.
USE Untyped

\* Ids above the counter are fresh: no store knows them.
IdsKnown ==
    /\ \A id \in DOMAIN queries : id # 0 /\ id <= lastID
    /\ \A id \in toRemove : id <= lastID

IcqInv ==
    /\ IcqTypeOK
    /\ FiniteStore(Deposits) /\ DepositsBacked
    /\ IdsKnown
    /\ ResultsMatchQueries
    /\ NoOrphanHashes
    /\ IsFiniteSet(txHashes)

\* Paying a deposit into the module account.
LEMMA Collect ==
    ASSUME NEW b \in [Callers \cup {IcqModule} -> Nat], NEW a \in Callers, NEW n \in Nat, b[a] >= n
    PROVE  /\ Pay(b, a, IcqModule, n) \in [Callers \cup {IcqModule} -> Nat]
           /\ Pay(b, a, IcqModule, n)[IcqModule] = b[IcqModule] + n
BY IcqAssumption DEF Pay

\* Paying a deposit out of it.
LEMMA PayOut ==
    ASSUME NEW b \in [Callers \cup {IcqModule} -> Nat], NEW a \in Callers, NEW n \in Nat,
           b[IcqModule] >= n
    PROVE  /\ Pay(b, IcqModule, a, n) \in [Callers \cup {IcqModule} -> Nat]
           /\ Pay(b, IcqModule, a, n)[IcqModule] = b[IcqModule] - n
BY IcqAssumption DEF Pay

\* The deposit of a registered query can be paid to anyone, and the rest is
\* backed again when the query is gone.
LEMMA RemovalKeepsBacking ==
    ASSUME IcqTypeOK, FiniteStore(Deposits), DepositsBacked,
           NEW id \in DOMAIN queries, NEW a \in Callers,
           balances' = Pay(balances, IcqModule, a, queries[id].deposit),
           Deposits' = Drop(Deposits, id)
    PROVE  /\ balances' \in [Callers \cup {IcqModule} -> Nat]
           /\ FiniteStore(Deposits)' /\ DepositsBacked'
<1> DEFINE n == queries[id].deposit
           rest == Drop(Deposits, id)
<1>1. n \in Nat /\ Deposits[id] = n /\ id \in DOMAIN Deposits
  BY DEF IcqTypeOK, IsStore, RegisteredQueries, Deposits
<1>2. FiniteStore(rest) /\ SumOf(Deposits) = SumOf(rest) + n
  BY <1>1, SumDrop
<1>3. SumOf(rest) \in Nat
  BY <1>2, SumType
<1>4. balances[IcqModule] = SumOf(rest) + n
  BY <1>2 DEF DepositsBacked
<1>5. balances[IcqModule] >= n
  BY <1>1, <1>3, <1>4
<1>6. balances \in [Callers \cup {IcqModule} -> Nat]
  BY DEF IcqTypeOK
<1>7. /\ balances' \in [Callers \cup {IcqModule} -> Nat]
      /\ balances'[IcqModule] = balances[IcqModule] - n
  BY <1>1, <1>5, <1>6, PayOut, ZenonT(60)
<1>8. balances'[IcqModule] = SumOf(rest)
  BY <1>1, <1>3, <1>4, <1>7
<1> QED
  BY <1>2, <1>7, <1>8, ZenonT(60) DEF DepositsBacked, FiniteStore, SumOf, Units

\* A step that leaves the deposits and the balances alone keeps the backing.
LEMMA BackingStays ==
    ASSUME FiniteStore(Deposits), DepositsBacked, Deposits' = Deposits, UNCHANGED balances
    PROVE  FiniteStore(Deposits)' /\ DepositsBacked'
BY DEF FiniteStore, DepositsBacked, SumOf, Units

LEMMA InitIcqInv == IcqInit => IcqInv
<1> SUFFICES ASSUME IcqInit PROVE IcqInv
  OBVIOUS
<1>1. Deposits = EmptyStore
  BY DEF IcqInit, Deposits, EmptyStore
<1>2. IcqTypeOK
  BY IcqAssumption DEF IcqInit, IcqTypeOK, IsStore, EmptyStore
<1>3. FiniteStore(Deposits) /\ DepositsBacked
  BY <1>1, SumEmpty, IcqAssumption DEF IcqInit, DepositsBacked
<1> QED
  BY <1>2, <1>3, FS_EmptySet DEF IcqInit, IcqInv, IdsKnown, ResultsMatchQueries, NoOrphanHashes, EmptyStore

LEMMA RegisterIcqInv == IcqInv /\ Register => IcqInv'
<1> SUFFICES ASSUME IcqInv, Register PROVE IcqInv'
  OBVIOUS
<1> PICK owner \in Owners, type \in {"kv", "tx"}, keys \in KeySets :
           /\ RegisterInterchainQuery(owner, type, keys)
           /\ UNCHANGED <<icqParams, localHeight, restarts, delivered>>
  BY DEF Register
<1> DEFINE id == lastID + 1
           n == icqParams.QueryDeposit
           q == [owner |-> owner, type |-> type, keys |-> keys, deposit |-> n,
                 submitTimeout |-> icqParams.QuerySubmitTimeout, registeredAt |-> localHeight,
                 lastLocal |-> 0, lastRemote |-> 0]
<1>1. /\ balances[owner] >= n /\ balances' = Pay(balances, owner, IcqModule, n)
      /\ lastID' = id /\ queries' = Put(queries, id, q)
      /\ UNCHANGED <<results, txHashes, toRemove, icqParams, localHeight, restarts, delivered>>
  BY DEF RegisterInterchainQuery
<1>2. n \in Nat /\ id \in Nat /\ lastID \in Nat /\ owner \in Callers
      /\ balances \in [Callers \cup {IcqModule} -> Nat]
  BY DEF IcqInv, IcqTypeOK, IcqParams, Callers
<1>3. q \in RegisteredQueries /\ q.deposit = n
  BY <1>2 DEF RegisteredQueries, IcqInv, IcqTypeOK, IcqParams
<1>4. id \notin DOMAIN queries
  BY <1>2 DEF IcqInv, IdsKnown, IcqTypeOK, IsStore
<1> HIDE DEF id, q, n
<1>5. /\ balances' \in [Callers \cup {IcqModule} -> Nat]
      /\ balances'[IcqModule] = balances[IcqModule] + n
  BY <1>1, <1>2, Collect, Zenon
<1>6. IsStore(queries', Nat, RegisteredQueries)
  BY <1>1, <1>2, <1>3 DEF IsStore, Put, IcqInv, IcqTypeOK
<1>7. IcqTypeOK'
  BY <1>1, <1>2, <1>5, <1>6 DEF IcqInv, IcqTypeOK, IsStore
<1>8. Deposits' = Put(Deposits, id, n)
  BY <1>1, <1>3 DEF Deposits, Put
<1>9. /\ FiniteStore(Put(Deposits, id, n))
      /\ SumOf(Put(Deposits, id, n)) = SumOf(Deposits) + n
  <2>1. id \notin DOMAIN Deposits
    BY <1>4 DEF Deposits
  <2> QED BY <2>1, <1>2, SumPut DEF IcqInv
<1>10. FiniteStore(Deposits)' /\ DepositsBacked'
  BY <1>5, <1>8, <1>9, ZenonT(60) DEF IcqInv, DepositsBacked, FiniteStore, SumOf, Units
<1>11. IdsKnown'
  BY <1>1, <1>2 DEF id, IcqInv, IdsKnown, IcqTypeOK, IsStore, Put
<1>12. ResultsMatchQueries' /\ NoOrphanHashes'
  BY <1>1, <1>4 DEF IcqInv, ResultsMatchQueries, NoOrphanHashes, Put
<1> QED
  BY <1>1, <1>7, <1>10, <1>11, <1>12 DEF IcqInv

\* What removing query id does to the stores, whoever is paid.
LEMMA RemovalIcqInv ==
    ASSUME IcqInv, NEW id \in DOMAIN queries, NEW a \in Callers,
           balances' = Pay(balances, IcqModule, a, queries[id].deposit),
           queries' = Drop(queries, id),
           results' = Drop(results, id) \/ (queries[id].type # "kv" /\ results' = results),
           toRemove' = IF queries[id].type = "tx" THEN toRemove \cup {id} ELSE toRemove,
           UNCHANGED <<lastID, txHashes, icqParams, localHeight, restarts, delivered>>
    PROVE  IcqInv'
<1>1. Deposits' = Drop(Deposits, id)
  BY DEF Deposits, Drop
<1>2. /\ balances' \in [Callers \cup {IcqModule} -> Nat]
      /\ FiniteStore(Deposits)' /\ DepositsBacked'
  BY <1>1, RemovalKeepsBacking DEF IcqInv
<1>3. IsStore(queries', Nat, RegisteredQueries) /\ id \in Nat
  BY DEF IcqInv, IcqTypeOK, IsStore, Drop
<1>4. IsStore(results', Nat, [keys : KeySets, remote : RemoteHeights])
  BY DEF IcqInv, IcqTypeOK, IsStore, Drop
<1>5. IcqTypeOK'
  BY <1>2, <1>3, <1>4 DEF IcqInv, IcqTypeOK, IsStore
<1>6. IdsKnown'
  BY DEF IcqInv, IdsKnown, Drop
<1>7. ResultsMatchQueries'
  BY DEF IcqInv, ResultsMatchQueries, Drop
<1>8. NoOrphanHashes'
  BY DEF IcqInv, NoOrphanHashes, Drop
<1> QED
  BY <1>2, <1>5, <1>6, <1>7, <1>8 DEF IcqInv

LEMMA RemoveIcqInv == IcqInv /\ RemoveRegistered => IcqInv'
<1> SUFFICES ASSUME IcqInv, RemoveRegistered PROVE IcqInv'
  OBVIOUS
<1> PICK caller \in Callers, id \in DOMAIN queries :
           /\ RemoveInterchainQuery(caller, id)
           /\ UNCHANGED <<icqParams, localHeight, restarts, delivered>>
  BY DEF RemoveRegistered
<1>1. /\ balances' = Pay(balances, IcqModule, caller, queries[id].deposit)
      /\ queries' = Drop(queries, id)
      /\ results' = Drop(results, id) \/ (queries[id].type # "kv" /\ results' = results)
      /\ toRemove' = IF queries[id].type = "tx" THEN toRemove \cup {id} ELSE toRemove
      /\ UNCHANGED <<lastID, txHashes, icqParams, localHeight, restarts, delivered>>
  BY DEF RemoveInterchainQuery, RemoveQuery
<1> QED
  BY <1>1, RemovalIcqInv

LEMMA UpdateIcqInv == IcqInv /\ Update => IcqInv'
<1> SUFFICES ASSUME IcqInv, Update PROVE IcqInv'
  OBVIOUS
<1> PICK caller \in Owners, id \in DOMAIN queries, keys \in KeySets :
           /\ UpdateInterchainQuery(caller, id, keys)
           /\ UNCHANGED <<icqParams, localHeight, restarts, delivered>>
  BY DEF Update
<1> DEFINE q == [queries[id] EXCEPT !.keys = IF queries[id].type = "kv" THEN keys ELSE @]
<1>1. /\ queries' = [queries EXCEPT ![id] = q]
      /\ UNCHANGED <<balances, lastID, results, txHashes, toRemove, icqParams, localHeight, restarts, delivered>>
  BY DEF UpdateInterchainQuery
<1>2. queries \in [DOMAIN queries -> RegisteredQueries] /\ DOMAIN queries \subseteq Nat
  BY DEF IcqInv, IcqTypeOK, IsStore
<1>3. queries[id] \in RegisteredQueries
  BY <1>2
<1>4. /\ q \in RegisteredQueries /\ q.deposit = queries[id].deposit
      /\ q.type = queries[id].type /\ q.lastRemote = queries[id].lastRemote
  BY <1>3 DEF RegisteredQueries
<1> HIDE DEF q
<1>5. DOMAIN queries' = DOMAIN queries
      /\ \A i \in DOMAIN queries : queries'[i] = IF i = id THEN q ELSE queries[i]
  BY <1>1, <1>2
<1>6. Deposits' = Deposits
  BY <1>4, <1>5 DEF Deposits
<1>7. FiniteStore(Deposits)' /\ DepositsBacked'
  BY <1>1, <1>6, BackingStays DEF IcqInv
<1>8. IsStore(queries', Nat, RegisteredQueries)
  BY <1>1, <1>2, <1>4 DEF IsStore
<1>9. IcqTypeOK'
  BY <1>1, <1>8 DEF IcqInv, IcqTypeOK, IsStore
<1>10. IdsKnown' /\ ResultsMatchQueries' /\ NoOrphanHashes'
  BY <1>1, <1>4, <1>5 DEF IcqInv, IdsKnown, ResultsMatchQueries, NoOrphanHashes
<1> QED
  BY <1>1, <1>7, <1>9, <1>10 DEF IcqInv

LEMMA SubmitKVIcqInv == IcqInv /\ SubmitKV => IcqInv'
<1> SUFFICES ASSUME IcqInv, SubmitKV PROVE IcqInv'
  OBVIOUS
<1> PICK id \in DOMAIN queries, keys \in KeySets, remote \in RemoteHeights, rm \in BOOLEAN :
           /\ SubmitKVResult(id, keys, remote, rm)
           /\ UNCHANGED <<icqParams, localHeight, restarts>>
  BY DEF SubmitKV
<1> DEFINE q == queries[id]
           saved == [q EXCEPT !.lastRemote = remote, !.lastLocal = localHeight]
           res == [keys |-> keys, remote |-> remote]
           qs == Put(queries, id, saved)
           rs == Put(results, id, res)
<1>1. /\ q.type = "kv"
      /\ IF rm THEN /\ RemoveQuery(qs, rs, id)
                    /\ balances' = Pay(balances, IcqModule, q.owner, q.deposit)
               ELSE /\ queries' = qs /\ results' = rs
                    /\ UNCHANGED <<balances, toRemove>>
      /\ UNCHANGED <<lastID, txHashes, icqParams, localHeight, restarts, delivered>>
  BY DEF SubmitKVResult
<1>2. q \in RegisteredQueries /\ localHeight \in Nat /\ id \in Nat
  BY DEF IcqInv, IcqTypeOK, IsStore
<1>3. /\ saved \in RegisteredQueries /\ saved.deposit = q.deposit
      /\ saved.type = q.type /\ saved.lastRemote = remote
  BY <1>2, ZenonT(60) DEF RegisteredQueries
<1>4. res \in [keys : KeySets, remote : RemoteHeights] /\ res.remote = remote
  OBVIOUS
<1>5. q.owner \in Callers
  BY <1>2 DEF RegisteredQueries, Callers
<1> HIDE DEF saved, res
<1>6. CASE rm
  <2>1. qs[id].type = "kv"
    BY <1>1, <1>3 DEF Put
  <2>2. Drop(qs, id) = Drop(queries, id) /\ Drop(rs, id) = Drop(results, id)
    BY DEF Put, Drop
  <2>3. /\ queries' = Drop(queries, id) /\ results' = Drop(results, id)
        /\ toRemove' = toRemove
    BY <1>1, <1>6, <2>1, <2>2 DEF RemoveQuery
  <2> QED
    BY <1>1, <1>5, <1>6, <2>3, RemovalIcqInv
<1>7. CASE ~rm
  <2>1. /\ queries' = qs /\ results' = rs
        /\ UNCHANGED <<balances, toRemove, lastID, txHashes, icqParams, localHeight, restarts, delivered>>
    BY <1>1, <1>7
  <2>2. Deposits' = Deposits
    BY <2>1, <1>3 DEF Deposits, Put
  <2>3. FiniteStore(Deposits)' /\ DepositsBacked'
    BY <2>1, <2>2, BackingStays DEF IcqInv
  <2>4. IsStore(queries', Nat, RegisteredQueries)
    BY <2>1, <1>2, <1>3 DEF IcqInv, IcqTypeOK, IsStore, Put
  <2>5. IsStore(results', Nat, [keys : KeySets, remote : RemoteHeights])
    BY <2>1, <1>2, <1>4 DEF IcqInv, IcqTypeOK, IsStore, Put
  <2>6. IcqTypeOK'
    BY <2>1, <2>4, <2>5 DEF IcqInv, IcqTypeOK, IsStore
  <2>7. IdsKnown' /\ NoOrphanHashes'
    BY <2>1, <1>3 DEF IcqInv, IdsKnown, NoOrphanHashes, Put
  <2>8. ResultsMatchQueries'
    BY <2>1, <1>1, <1>3, <1>4 DEF IcqInv, ResultsMatchQueries, Put
  <2> QED
    BY <2>1, <2>3, <2>6, <2>7, <2>8 DEF IcqInv
<1> QED
  BY <1>6, <1>7

LEMMA SubmitTxIcqInv == IcqInv /\ SubmitTx => IcqInv'
<1> SUFFICES ASSUME IcqInv, SubmitTx PROVE IcqInv'
  OBVIOUS
<1> PICK id \in DOMAIN queries, hash \in Hashes, k \in 1..MaxNesting :
           /\ SubmitTxResult(id, hash, k)
           /\ UNCHANGED <<icqParams, localHeight, restarts>>
  BY DEF SubmitTx
<1> DEFINE q == [queries[id] EXCEPT !.lastLocal = localHeight]
           x == <<id, hash>>
           n == Delivered(x) + k
<1>1. /\ queries[id].type = "tx"
      /\ queries' = [queries EXCEPT ![id] = q]
      /\ \/ UNCHANGED <<txHashes, delivered>>
         \/ txHashes' = txHashes \cup {x} /\ delivered' = Put(delivered, x, n)
      /\ UNCHANGED <<balances, lastID, results, toRemove, icqParams, localHeight, restarts>>
  BY DEF SubmitTxResult
<1>2. queries \in [DOMAIN queries -> RegisteredQueries] /\ DOMAIN queries \subseteq Nat /\ localHeight \in Nat
  BY DEF IcqInv, IcqTypeOK, IsStore
<1>3. queries[id] \in RegisteredQueries
  BY <1>2
<1>4. /\ q \in RegisteredQueries /\ q.deposit = queries[id].deposit
      /\ q.type = queries[id].type /\ q.lastRemote = queries[id].lastRemote
  BY <1>2, <1>3 DEF RegisteredQueries
<1>5. x \in Nat \X Hashes /\ x[1] = id /\ n \in Nat
  BY <1>2 DEF IcqInv, IcqTypeOK, IsStore, Delivered
<1> HIDE DEF q, x, n
<1>6. DOMAIN queries' = DOMAIN queries
      /\ \A i \in DOMAIN queries : queries'[i] = IF i = id THEN q ELSE queries[i]
  BY <1>1, <1>2
<1>7. Deposits' = Deposits
  BY <1>4, <1>6 DEF Deposits
<1>8. FiniteStore(Deposits)' /\ DepositsBacked'
  BY <1>1, <1>7, BackingStays DEF IcqInv
<1>9. IsStore(queries', Nat, RegisteredQueries)
  BY <1>1, <1>2, <1>4 DEF IsStore
<1>10. IsStore(delivered', Nat \X Hashes, Nat)
  BY <1>1, <1>5 DEF IcqInv, IcqTypeOK, IsStore, Put
<1>11. txHashes' \subseteq Nat \X Hashes
  BY <1>1, <1>5 DEF IcqInv, IcqTypeOK
<1>12. IcqTypeOK'
  BY <1>1, <1>9, <1>10, <1>11 DEF IcqInv, IcqTypeOK, IsStore
<1>13. IdsKnown' /\ ResultsMatchQueries'
  BY <1>1, <1>4, <1>6 DEF IcqInv, IdsKnown, ResultsMatchQueries
<1>14. NoOrphanHashes'
  BY <1>1, <1>4, <1>5, <1>6 DEF IcqInv, NoOrphanHashes
<1>15. IsFiniteSet(txHashes')
  BY <1>1, FS_AddElement DEF IcqInv
<1> QED
  BY <1>8, <1>12, <1>13, <1>14, <1>15 DEF IcqInv

\* The cleanup takes a query off the list only together with its last hash:
\* if fewer than cap hashes come up to the end of the query, each of its
\* hashes has fewer than cap before it.
LEMMA CompleteMeansNoHashes ==
    ASSUME IcqInv, NEW cap \in Nat, NEW ids, NEW x \in txHashes,
           x[1] \in CompleteRemovals(ids, cap)
    PROVE  x \in HashesToRemove(ids, cap)
<1> DEFINE mine == {y \in txHashes : y[1] \in ids}
           before == {y \in mine : Precedes(y, x)}
           upTo == {y \in txHashes : y[1] \in ids /\ y[1] <= x[1]}
<1>1. x[1] \in ids /\ (cap = 0 \/ Cardinality(upTo) < cap)
  BY ZenonT(60) DEF CompleteRemovals
<1>2. \A y \in txHashes : y[1] \in Nat
  BY DEF IcqInv, IcqTypeOK
<1>3. before \subseteq upTo
  BY <1>2 DEF Precedes
<1>4. IsFiniteSet(upTo)
  BY FS_Subset DEF IcqInv
<1>5. /\ Cardinality(before) <= Cardinality(upTo)
      /\ Cardinality(before) \in Nat /\ Cardinality(upTo) \in Nat
  BY <1>3, <1>4, FS_Subset, FS_CardinalityType
<1>6. cap = 0 \/ Cardinality(before) < cap
  BY <1>1, <1>5
<1> QED
  BY <1>1, <1>6 DEF HashesToRemove

LEMMA EndBlockIcqInv == IcqInv /\ IcqEndBlock => IcqInv'
<1> SUFFICES ASSUME IcqInv, IcqEndBlock PROVE IcqInv'
  OBVIOUS
<1> DEFINE cap == icqParams.TxQueryRemovalLimit
           ids == GetTxQueriesToRemove(cap)
<1>1. /\ txHashes' = txHashes \ HashesToRemove(ids, cap)
      /\ toRemove' = toRemove \ CompleteRemovals(ids, cap)
      /\ localHeight' = IF localHeight < MaxLocalHeight THEN localHeight + 1 ELSE localHeight
      /\ UNCHANGED <<balances, queries, lastID, results, icqParams, restarts, delivered>>
  BY DEF IcqEndBlock, TxQueriesCleanup
<1>2. cap \in Nat
  BY DEF IcqInv, IcqTypeOK, IcqParams
<1> HIDE DEF cap, ids
<1>3. IcqTypeOK'
  BY <1>1 DEF IcqInv, IcqTypeOK, IsStore
<1>4. Deposits' = Deposits
  BY <1>1 DEF Deposits
<1>5. FiniteStore(Deposits)' /\ DepositsBacked'
  BY <1>1, <1>4, BackingStays DEF IcqInv
<1>6. IdsKnown' /\ ResultsMatchQueries'
  BY <1>1 DEF IcqInv, IdsKnown, ResultsMatchQueries
<1>7. NoOrphanHashes'
  <2> SUFFICES ASSUME NEW x \in txHashes', ~(x[1] \in DOMAIN queries /\ queries[x[1]].type = "tx")
               PROVE  x[1] \in toRemove'
    BY <1>1 DEF NoOrphanHashes
  <2>1. x \in txHashes /\ x \notin HashesToRemove(ids, cap) /\ x[1] \in toRemove
    BY <1>1 DEF IcqInv, NoOrphanHashes
  <2>2. x[1] \notin CompleteRemovals(ids, cap)
    BY <1>2, <2>1, CompleteMeansNoHashes
  <2> QED
    BY <1>1, <2>1, <2>2
<1>8. IsFiniteSet(txHashes')
  BY <1>1, FS_Subset DEF IcqInv
<1> QED
  BY <1>3, <1>5, <1>6, <1>7, <1>8 DEF IcqInv

LEMMA RestartIcqInv == IcqInv /\ Restart => IcqInv'
<1> SUFFICES ASSUME IcqInv, Restart PROVE IcqInv'
  OBVIOUS
<1>1. Deposits' = Deposits
  BY DEF Deposits, Restart
<1>2. FiniteStore(Deposits)' /\ DepositsBacked'
  BY <1>1, BackingStays DEF IcqInv, Restart
<1>3. IcqTypeOK'
  BY DEF IcqInv, IcqTypeOK, IsStore, Restart, EmptyStore
<1>4. IdsKnown'
  BY DEF IcqInv, IdsKnown, Restart
<1>5. ResultsMatchQueries' /\ NoOrphanHashes' /\ IsFiniteSet(txHashes')
  BY FS_EmptySet DEF ResultsMatchQueries, NoOrphanHashes, Restart, EmptyStore
<1> QED
  BY <1>2, <1>3, <1>4, <1>5 DEF IcqInv

LEMMA UnchangedIcqInv ==
    IcqInv /\ UNCHANGED <<balances, queries, lastID, results, txHashes, toRemove,
                          localHeight, restarts, delivered>>
           /\ icqParams' \in IcqParams => IcqInv'
BY DEF IcqInv, IcqTypeOK, IsStore, Deposits, DepositsBacked, FiniteStore, SumOf, Units, IdsKnown,
       ResultsMatchQueries, NoOrphanHashes

\* IcqInv holds in every reachable state, for any contracts, keys, hashes,
\* parameters, timeouts and restarts.
THEOREM IcqInductive == IcqSpec => []IcqInv
<1>1. IcqInit => IcqInv
  BY InitIcqInv
<1>2. IcqInv /\ [IcqNext]_icqVars => IcqInv'
  <2> SUFFICES ASSUME IcqInv, [IcqNext]_icqVars PROVE IcqInv'
    OBVIOUS
  <2>1. CASE UpdateIcqParams
    BY <2>1, UnchangedIcqInv, IcqAssumption DEF UpdateIcqParams
  <2>2. CASE UNCHANGED icqVars
    BY <2>2, UnchangedIcqInv DEF icqVars, IcqInv, IcqTypeOK
  <2> QED
    BY <2>1, <2>2, RegisterIcqInv, RemoveIcqInv, UpdateIcqInv, SubmitKVIcqInv, SubmitTxIcqInv,
       EndBlockIcqInv, RestartIcqInv DEF IcqNext
<1> QED
  BY <1>1, <1>2, PTL DEF IcqSpec

\* The module account always holds exactly the deposits of the registered
\* queries, so MustPayOutDeposit cannot panic, whatever governance does to
\* the deposit parameter and also over a restart from an exported genesis.
THEOREM DepositsAreBacked == IcqSpec => []DepositsBacked
<1>1. IcqInv => DepositsBacked
  BY DEF IcqInv
<1> QED
  BY <1>1, IcqInductive, PTL

\* TxQueriesCleanup, with any sequence of limits, leaves no hash behind whose
\* query is neither registered nor still on the list of removed queries.
THEOREM HashesAreOwned == IcqSpec => []NoOrphanHashes
<1>1. IcqInv => NoOrphanHashes
  BY DEF IcqInv
<1> QED
  BY <1>1, IcqInductive, PTL

\* A stored KV result is always the latest one of a registered KV query.
THEOREM ResultsAreOwned == IcqSpec => []ResultsMatchQueries
<1>1. IcqInv => ResultsMatchQueries
  BY DEF IcqInv
<1> QED
  BY <1>1, IcqInductive, PTL

\* A delivered transaction of a registered query is stored as processed, ids
\* on the list of removed queries are not registered, and no delivery is of an
\* id that is still to come.
OnceInv ==
    /\ \A id \in toRemove : id \notin DOMAIN queries
    /\ \A x \in DOMAIN delivered :
          /\ x[1] <= lastID
          /\ x[1] \in DOMAIN queries => x \in txHashes

DeliveredStay == \A x \in DOMAIN delivered : delivered'[x] = delivered[x]

\* A step keeps the invariant and repeats no delivery.
LEMMA OnceStep ==
    ASSUME IcqInv, OnceInv, [IcqNext]_icqVars, ~Restart
    PROVE  OnceInv' /\ DeliveredStay
<1> USE DEF OnceInv, DeliveredStay
<1>0. /\ lastID \in Nat /\ DOMAIN queries \subseteq Nat /\ DOMAIN delivered \subseteq Nat \X Hashes
      /\ txHashes \subseteq Nat \X Hashes
      /\ \A id \in DOMAIN queries : id <= lastID
      /\ \A id \in toRemove : id \in Nat /\ id <= lastID
  BY DEF IcqInv, IcqTypeOK, IsStore, IdsKnown
<1>1. CASE Register
  <2>1. /\ DOMAIN queries' = DOMAIN queries \cup {lastID + 1} /\ lastID' = lastID + 1
        /\ UNCHANGED <<toRemove, delivered, txHashes>>
    BY <1>1 DEF Register, RegisterInterchainQuery, Put
  <2>2. \A x \in DOMAIN delivered : x[1] \in Nat
    BY <1>0
  <2> QED BY <1>0, <2>1, <2>2
<1>2. CASE RemoveRegistered
  <2> PICK id \in DOMAIN queries : /\ DOMAIN queries' = DOMAIN queries \ {id}
                                   /\ toRemove' \subseteq toRemove \cup {id}
                                   /\ UNCHANGED <<lastID, delivered, txHashes>>
    BY <1>2 DEF RemoveRegistered, RemoveInterchainQuery, RemoveQuery, Drop
  <2> QED OBVIOUS
<1>3. CASE Update
  <2> DOMAIN queries' = DOMAIN queries /\ UNCHANGED <<lastID, toRemove, delivered, txHashes>>
    BY <1>3 DEF Update, UpdateInterchainQuery
  <2> QED OBVIOUS
<1>4. CASE SubmitKV
  <2> PICK id \in DOMAIN queries, keys \in KeySets, remote \in RemoteHeights, rm \in BOOLEAN :
             SubmitKVResult(id, keys, remote, rm)
    BY <1>4 DEF SubmitKV
  <2> DEFINE saved == [queries[id] EXCEPT !.lastRemote = remote, !.lastLocal = localHeight]
             qs == Put(queries, id, saved)
             rs == Put(results, id, [keys |-> keys, remote |-> remote])
  <2>1. UNCHANGED <<lastID, delivered, txHashes>>
    BY DEF SubmitKVResult
  <2>2. \/ RemoveQuery(qs, rs, id)
        \/ queries' = qs /\ toRemove' = toRemove
    BY DEF SubmitKVResult
  <2> HIDE DEF saved, rs
  <2>3. DOMAIN qs = DOMAIN queries
    BY DEF Put
  <2> HIDE DEF qs
  <2>4. CASE RemoveQuery(qs, rs, id)
    <3>1. DOMAIN queries' = DOMAIN queries \ {id} /\ toRemove' \subseteq toRemove \cup {id}
      BY <2>3, <2>4 DEF RemoveQuery, Drop
    <3> QED BY <2>1, <3>1
  <2>5. CASE queries' = qs /\ toRemove' = toRemove
    BY <2>1, <2>3, <2>5
  <2> QED BY <2>2, <2>4, <2>5
<1>5. CASE SubmitTx
  <2> PICK id \in DOMAIN queries, hash \in Hashes, n \in 1..MaxNesting :
             SubmitTxResult(id, hash, n)
    BY <1>5 DEF SubmitTx
  <2> DEFINE x == <<id, hash>>
  <2>1. DOMAIN queries' = DOMAIN queries /\ UNCHANGED <<lastID, toRemove>>
    BY DEF SubmitTxResult
  <2>2. CASE x \in txHashes
    BY <2>1, <2>2 DEF SubmitTxResult
  <2>3. CASE x \notin txHashes
    <3>1. x \notin DOMAIN delivered
      <4>1. x[1] \in DOMAIN queries
        OBVIOUS
      <4> QED BY <2>3, <4>1
    <3>2. txHashes' = txHashes \cup {x} /\ delivered' = Put(delivered, x, Delivered(x) + n)
      BY <2>3, <3>1 DEF SubmitTxResult
    <3>3. x[1] = id /\ id <= lastID
      BY <1>0
    <3> HIDE DEF x
    <3>4. /\ DOMAIN delivered' = DOMAIN delivered \cup {x}
          /\ \A y \in DOMAIN delivered : delivered'[y] = delivered[y]
      BY <3>1, <3>2 DEF Put
    <3> QED
      BY <2>1, <3>2, <3>3, <3>4
  <2> QED BY <2>2, <2>3
<1>6. CASE UpdateIcqParams
  BY <1>6 DEF UpdateIcqParams
<1>7. CASE IcqEndBlock
  <2> DEFINE cap == icqParams.TxQueryRemovalLimit
             ids == GetTxQueriesToRemove(cap)
  <2>1. /\ txHashes' = txHashes \ HashesToRemove(ids, cap) /\ toRemove' \subseteq toRemove
        /\ UNCHANGED <<queries, lastID, delivered>>
    BY <1>7 DEF IcqEndBlock, TxQueriesCleanup
  <2>2. \A x \in HashesToRemove(ids, cap) : x[1] \in toRemove
    BY DEF HashesToRemove, GetTxQueriesToRemove
  <2> HIDE DEF ids
  <2> QED BY <2>1, <2>2
<1>8. CASE UNCHANGED icqVars
  BY <1>8 DEF icqVars
<1> QED
  BY <1>1, <1>2, <1>3, <1>4, <1>5, <1>6, <1>7, <1>8 DEF IcqNext

\* Until the chain is restarted from an exported genesis, ProcessBlock passes
\* a transaction to the owner of a query in at most one message.
THEOREM TxDeliveredOnce == IcqSpec => TxAtMostOnce
<1> DEFINE UntilRestart == restarts = 0 => OnceInv
<1>1. IcqInit => UntilRestart
  BY DEF IcqInit, OnceInv, EmptyStore
<1>2. IcqInv /\ UntilRestart /\ [IcqNext]_icqVars => UntilRestart' /\ (restarts = 0 => DeliveredStay)
  <2> SUFFICES ASSUME IcqInv, UntilRestart, [IcqNext]_icqVars
               PROVE  UntilRestart' /\ (restarts = 0 => DeliveredStay)
    OBVIOUS
  <2>1. CASE Restart
    BY <2>1 DEF Restart, IcqInv, IcqTypeOK, DeliveredStay
  <2>2. CASE ~Restart
    <3>1. restarts' = restarts
      BY <2>2 DEF IcqNext, Register, RemoveRegistered, Update, SubmitKV, SubmitTx, UpdateIcqParams, IcqEndBlock, icqVars
    <3> QED BY <2>2, <3>1, OnceStep
  <2> QED BY <2>1, <2>2
<1>3. IcqInv /\ UntilRestart /\ [IcqNext]_icqVars
        => [restarts = 0 => \A x \in DOMAIN delivered : delivered'[x] = delivered[x]]_icqVars
  BY <1>2 DEF DeliveredStay
<1> HIDE DEF UntilRestart
<1> QED
  BY <1>1, <1>2, <1>3, IcqInductive, PTL DEF IcqSpec, TxAtMostOnce

-----------------------------------------------------------------------------
\* What a step does to the result of a query that has one before and after.
NewerResults ==
    \A id \in DOMAIN results \cap DOMAIN results' :
        results'[id] # results[id] => results'[id].remote > results[id].remote

LEMMA NewerStep ==
    ASSUME IcqInv, [IcqNext]_icqVars
    PROVE  NewerResults
<1>1. CASE Register \/ Update \/ SubmitTx \/ UpdateIcqParams \/ IcqEndBlock \/ UNCHANGED icqVars
  <2> results' = results
    BY <1>1, ZenonT(60) DEF Register, RegisterInterchainQuery, Update, UpdateInterchainQuery,
                SubmitTx, SubmitTxResult, UpdateIcqParams, IcqEndBlock, icqVars
  <2> QED BY DEF NewerResults
<1>2. CASE Restart
  BY <1>2 DEF Restart, EmptyStore, NewerResults
<1>3. CASE RemoveRegistered
  <2> PICK id \in DOMAIN queries : results' \in {results, Drop(results, id)}
    BY <1>3 DEF RemoveRegistered, RemoveInterchainQuery, RemoveQuery
  <2> QED BY DEF Drop, NewerResults
<1>4. CASE SubmitKV
  <2> PICK id \in DOMAIN queries, keys \in KeySets, remote \in RemoteHeights, rm \in BOOLEAN :
             SubmitKVResult(id, keys, remote, rm)
    BY <1>4 DEF SubmitKV
  <2> DEFINE entry == [keys |-> keys, remote |-> remote]
             rs == Put(results, id, entry)
  <2>1. checkLastRemoteHeight(queries[id], remote) /\ results' \in {rs, Drop(rs, id)}
    BY DEF SubmitKVResult, RemoveQuery
  <2>2. id \in DOMAIN results => remote > results[id].remote
    <3>1. id \in DOMAIN results => /\ results[id].remote = queries[id].lastRemote
                                   /\ results[id].remote \in RemoteHeights
      BY DEF IcqInv, ResultsMatchQueries, IcqTypeOK, IsStore
    <3> QED
      BY <2>1, <3>1, IcqAssumption DEF checkLastRemoteHeight
  <2>3. entry.remote = remote
    OBVIOUS
  <2> HIDE DEF entry
  <2>4. /\ rs[id] = entry
        /\ \A i \in DOMAIN results \ {id} : i \in DOMAIN rs /\ rs[i] = results[i]
        /\ DOMAIN rs = DOMAIN results \cup {id}
    BY DEF Put
  <2> HIDE DEF rs
  <2>5. /\ DOMAIN results' \subseteq DOMAIN rs
        /\ \A i \in DOMAIN results' : results'[i] = rs[i]
    BY <2>1 DEF Drop
  <2> QED BY <2>2, <2>3, <2>4, <2>5 DEF NewerResults
<1> QED
  BY <1>1, <1>2, <1>3, <1>4 DEF IcqNext

\* checkLastRemoteHeight: the height of a stored KV result only grows, in
\* whatever order results are submitted, queries removed and registered again,
\* and the chain restarted.
THEOREM ResultsGetNewer == IcqSpec => ResultsOnlyNewer
<1>1. IcqInv /\ [IcqNext]_icqVars
        => [\A id \in DOMAIN results \cap DOMAIN results' :
               results'[id] # results[id] => results'[id].remote > results[id].remote]_icqVars
  BY NewerStep DEF NewerResults
<1> QED
  BY <1>1, IcqInductive, PTL DEF IcqSpec, ResultsOnlyNewer

-----------------------------------------------------------------------------
\* The heights of a query are heights of blocks, and its timeout is one that
\* the parameters had at some time.
GoodDates(q) ==
    /\ q.registeredAt <= MaxLocalHeight + 1
    /\ q.lastLocal <= MaxLocalHeight + 1
    /\ \E params \in IcqParamChoices : q.submitTimeout = params.QuerySubmitTimeout

PeriodInv ==
    /\ icqParams \in IcqParamChoices
    /\ localHeight <= MaxLocalHeight + 1
    /\ \A id \in DOMAIN queries : GoodDates(queries[id])

\* No timeout that governance chooses takes a block height past 2^64.
NoTimeoutWraps == \A params \in IcqParamChoices : MaxLocalHeight + 1 + params.QuerySubmitTimeout < HeightModulus

LEMMA PeriodStep ==
    ASSUME IcqInv, PeriodInv, [IcqNext]_icqVars
    PROVE  PeriodInv'
<1>0. /\ localHeight \in Nat /\ localHeight <= MaxLocalHeight + 1 /\ icqParams \in IcqParamChoices
      /\ \A id \in DOMAIN queries : queries[id] \in RegisteredQueries /\ GoodDates(queries[id])
      /\ MaxLocalHeight \in Nat
  BY IcqAssumption DEF IcqInv, IcqTypeOK, IsStore, PeriodInv
<1>s. SUFFICES /\ icqParams' \in IcqParamChoices /\ localHeight' <= MaxLocalHeight + 1
               /\ \A id \in DOMAIN queries' : GoodDates(queries'[id])
  BY DEF PeriodInv, GoodDates
<1>1. CASE Register
  <2> PICK owner \in Owners, type \in {"kv", "tx"}, keys \in KeySets :
           RegisterInterchainQuery(owner, type, keys) /\ UNCHANGED <<icqParams, localHeight>>
    BY <1>1 DEF Register
  <2> DEFINE q == [owner |-> owner, type |-> type, keys |-> keys, deposit |-> icqParams.QueryDeposit,
                   submitTimeout |-> icqParams.QuerySubmitTimeout, registeredAt |-> localHeight,
                   lastLocal |-> 0, lastRemote |-> 0]
  <2>1. queries' = Put(queries, lastID + 1, q)
    BY DEF RegisterInterchainQuery
  <2>2. GoodDates(q)
    BY <1>0 DEF GoodDates
  <2> HIDE DEF q
  <2> QED BY <1>0, <2>1, <2>2 DEF Put
<1>2. CASE RemoveRegistered
  <2> PICK id \in DOMAIN queries : queries' = Drop(queries, id) /\ UNCHANGED <<icqParams, localHeight>>
    BY <1>2 DEF RemoveRegistered, RemoveInterchainQuery, RemoveQuery
  <2> QED BY <1>0 DEF Drop
<1>3. CASE Update
  <2> PICK id \in DOMAIN queries, keys \in KeySets :
           /\ queries' = [queries EXCEPT ![id].keys = IF queries[id].type = "kv" THEN keys ELSE @]
           /\ UNCHANGED <<icqParams, localHeight>>
    BY <1>3, ZenonT(60) DEF Update, UpdateInterchainQuery
  <2> DEFINE q == [queries[id] EXCEPT !.keys = IF queries[id].type = "kv" THEN keys ELSE @]
  <2>1. GoodDates(q)
    BY <1>0 DEF GoodDates, RegisteredQueries
  <2>2. /\ DOMAIN queries' = DOMAIN queries /\ queries'[id] = q
        /\ \A i \in DOMAIN queries \ {id} : queries'[i] = queries[i]
    OBVIOUS
  <2> HIDE DEF q
  <2> QED BY <1>0, <2>1, <2>2
<1>4. CASE SubmitKV
  <2> PICK id \in DOMAIN queries, keys \in KeySets, remote \in RemoteHeights, rm \in BOOLEAN :
             SubmitKVResult(id, keys, remote, rm) /\ UNCHANGED <<icqParams, localHeight>>
    BY <1>4 DEF SubmitKV
  <2> DEFINE q == [queries[id] EXCEPT !.lastRemote = remote, !.lastLocal = localHeight]
             qs == Put(queries, id, q)
  <2>1. queries' \in {qs, Drop(qs, id)}
    BY DEF SubmitKVResult, RemoveQuery
  <2>2. GoodDates(q)
    BY <1>0 DEF GoodDates, RegisteredQueries
  <2> HIDE DEF q
  <2>3. \A i \in DOMAIN qs : GoodDates(qs[i])
    BY <1>0, <2>2 DEF Put
  <2> HIDE DEF qs
  <2> QED BY <1>0, <2>1, <2>3 DEF Drop
<1>5. CASE SubmitTx
  <2> PICK id \in DOMAIN queries :
           queries' = [queries EXCEPT ![id].lastLocal = localHeight] /\ UNCHANGED <<icqParams, localHeight>>
    BY <1>5, ZenonT(60) DEF SubmitTx, SubmitTxResult
  <2> DEFINE q == [queries[id] EXCEPT !.lastLocal = localHeight]
  <2>1. GoodDates(q)
    BY <1>0 DEF GoodDates, RegisteredQueries
  <2>2. /\ DOMAIN queries' = DOMAIN queries /\ queries'[id] = q
        /\ \A i \in DOMAIN queries \ {id} : queries'[i] = queries[i]
    OBVIOUS
  <2> HIDE DEF q
  <2> QED BY <1>0, <2>1, <2>2
<1>6. CASE UpdateIcqParams
  BY <1>0, <1>6 DEF UpdateIcqParams
<1>7. CASE IcqEndBlock
  <2> /\ UNCHANGED <<queries, icqParams>>
      /\ localHeight' = IF localHeight < MaxLocalHeight THEN localHeight + 1 ELSE localHeight
    BY <1>7 DEF IcqEndBlock
  <2> QED BY <1>0
<1>8. CASE Restart
  BY <1>0, <1>8 DEF Restart
<1>9. CASE UNCHANGED icqVars
  BY <1>0, <1>9 DEF icqVars
<1> QED
  BY <1>1, <1>2, <1>3, <1>4, <1>5, <1>6, <1>7, <1>8, <1>9 DEF IcqNext

\* Below the modulus the sums of ValidateRemoval are plain sums.
LEMMA PlainSums ==
    ASSUME PeriodInv, IcqInv, NoTimeoutWraps, NEW id \in DOMAIN queries
    PROVE  /\ (queries[id].registeredAt + queries[id].submitTimeout) % HeightModulus
                = queries[id].registeredAt + queries[id].submitTimeout
           /\ (queries[id].lastLocal + queries[id].submitTimeout) % HeightModulus
                = queries[id].lastLocal + queries[id].submitTimeout
<1>1. /\ queries[id].registeredAt \in Nat /\ queries[id].lastLocal \in Nat
      /\ queries[id].submitTimeout \in Nat /\ MaxLocalHeight \in Nat /\ HeightModulus \in Nat \ {0}
  BY IcqAssumption DEF IcqInv, IcqTypeOK, IsStore, RegisteredQueries
<1>2. MaxLocalHeight + 1 + queries[id].submitTimeout < HeightModulus
  BY DEF PeriodInv, GoodDates, NoTimeoutWraps
<1>3. /\ queries[id].registeredAt <= MaxLocalHeight + 1 /\ queries[id].lastLocal <= MaxLocalHeight + 1
  BY DEF PeriodInv, GoodDates
<1>4. \A n \in Nat : n < HeightModulus => n % HeightModulus = n
  BY <1>1
<1> QED BY <1>1, <1>2, <1>3, <1>4

\* What a step that removes a query has paid to its owner, or waited for.
Served ==
    \A id \in DOMAIN queries \ DOMAIN queries' :
        \/ balances'[queries[id].owner] = balances[queries[id].owner] + queries[id].deposit
        \/ /\ localHeight > queries[id].registeredAt + queries[id].submitTimeout
           /\ localHeight > queries[id].lastLocal + queries[id].submitTimeout

LEMMA ServedStep ==
    ASSUME IcqInv, PeriodInv, NoTimeoutWraps, [IcqNext]_icqVars
    PROVE  Served
<1>0. \A id \in DOMAIN queries :
         /\ queries[id].owner \in Owners /\ queries[id].deposit \in Nat
         /\ Pay(balances, IcqModule, queries[id].owner, queries[id].deposit)[queries[id].owner]
              = balances[queries[id].owner] + queries[id].deposit
  <2> TAKE id \in DOMAIN queries
  <2>1. queries[id].owner \in Owners /\ queries[id].deposit \in Nat
    BY DEF IcqInv, IcqTypeOK, IsStore, RegisteredQueries
  <2>2. balances \in [Callers \cup {IcqModule} -> Nat] /\ queries[id].owner # IcqModule
    BY <2>1, IcqAssumption DEF IcqInv, IcqTypeOK, Callers
  <2> QED BY <2>1, <2>2 DEF Pay, Callers
<1>1. CASE Register \/ Update \/ SubmitTx \/ UpdateIcqParams \/ IcqEndBlock \/ Restart \/ UNCHANGED icqVars
  <2> DOMAIN queries \subseteq DOMAIN queries'
    BY <1>1, ZenonT(60) DEF Register, RegisterInterchainQuery, Update, UpdateInterchainQuery, SubmitTx,
                SubmitTxResult, UpdateIcqParams, IcqEndBlock, Restart, icqVars, Put
  <2> QED BY DEF Served
<1>2. CASE RemoveRegistered
  <2> PICK caller \in Callers, id \in DOMAIN queries : RemoveInterchainQuery(caller, id)
    BY <1>2 DEF RemoveRegistered
  <2>1. /\ DOMAIN queries \ DOMAIN queries' = {id}
        /\ ValidateRemoval(queries[id], caller)
        /\ balances' = Pay(balances, IcqModule, caller, queries[id].deposit)
    BY DEF RemoveInterchainQuery, RemoveQuery, Drop
  <2>2. CASE queries[id].owner = caller
    BY <1>0, <2>1, <2>2 DEF Served
  <2>3. CASE queries[id].owner # caller
    BY <2>1, <2>3, PlainSums DEF ValidateRemoval, Served
  <2> QED BY <2>2, <2>3
<1>3. CASE SubmitKV
  <2> PICK id \in DOMAIN queries, keys \in KeySets, remote \in RemoteHeights, rm \in BOOLEAN :
             SubmitKVResult(id, keys, remote, rm)
    BY <1>3 DEF SubmitKV
  <2> DEFINE qs == Put(queries, id, [queries[id] EXCEPT !.lastRemote = remote, !.lastLocal = localHeight])
  <2>1. DOMAIN qs = DOMAIN queries
    BY DEF Put
  <2>2. \/ queries' = qs
        \/ /\ queries' = Drop(qs, id)
           /\ balances' = Pay(balances, IcqModule, queries[id].owner, queries[id].deposit)
    BY DEF SubmitKVResult, RemoveQuery
  <2> HIDE DEF qs
  <2>3. CASE queries' = qs
    BY <2>1, <2>3 DEF Served
  <2>4. CASE /\ queries' = Drop(qs, id)
             /\ balances' = Pay(balances, IcqModule, queries[id].owner, queries[id].deposit)
    <3>1. DOMAIN queries \ DOMAIN queries' = {id}
      BY <2>1, <2>4 DEF Drop
    <3> QED BY <1>0, <2>4, <3>1 DEF Served
  <2> QED BY <2>2, <2>3, <2>4
<1> QED
  BY <1>1, <1>2, <1>3 DEF IcqNext

\* ValidateRemoval: as long as no timeout takes a height past 2^64, a query
\* that is in service is removed by nobody but its owner.  The timeout is the
\* one of its registration, whatever governance chose since.
THEOREM ServiceIsProtected == NoTimeoutWraps => (IcqSpec => ServicePeriod)
<1> SUFFICES ASSUME NoTimeoutWraps PROVE IcqSpec => ServicePeriod
  OBVIOUS
<1>1. IcqInit => PeriodInv
  BY IcqAssumption DEF IcqInit, PeriodInv, EmptyStore
<1>2. IcqInv /\ PeriodInv /\ [IcqNext]_icqVars => PeriodInv'
  BY PeriodStep
<1>3. IcqInv /\ PeriodInv /\ [IcqNext]_icqVars
        => [\A id \in DOMAIN queries \ DOMAIN queries' :
              \/ balances'[queries[id].owner] = balances[queries[id].owner] + queries[id].deposit
              \/ /\ localHeight > queries[id].registeredAt + queries[id].submitTimeout
                 /\ localHeight > queries[id].lastLocal + queries[id].submitTimeout]_icqVars
  BY ServedStep DEF Served
<1> QED
  BY <1>1, <1>2, <1>3, IcqInductive, PTL DEF IcqSpec, ServicePeriod

=============================================================================
