--------------------------- MODULE InterchainQueries ---------------------------
(***************************************************************************)
(* x/interchainqueries: contracts register queries against another chain   *)
(* for a deposit; relayers submit results; queries are removed by their    *)
(* owner, or by anyone after a timeout, and the hashes of a removed TX     *)
(* query are cleaned up at the end of the following blocks.                *)
(*                                                                         *)
(* Deposits are amounts of one denomination.  Remote heights are numbered  *)
(* in the order of revision and height; 0 stands for none.  Verifying      *)
(* proofs and headers is external: a submission that fails it is reverted  *)
(* and is no step.  Transaction hashes are numbers in key order.           *)
(***************************************************************************)
EXTENDS Stores

CONSTANTS Owners,           \* contracts
          Others,           \* accounts that are not contracts
          IcqModule,        \* the module account
          KeySets,          \* lists of keys a KV query may ask for
          Hashes,           \* hashes of remote transactions
          RemoteHeights,
          IcqParamChoices,
          InitialBalance,
          MaxQueries,       \* bound: queries registered
          MaxLocalHeight,        \* bound: block heights counted
          MaxRestarts,      \* bound: restarts from an exported genesis
          MaxNesting,       \* bound: submissions of one transaction within each other
          HeightModulus           \* 2^64 in the code

Callers == Owners \cup Others

IcqParams == [QuerySubmitTimeout : Nat, QueryDeposit : Nat, TxQueryRemovalLimit : Nat]

ASSUME IcqAssumption ==
    /\ IcqModule \notin Callers /\ Owners \cap Others = {}
    /\ Hashes \subseteq Nat /\ RemoteHeights \subseteq Nat \ {0}
    /\ IcqParamChoices \subseteq IcqParams
    /\ InitialBalance \in Nat /\ MaxQueries \in Nat /\ MaxRestarts \in Nat
    /\ MaxLocalHeight \in Nat /\ MaxNesting \in Nat /\ HeightModulus \in Nat \ {0}

VARIABLES balances,     \* [Callers \cup {IcqModule} -> Nat]
          queries,      \* store: id -> registered query
          lastID,       \* LastRegisteredQueryID
          results,      \* store: id -> the KV result, [keys, remote]
          txHashes,     \* set of <<id, hash>>: transactions submitted for a query
          toRemove,     \* ids of removed TX queries not yet cleaned up
          icqParams,
          localHeight,
          restarts,
          delivered     \* store: <<id, hash>> -> number of committed TX callbacks

icqVars == <<balances, queries, lastID, results, txHashes, toRemove, icqParams,
             localHeight, restarts, delivered>>

RegisteredQueries ==
    [owner : Owners, type : {"kv", "tx"}, keys : KeySets, deposit : Nat, submitTimeout : Nat,
     registeredAt : Nat, lastLocal : Nat, lastRemote : RemoteHeights \cup {0}]

Pay(b, from, to, n) == [b EXCEPT ![from] = @ - n, ![to] = @ + n]

-----------------------------------------------------------------------------
RegisterInterchainQuery(owner, type, keys) ==
    LET id == lastID + 1
        deposit == icqParams.QueryDeposit
    IN  /\ balances[owner] >= deposit
        /\ balances' = Pay(balances, owner, IcqModule, deposit)
        /\ lastID' = id
        /\ queries' = Put(queries, id,
               [owner |-> owner, type |-> type, keys |-> keys, deposit |-> deposit,
                submitTimeout |-> icqParams.QuerySubmitTimeout, registeredAt |-> localHeight,
                lastLocal |-> 0, lastRemote |-> 0])
        /\ UNCHANGED <<results, txHashes, toRemove>>

\* Mutant: only the registration height counts.
ValidateRegistration(q, caller) ==
    q.owner = caller \/ localHeight > (q.registeredAt + q.submitTimeout) % HeightModulus

\* The owner may remove a query at any time, others only when nothing
\* happened for the query's own timeout; the sums are taken in uint64.
ValidateRemoval(q, caller) ==
    \/ q.owner = caller
    \/ /\ localHeight > (q.registeredAt + q.submitTimeout) % HeightModulus
       /\ localHeight > (q.lastLocal + q.submitTimeout) % HeightModulus

\* RemoveQuery on the stores qs of queries and rs of results.
RemoveQuery(qs, rs, id) ==
    /\ queries' = Drop(qs, id)
    /\ results' = IF qs[id].type = "kv" THEN Drop(rs, id) ELSE rs
    /\ toRemove' = IF qs[id].type = "tx" THEN toRemove \cup {id} ELSE toRemove

\* Mutant: the deposit of today's parameters is paid out.
RemovePaysParams(caller, id) ==
    /\ id \in DOMAIN queries
    /\ ValidateRemoval(queries[id], caller)
    /\ RemoveQuery(queries, results, id)
    /\ balances' = Pay(balances, IcqModule, caller, icqParams.QueryDeposit)
    /\ UNCHANGED <<lastID, txHashes>>

\* The deposit goes to whoever removes the query.
RemoveInterchainQuery(caller, id) ==
    /\ id \in DOMAIN queries
    /\ ValidateRemoval(queries[id], caller)
    /\ RemoveQuery(queries, results, id)
    /\ balances' = Pay(balances, IcqModule, caller, queries[id].deposit)
    /\ UNCHANGED <<lastID, txHashes>>

\* A TX query's filter and the update period play no part on chain.
UpdateInterchainQuery(caller, id, keys) ==
    /\ id \in DOMAIN queries
    /\ queries[id].owner = caller
    /\ queries' = [queries EXCEPT ![id].keys = IF queries[id].type = "kv" THEN keys ELSE @]
    /\ UNCHANGED <<balances, lastID, results, txHashes, toRemove>>

-----------------------------------------------------------------------------
\* Mutant: a result of the same or an older height is accepted.
AnyRemoteHeight(q, remote) == TRUE

checkLastRemoteHeight(q, remote) == q.lastRemote = 0 \/ q.lastRemote < remote

\* SubmitQueryResult with KV results, for the keys the submitter knew of.  The
\* callback, if one is asked for, runs after everything is saved; it may fail
\* (no step) or remove the query.
SubmitKVResult(id, keys, remote, callbackRemoves) ==
    /\ id \in DOMAIN queries
    /\ LET q == queries[id]
           saved == [q EXCEPT !.lastRemote = remote, !.lastLocal = localHeight]
           qs == Put(queries, id, saved)
           rs == Put(results, id, [keys |-> keys, remote |-> remote])
       IN  /\ q.type = "kv"
           /\ checkLastRemoteHeight(q, remote)
           /\ keys = q.keys
           /\ IF callbackRemoves
              THEN /\ RemoveQuery(qs, rs, id)
                   /\ balances' = Pay(balances, IcqModule, q.owner, q.deposit)
              ELSE /\ queries' = qs
                   /\ results' = rs
                   /\ UNCHANGED <<balances, toRemove>>
    /\ UNCHANGED <<lastID, txHashes, delivered>>

Delivered(x) == IF x \in DOMAIN delivered THEN delivered[x] ELSE 0

\* Mutant: the transaction is not saved as processed.
SubmitTxUnsaved(id, hash, n) ==
    /\ id \in DOMAIN queries
    /\ queries[id].type = "tx"
    /\ <<id, hash>> \notin txHashes
    /\ Delivered(<<id, hash>>) < 2
    /\ delivered' = Put(delivered, <<id, hash>>, Delivered(<<id, hash>>) + n)
    /\ queries' = [queries EXCEPT ![id].lastLocal = localHeight]
    /\ UNCHANGED <<txHashes, balances, lastID, results, toRemove>>

\* SubmitQueryResult with a transaction.  Nothing is verified or delivered for
\* a transaction that was processed before, but the local height is updated.
\* The callback may fail (no step); if it removes the query, the update of the
\* local height fails, which reverts everything.  The transaction is saved
\* after the callback, so that a contract which submits it again from within
\* the callback gets it again: n is the number of callbacks of the message.
SubmitTxResult(id, hash, n) ==
    /\ id \in DOMAIN queries
    /\ queries[id].type = "tx"
    /\ LET x == <<id, hash>>
       IN  IF x \in txHashes
           THEN UNCHANGED <<txHashes, delivered>>
           ELSE /\ txHashes' = txHashes \cup {x}
                /\ delivered' = Put(delivered, x, Delivered(x) + n)
    /\ queries' = [queries EXCEPT ![id].lastLocal = localHeight]
    /\ UNCHANGED <<balances, lastID, results, toRemove>>

-----------------------------------------------------------------------------
\* The first ids, in key order, as many as the limit allows.
GetTxQueriesToRemove(limit) ==
    {id \in toRemove : limit = 0 \/ Cardinality({i \in toRemove : i < id}) < limit}

Precedes(x, y) == x[1] < y[1] \/ (x[1] = y[1] /\ x[2] < y[2])

\* Hashes are removed query by query until the limit is used up.
HashesToRemove(ids, limit) ==
    LET mine == {x \in txHashes : x[1] \in ids}
    IN  {x \in mine : limit = 0 \/ Cardinality({y \in mine : Precedes(y, x)}) < limit}

\* CompleteRemoval is set only if the limit is not used up at the query's
\* last hash: a query that just fits is completed in the next block.
CompleteRemovals(ids, limit) ==
    {id \in ids : limit = 0 \/ Cardinality({x \in txHashes : x[1] \in ids /\ x[1] <= id}) < limit}

\* Mutant: a query leaves the list although its last hashes did not fit.
CleanupForgets ==
    LET limit == icqParams.TxQueryRemovalLimit
        ids == GetTxQueriesToRemove(limit)
    IN  /\ txHashes' = txHashes \ HashesToRemove(ids, limit)
        /\ toRemove' = toRemove \ ids

\* Mutant: only queries whose last hashes are removed in this pass are completed.
CleanupNeverCompletes ==
    LET limit == icqParams.TxQueryRemovalLimit
        ids == GetTxQueriesToRemove(limit)
    IN  /\ txHashes' = txHashes \ HashesToRemove(ids, limit)
        /\ toRemove' = toRemove \ {id \in CompleteRemovals(ids, limit) :
                                      \E x \in txHashes : x[1] = id}

TxQueriesCleanup ==
    LET limit == icqParams.TxQueryRemovalLimit
        ids == GetTxQueriesToRemove(limit)
    IN  /\ txHashes' = txHashes \ HashesToRemove(ids, limit)
        /\ toRemove' = toRemove \ CompleteRemovals(ids, limit)

-----------------------------------------------------------------------------
IcqInit ==
    /\ balances = [a \in Callers \cup {IcqModule} |-> IF a \in Callers THEN InitialBalance ELSE 0]
    /\ queries = EmptyStore /\ lastID = 0
    /\ results = EmptyStore
    /\ txHashes = {} /\ toRemove = {}
    /\ icqParams \in IcqParamChoices
    /\ localHeight = 1 /\ restarts = 0
    /\ delivered = EmptyStore

Register == \E owner \in Owners, type \in {"kv", "tx"}, keys \in KeySets :
    /\ lastID < MaxQueries
    /\ RegisterInterchainQuery(owner, type, keys)
    /\ UNCHANGED <<icqParams, localHeight, restarts, delivered>>

RemoveRegistered == \E caller \in Callers, id \in DOMAIN queries :
    /\ RemoveInterchainQuery(caller, id)
    /\ UNCHANGED <<icqParams, localHeight, restarts, delivered>>

Update == \E caller \in Owners, id \in DOMAIN queries, keys \in KeySets :
    /\ UpdateInterchainQuery(caller, id, keys)
    /\ UNCHANGED <<icqParams, localHeight, restarts, delivered>>

SubmitKV == \E id \in DOMAIN queries, keys \in KeySets, remote \in RemoteHeights, rm \in BOOLEAN :
    /\ SubmitKVResult(id, keys, remote, rm)
    /\ UNCHANGED <<icqParams, localHeight, restarts>>

SubmitTx == \E id \in DOMAIN queries, hash \in Hashes, n \in 1..MaxNesting :
    /\ SubmitTxResult(id, hash, n)
    /\ UNCHANGED <<icqParams, localHeight, restarts>>

UpdateIcqParams == \E params \in IcqParamChoices :
    /\ icqParams' = params
    /\ UNCHANGED <<balances, queries, lastID, results, txHashes, toRemove, localHeight, restarts, delivered>>

\* Blocks go on for ever; only the first MaxLocalHeight of them are told apart.
IcqEndBlock ==
    /\ TxQueriesCleanup
    /\ localHeight' = IF localHeight < MaxLocalHeight THEN localHeight + 1 ELSE localHeight
    /\ UNCHANGED <<balances, queries, lastID, results, icqParams, restarts, delivered>>

\* ExportGenesis and InitGenesis keep the queries and the parameters only.
Restart ==
    /\ restarts < MaxRestarts
    /\ restarts' = restarts + 1
    /\ lastID' \in {id \in DOMAIN queries \cup {0} : \A i \in DOMAIN queries : i <= id}
    /\ results' = EmptyStore /\ txHashes' = {} /\ toRemove' = {}
    /\ UNCHANGED <<balances, queries, icqParams, localHeight, delivered>>

IcqNext == Register \/ RemoveRegistered \/ Update \/ SubmitKV \/ SubmitTx \/ UpdateIcqParams \/ IcqEndBlock \/ Restart

IcqSpec == IcqInit /\ [][IcqNext]_icqVars

-----------------------------------------------------------------------------
\* The variables have the types of the stores they model.
IcqTypeOK ==
    /\ balances \in [Callers \cup {IcqModule} -> Nat]
    /\ IsStore(queries, Nat, RegisteredQueries)
    /\ lastID \in Nat
    /\ IsStore(results, Nat, [keys : KeySets, remote : RemoteHeights])
    /\ txHashes \subseteq Nat \X Hashes
    /\ toRemove \subseteq Nat
    /\ icqParams \in IcqParams
    /\ localHeight \in Nat /\ restarts \in Nat
    /\ IsStore(delivered, Nat \X Hashes, Nat)

Deposits == [id \in DOMAIN queries |-> queries[id].deposit]

\* The module account holds exactly the deposits of the registered queries,
\* whatever the deposit parameter was when each of them was registered: the
\* pay-out of MustPayOutDeposit never panics.
DepositsBacked == balances[IcqModule] = SumOf(Deposits)

\* A stored KV result belongs to a registered KV query and is the one the
\* query's remote height is about; removing the query, also from its own
\* callback, leaves no result behind.
ResultsMatchQueries ==
    \A id \in DOMAIN results :
        /\ id \in DOMAIN queries /\ queries[id].type = "kv"
        /\ results[id].remote = queries[id].lastRemote

\* Results arrive in any order, but the height of the stored result of a
\* query only grows.
ResultsOnlyNewer ==
    [][\A id \in DOMAIN results \cap DOMAIN results' :
          results'[id] # results[id] => results'[id].remote > results[id].remote]_icqVars

\* A transaction is passed to the owner of a query in at most one message,
\* over any resubmissions, removals and cleanups, as long as the chain is not
\* restarted from an exported genesis; within this message it is passed again
\* only if the owner's own callback submits it again.
TxAtMostOnce ==
    [][restarts = 0 => \A x \in DOMAIN delivered : delivered'[x] = delivered[x]]_icqVars

\* Every stored hash belongs to a registered TX query or to a removed one
\* that is still to be cleaned up: the store does not leak.
NoOrphanHashes ==
    \A x \in txHashes : \/ x[1] \in DOMAIN queries /\ queries[x[1]].type = "tx"
                        \/ x[1] \in toRemove

\* A query with a result in the last submitTimeout blocks, or registered in
\* them, is removed by nobody but its owner; what counts is the timeout at
\* registration, not the parameter of the day.
ServicePeriod ==
    [][\A id \in DOMAIN queries \ DOMAIN queries' :
          \/ balances'[queries[id].owner] = balances[queries[id].owner] + queries[id].deposit
          \/ /\ localHeight > queries[id].registeredAt + queries[id].submitTimeout
             /\ localHeight > queries[id].lastLocal + queries[id].submitTimeout]_icqVars

\* The cleanup runs at the end of every block.
IcqFairSpec == IcqSpec /\ WF_icqVars(IcqEndBlock)

\* The hashes of a removed TX query, and its place on the list, are gone in
\* the end, however the limit is changed on the way.
CleanupCompletes ==
    \A id \in 1..MaxQueries : id \in toRemove ~> (id \notin toRemove /\ \A x \in txHashes : x[1] # id)

=============================================================================
