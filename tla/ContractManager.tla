---------------------------- MODULE ContractManager ----------------------------
(***************************************************************************)
(* x/contractmanager: sudo callbacks into contracts.  A callback that      *)
(* fails (an error, or the sudo gas limit) is stored as a failure that the *)
(* contract may resubmit later.                                            *)
(*                                                                         *)
(* Wasm execution is external: whether a callback succeeds is a free       *)
(* choice.  handled counts, per payload, the executions whose effects were *)
(* committed.                                                              *)
(***************************************************************************)
EXTENDS Stores

CONSTANT Contracts

VARIABLES failures,    \* [Contracts -> store: failure id -> sudo payload]
          handled      \* store: sudo payload -> number of committed executions

Handled(payload) == IF payload \in DOMAIN handled THEN handled[payload] ELSE 0

\* Mutant: the last id, not the one after it.
LastFailureID(c) ==
    IF DOMAIN failures[c] = {} THEN 0
    ELSE CHOOSE id \in DOMAIN failures[c] : \A x \in DOMAIN failures[c] : x <= id

\* One more than the id the reverse iterator finds first, or 0.
GetNextFailureIDKey(c) ==
    IF DOMAIN failures[c] = {} THEN 0
    ELSE 1 + CHOOSE id \in DOMAIN failures[c] : \A x \in DOMAIN failures[c] : x <= id

AddContractFailure(c, payload) ==
    failures' = [failures EXCEPT ![c] = Put(failures[c], GetNextFailureIDKey(c), payload)]

\* SudoLimitWrapper.Sudo: the cached context is written only on success; an
\* error, or running out of the sudo gas limit, stores the failure instead.
Sudo(c, payload, ok) ==
    IF ok
    THEN /\ handled' = Put(handled, payload, Handled(payload) + 1)
         /\ UNCHANGED failures
    ELSE /\ AddContractFailure(c, payload)
         /\ UNCHANGED handled

\* Mutant: the failure is not removed.
resubmitKeepsFailure(c, id, n) ==
    /\ Handled(failures[c][id]) < 2
    /\ handled' = Put(handled, failures[c][id], Handled(failures[c][id]) + n)
    /\ UNCHANGED failures

\* The sudo call is not wrapped here: an error reverts the message and the
\* failure stays.  The failure is removed after the call, so that the contract
\* still finds it when it resubmits it from within its own callback: n is the
\* number of times the callback runs before the first removal; the removals
\* after that change nothing.  (Resubmitting other failures from within the
\* callback has the effect of resubmitting them before.)
resubmitFailure(c, id, n) ==
    /\ handled' = Put(handled, failures[c][id], Handled(failures[c][id]) + n)
    /\ failures' = [failures EXCEPT ![c] = Drop(failures[c], id)]

\* MsgResubmitFailure from the contract itself.
ResubmitFailure(c, id, n) ==
    /\ id \in DOMAIN failures[c]
    /\ resubmitFailure(c, id, n)

=============================================================================
