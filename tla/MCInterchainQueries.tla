-------------------------- MODULE MCInterchainQueries --------------------------
(* Instances of InterchainQueries for TLC. *)
EXTENDS InterchainQueries

CONSTANTS c1, u1, icq

Params(timeout, deposit, limit) ==
    [QuerySubmitTimeout |-> timeout, QueryDeposit |-> deposit, TxQueryRemovalLimit |-> limit]

MCParams == {Params(1, 1, 2), Params(0, 2, 0)}
=============================================================================
