---------------------------- MODULE MCTokenFactory ----------------------------
(* Instances of TokenFactory for TLC. *)
EXTENDS TokenFactory

CONSTANTS alice, hook, escrow, untrn, nobody

Denom(f) == [factory |-> f, creator |-> alice, sub |-> "gold"]

MCDenoms == {Denom("tokenfactory"), Denom("coinfactory")}

MCRank == [d \in MCDenoms |-> IF d.factory = "tokenfactory" THEN 1 ELSE 2]

MCCoinSets == {MCDenoms}

Params(fee, codes) == [fee |-> fee, whitelist |-> {[code |-> c, creator |-> alice] : c \in codes}]

\* The coinfactory denom has a hook and no admin.
MCAdmins == Put(EmptyStore, Denom("coinfactory"), nobody)
MCHooks == Put(EmptyStore, Denom("coinfactory"), hook)

\* The whitelist of the factory that charges a fee changes.
MCParamChoices == [f \in {"tokenfactory", "coinfactory"} |->
                      IF f = "tokenfactory" THEN {Params(1, {}), Params(1, {1})} ELSE {Params(0, {1})}]
=============================================================================
