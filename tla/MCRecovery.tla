------------------------------ MODULE MCRecovery ------------------------------
(* An instance of Recovery for TLC: one contract that has run two codes of
   Holder's, two denoms, and the messages that the restrictions tell apart. *)
EXTENDS Recovery

MCUploader == <<"alice", "holder", "holder">>
MCRestoredAdmin == [vault |-> "satellite"]
MCRestoredCW2 == [vault |-> "vault"]
MCVesting == [holder |-> 1, voter |-> 0]

MCTransfers == << [from |-> "holder", denom |-> "ntrn",  amount |-> 1],
                  [from |-> "holder", denom |-> "token", amount |-> 2],
                  [from |-> "voter",  denom |-> "ntrn",  amount |-> 1],
                  [from |-> "voter",  denom |-> "ntrn",  amount |-> 1] >>

Simple(kind, by) == [kind |-> kind, by |-> by]
Nest(kind, by, m) == [kind |-> kind, by |-> by, msgs |-> <<m>>]
AdminTo(by, admin) == [kind |-> "setAdmin", by |-> by, contract |-> "vault", admin |-> admin]
MigrateTo(by, code) == [kind |-> "migrate", by |-> by, contract |-> "vault", code |-> code]
Pay(payer, m) == [payer |-> payer, msgs |-> <<m>>]

MCTxs == {
    Pay("alice", Simple("delegate", "alice")), Pay("alice", Simple("undelegate", "alice")),
    Pay("alice", Simple("cancelUnbonding", "alice")),
    Pay("alice", Nest("exec", "alice", Simple("delegate", "alice"))),
    Pay("alice", Nest("exec", "alice", Simple("undelegate", "alice"))),
    Pay("voter", Simple("undelegate", "alice")), Pay("voter", Simple("undelegate", "voter")),
    Pay("holder", AdminTo("holder", "alice")),
    Pay("alice", Nest("exec", "alice", MigrateTo("holder", 3))),
    Pay("satellite", MigrateTo("satellite", 1)), Pay("satellite", AdminTo("satellite", "alice")),
    Pay("alice", Nest("submit", "alice", AdminTo("gov", "alice"))),
    Pay("alice", Nest("legacySubmit", "alice", Simple("text", "gov"))),
    Pay("alice", Nest("submit", "alice", Simple("text", "gov"))),
    Pay("alice", Nest("submit", "alice", Simple("upgrade", "gov")))}

\* By a contract, in its own name.
MCDispatched == {
    Simple("delegate", "dapp"), Simple("cancelUnbonding", "dapp"),
    Nest("submit", "dapp", AdminTo("gov", "alice")), Nest("submit", "dapp", Simple("text", "gov"))}

Accounts == {"holder", "voter", "recipient", "proxy", "alice", "dapp", "bonded", "notBonded", "distribution"}

Entry(code) == [code |-> code, at |-> 0]
Contract(codes, admin) ==
    [admin |-> admin, codeID |-> codes[Len(codes)], history |-> [i \in DOMAIN codes |-> Entry(codes[i])],
     index |-> {Entry(codes[Len(codes)])}, cw2 |-> "migrated"]

World(contract, bonded, proposals) ==
    [contracts |-> [vault |-> contract], owner |-> "manager", bonded |-> bonded,
     bank |-> [a \in Accounts |-> [d \in {"ntrn", "token"} |->
                  CASE d = "token" -> IF a = "holder" THEN 2 ELSE 0
                    [] a = "holder" -> 2
                    [] a \in {"voter", "dapp", "distribution"} -> 1
                    [] a = "bonded" -> IF bonded THEN 3 ELSE 0
                    [] a = "notBonded" -> IF bonded THEN 1 ELSE 4
                    [] OTHER -> 0]],
     stake |-> [voter |-> 1, proxy |-> 2],
     unbonding |-> [a \in {"voter", "proxy", "alice", "dapp"} |-> IF a = "dapp" THEN 1 ELSE 0],
     rewards |-> 0, proposals |-> proposals]

MCWorlds == {World(Contract(h, "holder"), bonded, props) :
                 h \in {<<1, 2>>, <<1, 2, 3>>}, bonded \in BOOLEAN,
                 props \in {{}, {<<AdminTo("gov", "alice")>>}}}
=============================================================================
