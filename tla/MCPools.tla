-------------------------------- MODULE MCPools --------------------------------
(* Three pools of one pair, two of which can cross, and one pool of each   *)
(* of the pairs that lead to a fourth token.                                  *)
EXTENDS Pools

CONSTANTS alice, bob, carol

\* 1.25^t in hundredths
MCPrices == [t \in -5..4 |-> <<33, 41, 51, 64, 80, 100, 125, 156, 195, 244>>[t + 6]]

P1 == <<0, 1, 0, 1>>
P2 == <<0, 1, -1, 1>>
P3 == <<0, 1, 2, 1>>
P12 == <<1, 2, 1, 0>>
P13 == <<1, 3, 0, 1>>
P23 == <<2, 3, 0, 0>>
MCPoolKeys == {P1, P2, P3, P12, P13, P23}

Seed(k1, r1) == [k \in {k1, P12, P13, P23} |->
                    CASE k = k1 -> r1 [] k = P12 -> <<3, 4>> [] k = P13 -> <<2, 2>> [] k = P23 -> <<3, 3>>]
MCSeeds == {Seed(P1, <<3, 3>>), Seed(P2, <<0, 4>>)}

Entry(k, x, auto, onDeposit, bel) ==
    [pool |-> k, amounts |-> x, autoswap |-> auto, swap |-> onDeposit, failOnBel |-> bel]
MCDepositLists ==
    {<<Entry(P1, <<2, 1>>, TRUE, FALSE, FALSE)>>,
     <<Entry(P3, <<3, 1>>, TRUE, TRUE, FALSE)>>,
     <<Entry(P2, <<0, 4>>, TRUE, TRUE, FALSE)>>,
     <<Entry(P3, <<1, 2>>, FALSE, FALSE, TRUE), Entry(P1, <<0, 2>>, TRUE, FALSE, FALSE)>>,
     <<Entry(P3, <<2, 0>>, TRUE, FALSE, FALSE), Entry(P1, <<2, 2>>, FALSE, FALSE, FALSE)>>}

MCRouteLists == {<< <<0, 1, 2, 3>>, <<0, 1, 3>> >>, << <<3, 1, 0>>, <<3, 2, 1, 0>> >>}

MCInitialParams == [mode |-> "open", feeTiers |-> {0, 1}, whitelist |-> {}]
MCParamChoices ==
    {[mode |-> "open", feeTiers |-> {0}, whitelist |-> {bob}],
     [mode |-> "withdrawOnly", feeTiers |-> {0, 1}, whitelist |-> {}],
     [mode |-> "paused", feeTiers |-> {0, 1}, whitelist |-> {}]}

MCParties == {<<alice, alice>>, <<bob, alice>>}

=============================================================================
