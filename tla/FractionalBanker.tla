--------------------------- MODULE FractionalBanker ---------------------------
(***************************************************************************)
(* x/dex/keeper/fractional_banker.go: the dex books amounts with fractions *)
(* but moves whole tokens.  What it owes a user below one token is kept as *)
(* the user's fractional balance and used by the next payment.             *)
(***************************************************************************)
EXTENDS PrecDec, Stores

CONSTANTS Users, Denoms

VARIABLES dex,          \* whole tokens of the module account: [Denoms -> Nat]
          wallet,       \* whole tokens of the users: [Users \X Denoms -> Nat]
          frac          \* fractional balances: [Users \X Denoms -> Nat]

bank == <<dex, wallet, frac>>

\* The balances as a value, so that a handler can apply several transfers.
Balances == [dex |-> dex, wallet |-> wallet, frac |-> frac]
SetBalances(b) == dex' = b.dex /\ wallet' = b.wallet /\ frac' = b.frac

\* SendFractionalCoinsFromDexToAccount: user a gets out[d] of every denom d
Owed(b, a, d, out) == b.frac[<<a, d>>] + out[d]
CanSendFromDex(b, a, out) == \A d \in Denoms : TruncateInt(Owed(b, a, d, out)) <= b.dex[d]
SentFromDex(b, a, out) ==
    [dex |-> [d \in Denoms |-> b.dex[d] - TruncateInt(Owed(b, a, d, out))],
     wallet |-> [x \in Users \X Denoms |->
                    IF x[1] = a THEN b.wallet[x] + TruncateInt(Owed(b, a, x[2], out))
                                ELSE b.wallet[x]],
     frac |-> [x \in Users \X Denoms |->
                    IF x[1] = a THEN Owed(b, a, x[2], out) % Precision ELSE b.frac[x]]]

\* Mutant: rounded down.
UserPaysLess(amt, debt) == IF amt <= debt THEN 0 ELSE TruncateInt(amt - debt)

\* CalcUserSendMinusDebts: whole tokens paid for amt by a user who is owed debt
UserPays(amt, debt) == IF amt <= debt THEN 0 ELSE CeilInt(amt - debt)

\* SendFractionalCoinsFromAccountToDex: user a pays in[d] of every denom d
Payment(b, a, d, in) == UserPays(in[d], b.frac[<<a, d>>])
CanSendToDex(b, a, in) == \A d \in Denoms : Payment(b, a, d, in) <= b.wallet[<<a, d>>]
SentToDex(b, a, in) ==
    [dex |-> [d \in Denoms |-> b.dex[d] + Payment(b, a, d, in)],
     wallet |-> [x \in Users \X Denoms |->
                    IF x[1] = a THEN b.wallet[x] - Payment(b, a, x[2], in) ELSE b.wallet[x]],
     frac |-> [x \in Users \X Denoms |->
                    IF x[1] = a THEN b.frac[x] + Dec(Payment(b, a, x[2], in)) - in[x[2]]
                                ELSE b.frac[x]]]

Debts(d) == [a \in Users |-> frac[<<a, d>>]]

=============================================================================
