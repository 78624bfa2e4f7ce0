----------------------------- MODULE TokenFactory -----------------------------
(* x/tokenfactory and x/coinfactory (the same code under two names): denoms
   with an administrator, and the contracts called before every send of one.

   A denom is [factory, creator, sub]; all amounts are one unit.  A message
   that moves coins is a frame of calls while bank runs its hooks: first
   BlockBeforeSend for every coin, then TrackBeforeSend, then the transfer.
   A hook is a contract: while it executes it may send messages of its own,
   which are further frames.  A frame keeps the store from before its message,
   which is what the store is again when the message fails. *)
EXTENDS Stores, Integers, Sequences

CONSTANTS Factories,      \* the two modules; the module account has the same name
          Denoms,         \* denoms that may be created
          Rank,           \* order of the hooks' calls: by NewMultiBankHooks, then by denom
          Accounts,       \* addresses that sign messages, contracts among them
          Contracts,
          Codes,          \* code ids
          EscrowAddrs,    \* ICS-20 escrow addresses of channels that may open
          Native,         \* the denom of the creation fee
          FeeCollector,
          ParamChoices,   \* function: factory -> set of parameters
          CoinSets,       \* coins of a bank send: sets of denoms
          NoOne,          \* the empty address
          GenesisAdmins,  \* the denoms of the genesis, with their admins
          GenesisHooks,   \* and the hooks some of them have
          InitialNative,
          MaxSupply,      \* bound: units of a denom, and of it abroad
          MaxSent,        \* bound: messages sent by contracts within one message
          MaxRestarts     \* bound: restarts from an exported genesis

ASSUME FactoryAssumption ==
    /\ Contracts \subseteq Accounts /\ FeeCollector \in Accounts /\ NoOne \notin Accounts
    /\ \A d \in Denoms : d.factory \in Factories /\ d.creator \in Accounts
    /\ Accounts \cap EscrowAddrs = {} /\ (Accounts \cup EscrowAddrs) \cap Factories = {}
    /\ IsFiniteSet(Accounts \cup EscrowAddrs \cup Factories)
    /\ Rank \in [Denoms -> Nat] /\ \A d, e \in Denoms : Rank[d] = Rank[e] => d = e
    /\ Native \notin Denoms /\ CoinSets \subseteq SUBSET Denoms
    /\ IsStore(GenesisAdmins, Denoms, Accounts \cup {NoOne})
    /\ IsStore(GenesisHooks, DOMAIN GenesisAdmins, Contracts)
    /\ InitialNative \in Nat /\ MaxSupply \in Nat /\ MaxSent \in Nat /\ MaxRestarts \in Nat

VARIABLES store,      \* what a failing message reverts
          params,     \* factory -> [fee, whitelist]
          code,       \* contract -> code id
          channels,   \* escrow addresses of open channels
          escrows,    \* factory -> escrow addresses it has stored
          restarts,
          calls,      \* messages being executed, the innermost last
          sent        \* messages the contracts sent since the outermost began

vars == <<store, params, code, channels, escrows, restarts, calls, sent>>

Holders == Accounts \cup EscrowAddrs \cup Factories

Coins == Denoms \cup {Native}

Top == calls[Len(calls)]

\* The store as of the last message that has ended.
Committed == IF calls = << >> THEN store ELSE calls[1].saved

\* A message is signed by an account, or by the contract that is executing.
CanSign(a) == \/ calls = << >> /\ a \in Accounts
              \/ calls # << >> /\ a = Top.calling /\ sent < MaxSent

\* A message begins.
Begin == sent' = IF calls = << >> THEN 0 ELSE sent + 1

\* GetAuthorityMetadata: an unknown denom has the empty metadata, whose admin
\* is the empty address, as has one whose admin was given up.
Admin(d) == IF d \in DOMAIN store.admins THEN store.admins[d] ELSE NoOne

IsHookWhitelisted(d, c) == [code |-> code[c], creator |-> d.creator] \in params[d.factory].whitelist

-----------------------------------------------------------------------------
(* Sends. *)

Pays(b, a, ds) == \A d \in ds : b[<<a, d>>] >= 1

\* One unit of every denom of ds is added to, or taken from, what a has in b.
Plus(b, a, ds) == [x \in DOMAIN b |-> IF x[1] = a /\ x[2] \in ds THEN b[x] + 1 ELSE b[x]]
Minus(b, a, ds) == [x \in DOMAIN b |-> IF x[1] = a /\ x[2] \in ds THEN b[x] - 1 ELSE b[x]]
Moved(b, from, to, ds) == Plus(Minus(b, from, ds), to, ds)

\* callBeforeSendListener: coins without a hook, or with one that is not
\* whitelisted, are passed over.
HookIn(s, d) == IF d \in DOMAIN s.hooks THEN s.hooks[d] ELSE NoOne

HookOf(d) == HookIn(store, d)

\* Mutant: a hook is called because it was whitelisted when it was set.
ListensUnlisted(d) == HookOf(d) # NoOne

Listens(d) == HookOf(d) # NoOne /\ IsHookWhitelisted(d, HookOf(d))

\* Mutant: burnFrom leaves the coins with the module.
BurnCoinsForgotten(s, f) == [s EXCEPT !.bank = Moved(@, f.from, f.to, f.coins)]

\* Store s after the message of frame f, when its coins have been moved.
Settled(s, f) ==
    LET bank == Moved(s.bank, f.from, f.to, f.coins)
    IN  CASE f.op = "burn" -> [s EXCEPT !.bank = Minus(bank, f.to, f.coins),
                                        !.supply = [d \in Denoms |-> IF d \in f.coins THEN @[d] - 1 ELSE @[d]]]
          [] f.op = "out" -> [s EXCEPT !.bank = bank, !.vouchers = Plus(@, f.to, f.coins)]
          [] f.op = "in" -> [s EXCEPT !.bank = bank, !.vouchers = Minus(@, f.from, f.coins)]
          [] OTHER -> [s EXCEPT !.bank = bank]

\* Frame f at the next of its hooks that listens: a set of at most one.
AtHook(f) ==
    {[f EXCEPT !.at = d, !.todo = {e \in f.todo : Rank[e] > Rank[d]}, !.calling = HookOf(d)] :
        d \in {e \in f.todo : Listens(e) /\ \A x \in f.todo : Listens(x) => Rank[e] <= Rank[x]}}

\* A message whose own part has made the store s calls SendCoins.  If no hook
\* listens the transfer follows at once; a message without the funds has no
\* effect.
SendCoins(op, s, from, to, coins) ==
    LET f == [op |-> op, from |-> from, to |-> to, coins |-> coins, phase |-> "block",
              at |-> Native, todo |-> coins, calling |-> NoOne, saved |-> store]
    IN  /\ \/ \E g \in AtHook(f) : store' = s /\ calls' = Append(calls, g)
           \/ /\ AtHook(f) = {} /\ Pays(s.bank, from, coins)
              /\ store' = Settled(s, f) /\ UNCHANGED calls
        /\ Begin
        /\ UNCHANGED <<params, code, channels, escrows, restarts>>

\* Leave the innermost frame with store s.
Return(s) ==
    /\ store' = s
    /\ calls' = SubSeq(calls, 1, Len(calls) - 1)
    /\ sent' = IF Len(calls) = 1 THEN 0 ELSE sent
    /\ UNCHANGED <<params, code, channels, escrows, restarts>>

\* The innermost frame waits for a hook, as g.
Await(g) ==
    /\ calls' = [calls EXCEPT ![Len(calls)] = g]
    /\ UNCHANGED <<store, params, code, channels, escrows, restarts, sent>>

Tracking(f) == [f EXCEPT !.phase = "track", !.todo = f.coins]

\* Frame f, the innermost one, goes on: to its next hook, from BlockBeforeSend
\* to TrackBeforeSend, and to the transfer in the end.
Proceed(f) ==
    \/ \E g \in AtHook(f) : Await(g)
    \/ AtHook(f) = {} /\ f.phase = "block" /\ \E g \in AtHook(Tracking(f)) : Await(g)
    \/ /\ AtHook(f) = {} /\ (f.phase = "block" => AtHook(Tracking(f)) = {})
       /\ Return(IF Pays(store.bank, f.from, f.coins) THEN Settled(store, f) ELSE f.saved)

HookReturns == calls # << >> /\ Proceed(Top)

\* TrackBeforeSend drops the error of a hook: the other coins of the factory
\* are not announced, and what the contract did stays.
TrackingFails ==
    /\ Top.phase = "track"
    /\ Proceed([Top EXCEPT !.todo = {d \in Top.todo : d.factory # Top.at.factory}])

\* BlockBeforeSend returns it, and the message fails.
BlockingFails == Top.phase = "block" /\ Return(Top.saved)

\* The contract fails, or the gas runs out (recover).
HookFails == calls # << >> /\ (BlockingFails \/ TrackingFails)

-----------------------------------------------------------------------------
(* Messages of the factories. *)

IsEscrowAddress(f, a) == a \in escrows[f]

\* Mutant: escrow accounts are not told from others.
AnyButFactories(f, a) == a \in Holders \ Factories

\* Factories and escrow accounts are out of bounds for mintTo, burnFrom and
\* forceTransfer.
InBounds(f, a) == a \in Holders \ Factories /\ ~IsEscrowAddress(f, a)

\* createDenomAfterValidation.
WithDenom(s, d, admin) ==
    [s EXCEPT !.metadata = @ \cup {d}, !.admins = Put(@, d, admin), !.creators = @ \cup {d}]

\* A change of the store that calls no hook.
Change(s) == store' = s /\ Begin /\ UNCHANGED <<params, code, channels, escrows, restarts, calls>>

\* Mutant: a denom is taken to exist while there is a supply of it.
NoSupply(d) == d.sub # Native /\ store.supply[d] = 0

CanCreateDenom(d) == d.sub # Native /\ d \notin store.metadata

CreateDenom(d) ==
    LET fee == params[d.factory].fee
    IN  /\ CanSign(d.creator) /\ CanCreateDenom(d)
        /\ store.bank[<<d.creator, Native>>] >= fee
        /\ LET paid == [store EXCEPT !.bank = IF fee = 0 THEN @ ELSE Moved(@, d.creator, FeeCollector, {Native})]
           IN  Change(WithDenom(paid, d, d.creator))

Mint(a, d, to) ==
    /\ CanSign(a) /\ d \in store.metadata /\ a = Admin(d)
    /\ InBounds(d.factory, to)
    /\ store.supply[d] < MaxSupply
    /\ SendCoins("mint",
                 [store EXCEPT !.bank[<<d.factory, d>>] = @ + 1, !.supply[d] = @ + 1],
                 d.factory, to, {d})

Burn(a, d, from) ==
    /\ CanSign(a) /\ a = Admin(d)
    /\ InBounds(d.factory, from)
    /\ SendCoins("burn", store, from, d.factory, {d})

ForceTransfer(a, d, from, to) ==
    /\ CanSign(a) /\ a = Admin(d)
    /\ InBounds(d.factory, from) /\ InBounds(d.factory, to)
    /\ SendCoins("force", store, from, to, {d})

ChangeAdmin(a, d, newAdmin) ==
    /\ CanSign(a) /\ a = Admin(d)
    /\ Change([store EXCEPT !.admins = Put(@, d, newAdmin)])

SetBeforeSendHook(a, d, c) ==
    /\ CanSign(a) /\ a = Admin(d)
    /\ c # NoOne => IsHookWhitelisted(d, c)
    /\ Change([store EXCEPT !.hooks = IF c = NoOne THEN Drop(@, d) ELSE Put(@, d, c)])

\* The authority of the module replaces the parameters.
UpdateParams(f, p) ==
    /\ calls = << >>
    /\ params' = [params EXCEPT ![f] = p]
    /\ UNCHANGED <<store, code, channels, escrows, restarts, calls, sent>>

-----------------------------------------------------------------------------
(* The rest of the chain, as far as it uses the factories. *)

\* A bank MsgSend; module accounts are blocked as recipients.
BankSend(a, to, coins) ==
    /\ CanSign(a) /\ to \notin Factories /\ to # a
    /\ SendCoins("send", store, a, to, coins)

\* ICS-20: coins leave through an escrow account and come back out of it.
TransferOut(a, e, d) ==
    /\ CanSign(a) /\ e \in channels
    /\ store.vouchers[<<e, d>>] < MaxSupply
    /\ SendCoins("out", store, a, e, {d})

TransferIn(e, to, d) ==
    /\ calls = << >> /\ e \in channels /\ to \in Accounts
    /\ store.vouchers[<<e, d>>] > 0
    /\ SendCoins("in", store, e, to, {d})

\* A contract is migrated to another code.
Migrate(c, id) ==
    /\ calls = << >>
    /\ code' = [code EXCEPT ![c] = id]
    /\ UNCHANGED <<store, params, channels, escrows, restarts, calls, sent>>

\* OnChanOpenAck and OnChanOpenConfirm of x/transfer tell both keepers.
StoreEscrowAddress(e) == escrows' = [f \in Factories |-> escrows[f] \cup {e}]

OpenChannel(e) ==
    /\ calls = << >> /\ e \notin channels
    /\ channels' = channels \cup {e}
    /\ StoreEscrowAddress(e)
    /\ UNCHANGED <<store, params, code, restarts, calls, sent>>

\* ExportGenesis lists the denoms of the creators' index with their admins and
\* hooks; InitGenesis creates them, for the creator first and then with the
\* exported admin.  The escrow addresses are not exported.
Restart ==
    /\ calls = << >> /\ restarts < MaxRestarts
    /\ store' = [store EXCEPT
                   !.metadata = @ \cup store.creators,
                   !.admins = [d \in store.creators |-> Admin(d)],
                   !.hooks = [d \in {x \in store.creators : HookOf(x) # NoOne} |-> HookOf(d)]]
    /\ escrows' = [f \in Factories |-> {}]
    /\ restarts' = restarts + 1
    /\ UNCHANGED <<params, code, channels, calls, sent>>

-----------------------------------------------------------------------------
\* InitGenesis; the creator of a genesis denom holds one unit of it.
Init ==
    /\ store = [bank |-> [x \in Holders \X Coins |->
                            IF x[2] = Native THEN IF x[1] \in Accounts THEN InitialNative ELSE 0
                            ELSE IF x[2] \in DOMAIN GenesisAdmins /\ x[1] = x[2].creator THEN 1 ELSE 0],
                supply |-> [d \in Denoms |-> IF d \in DOMAIN GenesisAdmins THEN 1 ELSE 0],
                vouchers |-> [x \in EscrowAddrs \X Denoms |-> 0],
                metadata |-> DOMAIN GenesisAdmins, creators |-> DOMAIN GenesisAdmins,
                admins |-> GenesisAdmins, hooks |-> GenesisHooks]
    /\ params \in {p \in [Factories -> UNION {ParamChoices[f] : f \in Factories}] :
                      \A f \in Factories : p[f] \in ParamChoices[f]}
    /\ code \in [Contracts -> Codes]
    /\ channels = {} /\ escrows = [f \in Factories |-> {}]
    /\ restarts = 0 /\ calls = << >> /\ sent = 0

Next ==
    \/ HookReturns \/ HookFails
    \/ \E d \in Denoms : CreateDenom(d)
    \/ \E a \in Accounts, d \in Denoms, x \in Holders : Mint(a, d, x) \/ Burn(a, d, x)
    \/ \E a \in Accounts, d \in Denoms, x \in Holders : \E y \in Holders \ {x} : ForceTransfer(a, d, x, y)
    \/ \E a \in Accounts, d \in Denoms, x \in Accounts \cup {NoOne} : ChangeAdmin(a, d, x)
    \/ \E a \in Accounts, d \in Denoms, c \in Contracts \cup {NoOne} : SetBeforeSendHook(a, d, c)
    \/ \E a \in Accounts, x \in Holders, coins \in CoinSets : BankSend(a, x, coins)
    \/ \E a \in Accounts, e \in EscrowAddrs, d \in Denoms : TransferOut(a, e, d) \/ TransferIn(e, a, d)
    \/ \E f \in Factories : \E p \in ParamChoices[f] : UpdateParams(f, p)
    \/ \E c \in Contracts, id \in Codes : Migrate(c, id)
    \/ \E e \in EscrowAddrs : OpenChannel(e)
    \/ Restart

Spec == Init /\ [][Next]_vars

-----------------------------------------------------------------------------
\* The module account "isn't intended to store any coins": between messages
\* it holds none, and at every moment the supply is what all accounts hold,
\* also while a hook mints and burns within a mint or a burn.
SupplyAccounted ==
    \A d \in Denoms :
       /\ store.supply[d] = SumOf([h \in Holders |-> store.bank[<<h, d>>]])
       /\ calls = << >> => \A f \in Factories : store.bank[<<f, d>>] = 0

\* Until a restart an escrow account holds at least the coins that left
\* through its channel: no admin of a denom gets at them.
EscrowCovers ==
    restarts = 0 =>
       \A e \in channels, d \in Denoms : store.bank[<<e, d>>] >= store.vouchers[<<e, d>>]

\* A denom without an admin stays without one, through hooks that run inside
\* other messages, through failures and restarts; its supply and its hook do
\* not change any more.
RenouncedForever ==
    [][\A d \in DOMAIN Committed.admins :
          Committed.admins[d] = NoOne =>
             /\ d \in DOMAIN Committed'.admins /\ Committed'.admins[d] = NoOne
             /\ Committed'.supply[d] = Committed.supply[d]
             /\ HookIn(Committed, d)' = HookIn(Committed, d)]_vars

\* "Once it is removed from the whitelist a hook should not be able to block a
\* send": a message that moves coins succeeds unless the funds are missing or
\* a contract that is whitelisted now for one of the coins stops it before the
\* transfer.
BlockedByListedOnly ==
    [][Len(calls') < Len(calls) =>
          \/ store' = Settled(store, Top)
          \/ ~Pays(store.bank, Top.from, Top.coins)
          \/ /\ Top.phase = "block"
             /\ \E d \in Top.coins, c \in Contracts : IsHookWhitelisted(d, c)]_vars

=============================================================================
