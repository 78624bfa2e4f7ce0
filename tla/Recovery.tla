------------------------------- MODULE Recovery -------------------------------
(***************************************************************************)
(* app: the recovery from proposal 9, the restrictions that apply after    *)
(* the halt, and cron in the same blocks.                                  *)
(*                                                                         *)
(* BeginBlocker runs the recovery, in one block of one chain, before the   *)
(* modules' BeginBlock; transactions, contracts, proposals and cron act in *)
(* the block before and in the blocks after.  What the recovery works on   *)
(* is one record, world: the contracts, the owner of the auth proxy, the   *)
(* bank, one validator with its delegations (in tokens), the proposals in  *)
(* their voting period.  A message is [kind, by, ...]; fees are not taken. *)
(***************************************************************************)
EXTENDS Cron, Sequences, FiniteSetsExt, TLC

CONSTANTS HaltHeight, RecoveryHeight,   \* proposal9HaltHeight, proposal9RecoveryHeight
          Schedule,                     \* undelegationsCronSchedule
          Holder, Voter,                \* the two locked accounts
          Recipient,                    \* clawbackRecipient
          Proxy,                        \* undelegationsAuthProxy
          Uploader,                     \* code ID -> account
          RestoredAdmin, RestoredCW2,   \* contract -> the values of proposal9Contracts
          clawbackTransfers,            \* sequence of [from, denom, amount]
          BondDenom, Vesting,           \* account -> what it cannot spend of BondDenom
          Txs, Dispatched,              \* transactions; messages that contracts send
          Worlds, Chains,               \* the states and chains at the halt
          MaxEvents                     \* bound: deliveries, slashes and changes of bonding

ASSUME RecoveryAssumption ==
    /\ HaltHeight \in Nat /\ RecoveryHeight \in HaltHeight + 1 .. MaxHeight
    /\ Schedule \in Names /\ MaxEvents \in Nat

VARIABLES chain,        \* the chain ID
          world,
          recovered,    \* RecoverProposal9 has run
          stopped,      \* it returned an error: no block is made any more
          events        \* bounded by MaxEvents

recoveryVars == <<cronVars, chain, world, recovered, stopped, events>>

Seqs == INSTANCE SequencesExt

Elements(s) == {s[i] : i \in DOMAIN s}
LockedAccounts == {Holder, Voter}

-----------------------------------------------------------------------------
(* The restrictions. *)

\* Mutant: from the block of the recovery on.
ActiveLate == chain = "neutron-1" /\ height >= RecoveryHeight

\* Proposal9ProtectionsActive, in a block.
Active == chain = "neutron-1" /\ height > HaltHeight

\* A new validator's own stake is a delegation here.
frozenStakingMsgs == {"delegate", "cancelUnbonding"}

RECURSIVE HasFrozen(_)
HasFrozen(msgs) == \E m \in Elements(msgs) :
    m.kind \in frozenStakingMsgs \/ (m.kind \in {"exec", "submit"} /\ HasFrozen(m.msgs))

RECURSIVE HasLockedSigner(_)
HasLockedSigner(msgs) == \E m \in Elements(msgs) :
    m.by \in LockedAccounts \/ (m.kind = "exec" /\ HasLockedSigner(m.msgs))

\* Upgrades and code, or texts; no message at all is a text.
ValidateProposalMessages(msgs) ==
    \/ \A m \in Elements(msgs) : m.kind \in {"upgrade", "storeCode"}
    \/ \A m \in Elements(msgs) : m.kind = "text"

RECURSIVE ValidateTxMessages(_)
ValidateTxMessages(msgs) == \A m \in Elements(msgs) :
    /\ m.kind # "legacySubmit"
    /\ m.kind = "submit" => ValidateProposalMessages(m.msgs)
    /\ m.kind = "exec" => ValidateTxMessages(m.msgs)

\* The three decorators of the ante handler.
AnteHandle(tx) == Active =>
    /\ ValidateTxMessages(tx.msgs)
    /\ tx.payer \notin LockedAccounts /\ ~HasLockedSigner(tx.msgs)
    /\ ~HasFrozen(tx.msgs)

\* The circuit breaker of the message router, whoever sends the message.
IsAllowed(m) == Active => m.kind \notin frozenStakingMsgs

\* Mutant: proposals are checked when they are submitted only.
RoutesEverything(m) == TRUE

\* The router of x/gov.
allowedByRouter(m) == Active => m.kind \in {"upgrade", "storeCode", "text"}

-----------------------------------------------------------------------------
(* What messages do to a world w; a message that fails yields Failed. *)

Failed == [failed |-> TRUE]

Move(w, from, to, denom, n) ==
    [w EXCEPT !.bank[from][denom] = @ - n, !.bank[to][denom] = @ + n]

\* The pool that holds the validator's tokens.
PoolOf(w) == IF w.bonded THEN "bonded" ELSE "notBonded"

StakeOf(w, a) == IF a \in DOMAIN w.stake THEN w.stake[a] ELSE 0

Delegate(w, a) ==
    IF w.bank[a][BondDenom] = 0 THEN Failed
    ELSE [Move(w, a, PoolOf(w), BondDenom, 1) EXCEPT !.stake = Put(@, a, StakeOf(w, a) + 1)]

\* One token; the delegation goes with the last.
Undelegate(w, a) ==
    IF StakeOf(w, a) = 0 THEN Failed
    ELSE [Move(w, PoolOf(w), "notBonded", BondDenom, 1) EXCEPT
              !.stake = IF @[a] = 1 THEN Drop(@, a) ELSE Put(@, a, @[a] - 1),
              !.unbonding[a] = @ + 1]

CancelUnbonding(w, a) ==
    IF w.unbonding[a] = 0 THEN Failed
    ELSE [Move(w, "notBonded", PoolOf(w), BondDenom, 1) EXCEPT
              !.stake = Put(@, a, StakeOf(w, a) + 1), !.unbonding[a] = @ - 1]

MayAdminister(w, a, c) == a \in {w.contracts[c].admin, "gov"}

SetAdmin(w, m) ==
    IF MayAdminister(w, m.by, m.contract) THEN [w EXCEPT !.contracts[m.contract].admin = m.admin]
    ELSE Failed

\* A migration appends to the history and moves the entry of the index.
Migrated(contract, code) ==
    LET entry == [code |-> code, at |-> height]
    IN  [contract EXCEPT !.codeID = code, !.history = Append(@, entry),
                         !.index = (@ \ {contract.history[Len(contract.history)]}) \cup {entry}]

Migrate(w, m) ==
    IF MayAdminister(w, m.by, m.contract)
    THEN [w EXCEPT !.contracts[m.contract] = Migrated(@, m.code)] ELSE Failed

\* AfterProposalSubmission may fail the submission.  One proposal at a time.
Submit(w, msgs) ==
    IF w.proposals = {} /\ (Active => ValidateProposalMessages(msgs))
    THEN [w EXCEPT !.proposals = {msgs}] ELSE Failed

RECURSIVE Handle(_, _)
Handle(w, m) ==
    CASE w = Failed \/ ~IsAllowed(m)            -> Failed
      [] m.kind = "delegate"                    -> Delegate(w, m.by)
      [] m.kind = "undelegate"                  -> Undelegate(w, m.by)
      [] m.kind = "cancelUnbonding"             -> CancelUnbonding(w, m.by)
      [] m.kind = "setAdmin"                    -> SetAdmin(w, m)
      [] m.kind = "migrate"                     -> Migrate(w, m)
      [] m.kind \in {"submit", "legacySubmit"}  -> Submit(w, m.msgs)
      [] m.kind = "exec"                        -> Seqs!FoldLeft(Handle, w, m.msgs)
      [] m.kind = "text"                        -> IF Active THEN w ELSE Failed
      [] OTHER                                  -> w

\* The messages of a proposal that passed: all of them, or none.
Enact(w, msgs) ==
    LET closed == [w EXCEPT !.proposals = @ \ {msgs}]
        Route(x, m) == IF x # Failed /\ allowedByRouter(m) THEN Handle(x, m) ELSE Failed
        done == Seqs!FoldLeft(Route, closed, msgs)
    IN  IF done = Failed THEN closed ELSE done

-----------------------------------------------------------------------------
(* The recovery. *)

\* Mutant: the entry before the last one.
PreviousCodeID(history) == IF Len(history) > 1 THEN Len(history) - 1 ELSE 0

\* legitimateCodeID: the position in the history, 0 if there is none.
legitimateCodeID(history) ==
    Max({0} \cup {i \in DOMAIN history : Uploader[history[i].code] # Holder})

\* Nothing is written if the contract uses that code already; migrate is not
\* called.  The recovery runs in the block after height.
restoreContractCodeID(c) ==
    LET i == legitimateCodeID(c.history)
        last == c.history[Len(c.history)]
        entry == [code |-> c.history[i].code, at |-> height + 1]
    IN  IF entry.code = last.code THEN c
        ELSE [c EXCEPT !.codeID = entry.code, !.history = Append(@, entry),
                       !.index = (@ \ {last}) \cup {entry}]

\* A contract without such a code, or with a third admin, fails the recovery.
RestoreContractAdmins(w) ==
    IF \E c \in DOMAIN w.contracts :
           \/ legitimateCodeID(w.contracts[c].history) = 0
           \/ w.contracts[c].admin \notin {Holder, RestoredAdmin[c]}
    THEN Failed
    ELSE [w EXCEPT !.contracts = [c \in DOMAIN w.contracts |->
              [restoreContractCodeID(w.contracts[c]) EXCEPT
                  !.admin = RestoredAdmin[c], !.cw2 = RestoredCW2[c]]]]

\* Mutant: the schedule is removed, the proxy keeps its owner.
LeavesOwner(w) == IF w = Failed \/ Schedule \notin DOMAIN schedules THEN Failed ELSE w

\* What DisableUndelegationsManager does to the proxy; it also removes the schedule.
DisableUndelegationsManager(w) ==
    IF w = Failed \/ Schedule \notin DOMAIN schedules \/ w.owner \notin {"manager", "gov"} THEN Failed
    ELSE [w EXCEPT !.owner = "gov"]

\* Mutant: as if the validator were always bonded.
UnstakeFromBonded(w) ==
    LET amount == w.stake[Voter]
        paid == Move(w, "distribution", Voter, BondDenom, w.rewards)
    IN  [Move(paid, "bonded", Voter, BondDenom, amount) EXCEPT !.stake = Drop(@, Voter), !.rewards = 0]

\* UnstakeProposal9Voter; the voter must have a delegation.
Unstake(w) ==
    LET amount == w.stake[Voter]
        paid == Move(w, "distribution", Voter, BondDenom, w.rewards)
    IN  [Move(paid, PoolOf(w), Voter, BondDenom, amount) EXCEPT !.stake = Drop(@, Voter), !.rewards = 0]

SpendableCoin(w, a, denom) ==
    IF denom # BondDenom THEN w.bank[a][denom]
    ELSE Max({0, w.bank[a][denom] - Vesting[a]})

\* Mutant: the listed amount is credited.
CreditListed(w, t) ==
    LET n == Min({t.amount, SpendableCoin(w, t.from, t.denom)})
    IN  [w EXCEPT !.bank[t.from][t.denom] = @ - n, !.bank[Recipient][t.denom] = @ + t.amount]

\* The spendable balance is read for every entry of the list.
clawCoin(w, t) ==
    Move(w, t.from, Recipient, t.denom, Min({t.amount, SpendableCoin(w, t.from, t.denom)}))

\* The list, and the stake that was released.
ClawbackList(w) ==
    Append(clawbackTransfers, [from |-> Voter, denom |-> BondDenom, amount |-> w.stake[Voter]])

RecoverProposal9(w) ==
    LET disabled == DisableUndelegationsManager(RestoreContractAdmins(w))
    IN  IF disabled = Failed \/ Voter \notin DOMAIN w.stake THEN Failed
        ELSE Seqs!FoldLeft(clawCoin, Unstake(disabled), ClawbackList(w))

-----------------------------------------------------------------------------
(* Blocks. *)

RecoveryInit ==
    /\ chain \in Chains /\ world \in Worlds
    /\ recovered = FALSE /\ stopped = FALSE /\ events = 0
    /\ \E stage \in Stages, period \in Periods :
           schedules = (Schedule :> [period |-> period, lastExecuteHeight |-> HaltHeight, stage |-> stage])
    /\ count = 1 /\ limit \in Limits
    /\ height = HaltHeight /\ phase = "idle" /\ queue = {} /\ executed = {}

\* BeginBlocker, before the modules' BeginBlock.
BeforeBeginBlock == phase = "idle" /\ height + 1 = RecoveryHeight

RecoveryDue == chain = "neutron-1" /\ ~recovered /\ BeforeBeginBlock

\* An error leaves the block, and every retry of it, without effect.
Recover ==
    /\ RecoveryDue
    /\ LET done == RecoverProposal9(world)
       IN  IF done = Failed
           THEN stopped' = TRUE /\ UNCHANGED <<schedules, count, world, recovered>>
           ELSE world' = done /\ recovered' = TRUE /\ RemoveSchedule(Schedule) /\ UNCHANGED stopped
    /\ UNCHANGED <<limit, height, phase, queue, executed, chain, events>>

Slashed(w) ==
    LET lost == {a \in DOMAIN w.stake : w.stake[a] > 0}
    IN  [w EXCEPT !.stake = [a \in DOMAIN @ |-> IF a \in lost THEN @[a] - 1 ELSE 0],
                  !.bank[PoolOf(w)][BondDenom] = @ - Cardinality(lost)]

Rewarded(w) ==
    IF Voter \in DOMAIN w.stake /\ w.rewards < w.bank["distribution"][BondDenom]
    THEN [w EXCEPT !.rewards = @ + 1] ELSE w

Event == events < MaxEvents /\ events' = events + 1

\* Distribution and slashing, then cron.
BlockBegins ==
    /\ BeginBlock
    /\ \/ world' \in {world, Rewarded(world)} /\ UNCHANGED events
       \/ Event /\ world' = Slashed(world)

\* The messages of the schedule: while the manager owns the proxy it
\* undelegates for it.  Other schedules leave the world alone.
ScheduleRuns ==
    /\ Execute
    /\ LET tick == IF world.owner = "manager" THEN Undelegate(world, Proxy) ELSE Failed
           ran == {q[1] : q \in queue \ queue'}
       IN  world' = IF ran = {Schedule} /\ tick # Failed THEN tick ELSE world
    /\ UNCHANGED events

Deliver(w) == phase = "txs" /\ w # Failed /\ Event /\ world' = w /\ UNCHANGED cronVars

\* A transaction: all of its messages, or none.
Tx == \E tx \in Txs : AnteHandle(tx) /\ Deliver(Seqs!FoldLeft(Handle, world, tx.msgs))

Dispatch == \E m \in Dispatched : Deliver(Handle(world, m))

\* The admin of a token-factory denom moves what an account holds of it.
ForceTransfer == \E d \in DOMAIN world.bank[Holder] \ {BondDenom}, a \in LockedAccounts :
    world.bank[a][d] > 0 /\ Deliver(Move(world, a, Proxy, d, 1))

\* Holder's code may write the storage of a contract that runs it.
RewriteCW2 == \E c \in DOMAIN world.contracts :
    /\ Uploader[world.contracts[c].codeID] = Holder
    /\ Deliver([world EXCEPT !.contracts[c].cw2 = "other"])

\* The validator joins or leaves the bonded set; its tokens change pools.
BondingChanged(w) ==
    LET to == IF w.bonded THEN "notBonded" ELSE "bonded"
    IN  [Move(w, PoolOf(w), to, BondDenom, SumOf(w.stake)) EXCEPT !.bonded = ~@]

\* x/gov, then staking, then cron.
BlockEnds ==
    /\ EndBlock
    /\ \E w \in {world} \cup {Enact(world, p) : p \in world.proposals} :
           \/ world' = w /\ UNCHANGED events
           \/ Event /\ world' = BondingChanged(w)

RecoveryNext ==
    /\ ~stopped
    /\ \/ Recover
       \/ /\ ~RecoveryDue
          /\ \/ BlockBegins \/ ScheduleRuns \/ Tx \/ Dispatch \/ ForceTransfer \/ RewriteCW2 \/ BlockEnds
             \/ (DeliverTxs \/ Add \/ Remove \/ Commit) /\ UNCHANGED <<world, events>>
          /\ UNCHANGED <<chain, recovered, stopped>>

RecoverySpec == RecoveryInit /\ [][RecoveryNext]_recoveryVars

-----------------------------------------------------------------------------
\* Between the halt and the recovery transactions, contracts, proposals and
\* cron act, and RecoverProposal9 fails in no state that they can reach but
\* one without the schedule: no contract can get a third admin or lose its
\* history, and the voter cannot lose the delegation.
StoppedByScheduleOnly == stopped => Schedule \notin DOMAIN schedules

\* After the recovery no contract runs code that Holder uploaded, has one of
\* the locked accounts as its admin, or has a cw2 value that is not its own;
\* restoreContractCodeID, which writes wasmd's stores directly, leaves them as a
\* migration would: the contract runs the last code of its history and is
\* listed in the index of contracts by code under that entry only.
RestoredForGood ==
    recovered => \A c \in DOMAIN world.contracts :
        LET k == world.contracts[c]
            last == k.history[Len(k.history)]
        IN  /\ Uploader[k.codeID] # Holder
            /\ k.admin \notin LockedAccounts
            /\ k.cw2 = RestoredCW2[c]
            /\ k.codeID = last.code /\ k.index = {last}

\* The two staking pools hold what is delegated and unbonding, although
\* UnstakeProposal9Voter takes tokens out without an unbonding entry and the
\* validator may have been slashed or have left the bonded set before.
PoolsBacked ==
    LET staked == SumOf(world.stake)
    IN  /\ world.bank["bonded"][BondDenom] = (IF world.bonded THEN staked ELSE 0)
        /\ world.bank["notBonded"][BondDenom] =
               SumOf(world.unbonding) + (IF world.bonded THEN 0 ELSE staked)

\* Once recovered, the proxy never undelegates again, even if the schedule is
\* added once more: its stake falls by slashing only.
ProxyStakeKept ==
    [][recovered => world'.unbonding[Proxy] = world.unbonding[Proxy]]_recoveryVars

\* After the halt a contract gets another admin or code in the recovery or
\* from an admin that is not locked, never from a proposal, even one that was
\* submitted before the halt.
ContractsByAdminOnly ==
    [][Active => \A c \in DOMAIN world.contracts :
          LET old == world.contracts[c]
              new == world'.contracts[c]
          IN  <<old.admin, old.codeID>> # <<new.admin, new.codeID>> =>
                  recovered # recovered' \/ (phase = "txs" /\ old.admin \notin LockedAccounts)]_recoveryVars

\* The entries of the list that name the same account and denom, and the
\* released stake, amount to one transfer of their sum or of all that the
\* account can spend once it is unstaked and paid; nothing else changes hands.
ClawbackIsOneTransfer ==
    [][recovered # recovered' =>
         LET Released(a, d) == IF a = Voter /\ d = BondDenom THEN world.stake[Voter] ELSE 0
             Paid(a, d) == Released(a, d) + (IF a = Voter /\ d = BondDenom THEN world.rewards ELSE 0)
             Listed(a, d) == Released(a, d)
                 + MapThenSumSet(LAMBDA i : clawbackTransfers[i].amount,
                                 {i \in DOMAIN clawbackTransfers :
                                    clawbackTransfers[i].from = a /\ clawbackTransfers[i].denom = d})
             Kept(a, d) == IF d = BondDenom THEN Vesting[a] ELSE 0
             Taken(a, d) == Min({Listed(a, d), Max({0, world.bank[a][d] + Paid(a, d) - Kept(a, d)})})
         IN  \A d \in DOMAIN world.bank[Holder] :
                 /\ \A a \in LockedAccounts :
                        world'.bank[a][d] = world.bank[a][d] + Paid(a, d) - Taken(a, d)
                 /\ world'.bank[Recipient][d] = world.bank[Recipient][d] + Taken(Holder, d) + Taken(Voter, d)]_recoveryVars

=============================================================================
