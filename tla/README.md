# PorygonServer: a TLA+ verification development

PorygonServer is the storage and co-ordination server of a sharded blockchain. Clients
(consensus nodes) reach it over HTTP and websockets; the server keeps the chain, the accounts,
the transaction pools and the client table, and decides when a proposal block, agreed on by the
*ordering committee*, and a state root, computed by an *execution shard*, have enough votes.

All line numbers below are of files under `src/`.

## 1. Inventory

| Component | State | Operations | Code |
|---|---|---|---|
| **Ordering votes and block commit** | `Source.LeaderProblocksInfo` (tally), `LeaderLock`, `ChainShard[0].Chain`, the block table | `POST /block/uploadleader` → `AppendBlock`, `CheckLeaderProblocks`, `VerifyBlock`, `HorizonBlockChain.AppendBlock`, reset of the shards | `model/block.go` 205-263, 451-486; `structure/block.go` 134-222 |
| **State roots** | `ClientShard[s].AccountState.NewRootsVote`, `TxNum`, `ValidEnd`, `Lock`; `ChainShard[0].TotalTxNum` | `POST /block/uploadroot` → `CollectRoot`; `VerifyGSRoot`; the reset | `model/block.go` 320-407; `structure/state.go` 264-322 |
| **Committee registration** | the clients table, `ConsensusCommunicationmap` | `PreRegister`, `RegisterCommunication` | `controller/shard.go` 25-190; `model/shard.go` |
| **Account state** | `AccountMap`, `NewAccountMap` per shard, `Mu` | `GetAccountList`, `FindAccountIds`, `UpdateAccount`, `UpdateChain`, `UpdateChainWithBlock` | `structure/state.go` |
| **Transaction pool** | `WitnessTransactions[kind][shard]` | batches (`PackBatchTrans`), windows by remainder (`PackValidateTrans`) for the commit and for `POST /block/validate` (`PackValidTx`), relay batches | `structure/controller.go` 405-490; `model/block.go` 322-400 |
| **Concurrent maps** | `ConcurrentMap`: values, one wake-up channel per key, a mutex | `Put`, `Get(key, timeout)` | `structure/controller.go` 238-290; `model/block.go` 110-200 |
| **Proposal multicast** | `idLocks`, a mutex per member; the websockets | `POST /block/uploadproposal` → `MuiltiCastProposal` | `model/block.go` 265-318 |
| **Chain readers** | none of their own | `GetHeight`, `GetProposalBlock` | `model/block.go` 408-440; `controller/shard.go` |
| HTTP routes, initialisation, process entry, forwarding, loggers | configuration | wiring, flags, log files | `route/`, `main.go`, `request/`, `logger/`, ... |

**How they interact.** Every request runs in a goroutine of its own and all of them share the
`Controller`, called `Source`. A full committee (registration) is told to start; its members
upload problocks; the upload that completes the round commits the block, and, still under
`LeaderLock`, inserts the row in the block table, executes a window of every pool on the account
states, reads the root votes of every shard (without the shards' locks) and starts a new round in
each of them (with their locks). The height in the block table, which everybody reads without a
lock, is visible from the insertion on: registrations for the next block, and root uploads for the
new height, overlap with the rest of the commit. Members of a committee exchange proposals through
`MuiltiCastProposal`, which writes to the sockets registration writes to; readers slice the chain that
commits append to.

**What is hard here.**

- *Interleaving.* Handlers share maps under five different locks or none; the
  mutex of a member is looked up and made in two steps, and may be made twice. `AppendBlock` reads the
  pointer to the tally at line 215, before the lock of line 217.
- *Check-then-act over transactions.* Registration counts rows, inserts a row and reads the rows
  again in three transactions.
- *Partial failure.* Most errors (a failed insertion, a failed query, a failed write to a
  websocket) are logged and forgotten.
- *Ordering.* Uploads do not say which round they belong to, or say it and nobody looks.
- *Liveness.* Nothing times out. A round that cannot complete stays.
- *Boundaries.* Windows `GetHeight() - 1`, remainders of pool lengths, `index % ValidateTxNum`.
- Nothing is recovered after a crash: `InitController` empties the tables, so a restart is `Init`.

**What makes the components correct.** Ordering: the chain never forks or skips a height, agrees
with the table, each window is executed once, every block has the votes of a quorum of different
clients, every round ends. Roots: relays are paid out once per round and only for the root that has
the quorum, no transaction is counted twice. Registration: one committee per block, all its members
are told the same list and can reach each other. Accounts: a balance changes only with a quorum of
roots. Pool: windows partition the pool. Maps: a `Get` that waits is woken by the `Put`.
Multicast: one writer at a time to a socket, and what is sent is written. Readers: the blocks one asked for, or an error.

## 2. Modules

| Module | Models | Composition |
|---|---|---|
| `Ledger` | what the ordering promises: an append-only ledger, each entry backed by a quorum | abstract |
| `LeaderProblocks` | the detailed ordering | `L == INSTANCE Ledger WITH ...` |
| `Payouts` | what the rounds promise about relays and transaction counts: one upload paid per round, settled by one commit or forfeited | abstract |
| `RootVotes` | root uploads against the committing goroutine | `P == INSTANCE Payouts WITH ...` |
| `Election` | what registration promises: at most one committee per block | abstract |
| `Committee` | the detailed registration | `E == INSTANCE Election WITH ...` |
| `TxPool` | batches proposed, windows executed and relays written, over the same pools | |
| `Balances` | what execution promises to an account's owner: whole transactions, one by one | abstract |
| `AccountState` | execution of blocks on the shared account structs, and the lists clients read meanwhile | `B == INSTANCE Balances WITH ...` |
| `Rounds` | ordering and state roots together: the handler that commits is the committer of the roots | extends `LeaderProblocks`, `R == INSTANCE RootVotes WITH ...` |
| `ChainReaders` | requests for blocks while the chain grows | extends `LeaderProblocks` |
| `TimedMap` | what the maps promise: a `Get` that waits | abstract |
| `ConcurrentMap` | the maps with channels, closings and a wait outside the mutex | `T == INSTANCE TimedMap WITH ...` |
| `Multicast` | proposals written to members, with a mutex per member | `Locks == INSTANCE ConcurrentMap WITH ...` |
| `LeaderProblocksProofs`, `CommitteeProofs`, `RootVotesProofs`, `ConcurrentMapProofs`, `MulticastProofs`, `OrderingUsersProofs` (of `ChainReaders` and `Rounds`), `AccountStateProofs`, `TxPoolProofs` | theorems | extend the modules they are about; `MulticastProofs` cites the theorems of the map, and `OrderingUsersProofs` those of `RootVotes`, through `INSTANCE` |
| `MC*` | symmetry sets and constants for TLC | extend the modules they instantiate |

### LeaderProblocks

A handler of `AppendBlock` is a program counter per client. `"waiting"`: it has read the pointer to
the tally (`captured`) and waits for `LeaderLock`. The critical section up to the decision is one
action, because it only touches what the lock guards; the decision has three outcomes, the actions
`Acknowledge` (not complete), `Refuse` (`CheckLeaderProblocks` fails) and `AppendToChain`. The rest is split where
others can look in between: `InsertRow` (the height moves), `Execute` or `ExecutePanics`, and one
`ResetShard` per iteration of the loop at lines 247-257. `tallies` is the sequence of *all* maps ever made, since
handlers keep pointers to replaced ones; the loop makes one map **per shard**, so some are replaced before
anybody uses them, but a handler may have captured one.

The iteration order of a Go map is random: `Leading` is the set of entries the search for the
maximum may end with. `VotesIn` is the set of votes in a map, whose number `TotalOf` is the sum of lines 236-238.
`Register` admits a client to a committee in one step; `Committee` models it
in detail, overfull committees included: nobody calls those, so none of their members uploads. `AddVote` counts a vote of a key with 0 as the first of it, `AddVote` of others as one
more; the problock's JSON key is the problock itself.

### RootVotes

`Vote` and `WriteRelays` are `CollectRoot` under the shard's lock. `Commit`, `VerifyShard`,
`AddTotal`, `ResetShard` are the committing goroutine, of which there is one at a time
(`LeaderLock`). `VerifyShard` takes no lock. `MapRace` is the Go runtime's answer to two races: a map of votes is
iterated over (`state.go:301`) while an upload assigns to it, and `AccountMap` is assigned to (`state.go:309`) while an upload that writes relays
reads it (`AppendBatchTrans` asks for `GetAccountList`, `controller.go:381`). `StrayPanics` is an upload that names shard 0, which is what a request
without the field decodes to: it takes the lock of shard 0 and panics on the nil map of its votes, and line 400, which is not deferred, never gives
that lock back (`zeroLock`). With `DBFaults`, `CommitPanics` is a commit whose
execution panicked since the table is empty: it releases `LeaderLock` and resets nothing. `voted`, `mark` and `seen` are history variables that
no guard reads. `Settled` counts the uploads of a shard a commit has dealt with, so that `Payouts` can be read off
the pools: `WriteRelays` is `Pay`, `VerifyShard` is `Settle` if there is something to settle, `ResetShard` is `Reopen`.

### Committee

Each registration is a process through the lines of `RegisterCommunication`, with its locals
`h`, `clients` and the rest of the loop it is in, `todo`. Transactions and queries are atomic, and
nothing else is. Every step that can fail has its failing action (`JoinFails`, `UpgradeFails`, `NotifyFails`; a failed
query leaves `clients` empty), switched by `DBFaults` and `SocketFaults`. `CommitBlock` lets the height move under
a handler that has already read it.

### TxPool

`Generate` is one iteration of `initializeTransactions`: a transaction goes to its pool and to the batch
being collected. A batch is a *set* of transactions `<<shard, position>>`, so that it can be compared
with a window, which is a set of positions: `PackBatchTrans` hands out batches by number, modulo the number of
batches; the commit slices windows by position, modulo the length of the pool. `validateTxNum` is chosen in
`Init`, because the command line sets it before the pools are made.

The commit (`Commit`, `PackShard`, `PackPanics`, `ResetShard`) takes no lock of a shard until the reset;
`WriteRelay` appends one relay at a time under the lock of its shard. A slice header that is read while it is assigned to is
taken to be the old or the new one. What transactions transfer is left to `AccountState`, and
who votes for a root to `RootVotes`: an upload may close the round of a shard once, with any number of
relays in `RelayNums`. `PackValidTx` (`POST /block/validate`) hands the window of a height to the clients that are to
execute it; `validated` keeps what was handed out, to be compared with what the commit executes. The height is read twice: `PackValidTx` is the first reading and
the packing, `AnswerValidTx` the second reading, which is the height the client is told.

A row may be lost here as in the ordering (`DBFaults`): the block is executed with the height unmoved. `executed` is therefore indexed by the number of the *commit*, and
`heightOf[m]` is the height of the table that commit `m` finds. With an empty table the window is -1: `Remainder` is Go's, whose sign is that of the dividend, so that the window starts
below 0 and panics, unless `ValidateTxNum` is a multiple of `TX_NUM` (then it is the whole pool). `panicked` keeps the heights at which that happened.

### AccountState

`struct` holds the values, and `accountMap` and `newAccountMap` say which struct an account is in: the code
puts the same pointers in both maps, and the difference shows only if the model has pointers. `Update` makes the
`lists` of a block's transactions, kind after kind and within a kind in one of the orders in which the code may range
over the shards; `NextList` takes the next of them as `queue`. `Debit` and `Credit` are the two writes of an internal
transfer, between which a list can be copied. `Fatal` is
the `log.Fatalf` for a relay whose beneficiary is in another shard, `MapRace` the runtime's stop
when line 309 assigns to the map while line 165 reads it. `InsertRow` may lose the row and leave the height as it is; `UpdatePanics` is a commit whose
window is not in a pool, which executes nothing (`TxPool` says when). Whether a shard has a quorum of roots is a
free choice. `PackAccount` copies account after account and reads the height last; `list` records, for each
balance copied, the commit that had changed it last (`changed`, a history variable, of commits and not of heights because rows may be lost). `FindAccountIds` is the
list of accounts a batch declares to its clients (`RelatedTo`): `RelatedAreChanged` compares it with what the
execution of the batch writes.

### TimedMap and ConcurrentMap

`MyConcurrentMap` and `IdConcurrentMap` are the same code for two types of values. `Get` has up to three sections under the
mutex, each one action: it looks (`Found`) and, if the key is absent, leaves a channel (`Await`); it waits in a `select` for the
channel (`Wake`) or the deadline (`Timeout`); when woken it looks again (`Return`). `Put` stores and closes the
channel. All callers in the code pass a duration of zero, so the deadline may pass at any moment. `TimedMap` is the map they
promise: an answer is an error for a key that was absent when the caller asked, or the value the key has when it is given.

### Multicast

`MuiltiCastProposal` for each member of the list: `GetLock` and `GetGoesOn` are the `Get` of `idLocks`, `UseLock` and `MakeLock` the two
ways on, both of which start the goroutine of the member (`writer`). A mutex is named after the request and the member it was made for.
`Lock`, `Unlock`, `WriteFails` (which keeps the mutex: line 307 returns without `Unlock`) and `Drop` (no such socket) are the goroutine.
`Call`, `Called`, `CallFails` are the loop of `RegisterCommunication` over the committee, which writes to the same sockets with no mutex.
The websocket library panics when it *notices* a second writer, so a panic is a choice where there are two: in a goroutine it ends
the process (`alive`), in a handler gin recovers. `raced` is a history variable: the members for which two
requests had found no mutex at the same time.

### ChainReaders

`AskHeight` and then, any number of commits later, `ServeBlock` (an execution client: one slice of one block) or `ReadChain` and
`ServeChain` (an order client: the slice header is read first, then the table, then the slice is cut with a lower bound from the
request). `Answer` is Go's slice expression: legal bounds or a panic, to which gin answers 500.

### Rounds

`LeaderProblocks` and `RootVotes` side by side. The variable `committer` of `RootVotes` becomes an expression over the handlers of
`LeaderProblocks`, its `height` the height of the table. `StrayRoot` is the upload that names no shard. `CommitRow`, `ExecuteRow`, `Panic` and `ResetRound` are steps
of both modules; everything else is a step of one that leaves the other alone. What the composition adds: the assumption of `RootVotes` that there is one
committer at a time becomes a property (`OneCommitAtATime`), and the commit now waits for locks of shards while it holds
`LeaderLock`, so that progress of the one depends on the other.

## 3. Runs

| Run | Question | Bounds |
|---|---|---|
| `leader_safety` | chain = table = windows until an insertion fails, and then the chain has ended; distinct voters; the handlers implement `Ledger` | failing insertions; 4 clients for committees of 3 (so a client may sit out, come late or vote in an old round), 2 problocks per height (ties and split votes), 3 heights (a vote can be late by two rounds), 2 shards (an intermediate map) |
| `leader_lostvote`, `leader_earlycommit`, `committee_uncalled`, `accounts_unverified` | the findings below | |
| `root_safety` | relays are those of a root with a quorum, once per round; transactions are counted once; a reset wipes out only the early; the rounds implement `Payouts` | 2 shards of 2 clients, quorum of 2 (`ClientMax` 3), 2 roots, 2 blocks (stale and early uploads), failing insertions, an upload that names no shard; every upload has 2 transactions, so that two counts of one upload exceed what was written |
| `rounds_fair` | one commit at a time; every upload is answered; every height commits unless a vote went astray, a row was lost or the process stopped | 3 clients for committees of 2, so that one can register and vote while another commits; 1 problock per height (votes cannot be split); 2 heights, so that a second commit meets the leftovers of the first; 2 shards with 1 execution client, whose one vote is the quorum ((2·2)÷3 = 1): its uploads write relays and hold the lock of a shard the commit waits for; an upload that names no shard; failing insertions; fairness |
| `committee_safety` | one committee of connected members; implements `Election` | 4 registrations for committees of 2 (an overfull committee and a second one are possible), 2 heights of rows, all faults |
| `pool_safety` | batches are windows; what is proposed, handed out for validation and executed agree; when a commit panics; relay batches are disjoint and the relays of a round reach its commit | 2 shards, pools of 6, windows of 2 and 4 and 6: the first and the last divide the pool, 4 does not, so that a batch is carried over to the next shard and a slice panics, and with 6 window -1 is the whole pool; 5 commits with failing insertions, so that proposals are executed, windows of 2 wrap around and are repeated, and the first row may be lost; 0 or 3 relays, fewer and more than a window; the execution clients of the second shard only (`Active`: what clients do to a shard does not touch another); 926,799 states |
| `accounts_safety` | balances change by whole transactions, of the accounts the batches declare; lists are not newer than their height and the rows lost | 2 shards of 2 accounts; one window with two transfers of one payer and both halves of a transfer between shards, one with a relay in the wrong pool; 3 commits with failing insertions, 1 reader |
| `readers_safety` | the blocks served are those asked for; when slices panic | 3 clients for committees of 2, failing insertions, 4 heights (the bounds change at 3, and a fourth block can come between the readings), 1 reader: readers change nothing and do not meet |
| `multicast` | one writer at a time, no lost wake-up, `idLocks` implements `TimedMap`, messages are delivered | 3 requests, of which two race and a third comes late, all for one member, one of them for another that is not connected; a committee of 2 called by 1 handler; failing writes; fairness |

Deadlock checking is off in every run: the models stop when the bounds are used up, and
registration and ordering really do get stuck in the dead ends listed in section 6. Symmetry is used in safety runs only.

**Fairness.** Handlers are goroutines; the scheduler runs those that can run. Taking a mutex is
enabled and disabled again and again while others hold it, so the steps that take one get strong
fairness: `sync.Mutex` goes into starvation mode after a millisecond and hands itself to the waiter at
the head of the queue. That is `HandleOrder` (`LeaderLock`, and a shard's lock in each reset) and `HandleRoot` in `Rounds`,
`Write` of a writer in `Multicast`. `Verify` of `Rounds` and `Handle` of `Multicast` take no lock that another goroutine keeps between
two actions: weak fairness. The order clients of `Rounds` register and upload under weak fairness; nothing in
the server makes them, and `EveryHeightCommits` is conditional on them, as it is on their agreement: with one
problock per height they cannot split the votes, which is the case in which progress can be expected. Nothing makes an execution client upload, a
request come, or a write to a socket fail or succeed: only started work must end.

With three clients for a committee of two `EveryHeightCommits` needs the case `VoteAstray`: the client that registers while another commits may put its vote
in a map nobody will look at, and those that remain are no committee. Without the excuse TLC finds that behaviour; it is the finding `leader_lostvote` with its
consequence. With committees of all clients it cannot happen, since the one that commits has not registered again.

## 4. Findings

- `leader_lostvote`: a handler that waits for the lock while a round commits puts its vote in a map
  nobody reads, and answers `上传成功`.
- `leader_earlycommit`: a late vote completes an *orphaned* map, and the decision is taken on the
  *current* one: a block commits with fewer problocks than the comment at `model/block.go:451` says.
- `committee_uncalled`: a committee that is exactly full may never be called, since the row of a
  member is visible before its socket is in the map.
- `accounts_unverified`: a block changes the real accounts while it is executed, not when the roots have exceeded the
  threshold as the comment at `structure/state.go:269` says: after `structure/state.go:69` both maps are one map, and the
  structs were shared from the start.

## 5. What is proved

TLAPS checks the eight proof modules for all values of the constants that satisfy the
`ConstantsAssumption` of the module, and for `Rounds` of both its parts (finitely many clients, a committee of at least one, at least one shard; for `RootVotes`, a
`ClientMax` of at least two, so that a quorum is at least one vote; for `Multicast`, lists without repetition).

**LeaderProblocks.** `IndInvariant`: `IndInv` is inductive. Beyond the properties it needs that a handler
between append and return has the lock and nobody else does (`LockInv`), that the committed block is on
the chain (`CommitInv`), that a waiting handler has a problock of the last round its client entered
(`RequestInv`) in which the client has not voted (`VotedInv`), and that **no tally, orphaned ones
included,** has more votes for a problock than it has voters (`TallyInv`): late votes go to orphaned maps, so the bound
has to speak of all of them. The table is compared with `Persisted`, the number of blocks whose insertion has been
tried: it is never ahead (`NextInv`: the row about to be inserted is the next one), and once a row is lost it stays behind, which is the state predicate
`RowLost`. From it: `TypeCorrect`, `ChainIsTable` (with repeated uploads, and until an insertion
fails) and `BlocksHaveQuorum`.

After a failed insertion the height of the lost row is up for another vote, and the question is whether it can win again. `QuorumInvariant` is
the answer, `QuorumInv` being a second layer over `IndInv`: a committee has no more than its members (`MembersInv`), each of which votes for one problock of
a height (`OneVoteInv`) in one map (`PairInv`); the quorum of every block on the chain is in some map, closed or held (`TalliedInv`). If two quorums
intersect (`2 * LeaderQuorum > OrderClientNum`, which holds for all committees but those of one, two or four members), the votes left for a
height that is on the chain are none (`HeightsInv`). The one case in which that map may still be the open one is a panic: the first row was lost, nothing was reset, and the
tally stays. Then `TotalInv` counts: there were as many votes as the committee has members, so nobody is left to vote (lemma `NobodyLeft`). Hence
`LostRowIsTheEnd` (the action property `LostRowEndsChain`), and `HandlersImplementLedger`, the step refinement (a vote is `Vote`, the vote that appends is
`Vote` and `Commit`, everything else stutters), which is for systems where no insertion fails *or* quorums intersect. In a committee of two, whose quorum is one vote, the ledger
can fork at a lost row.

**Committee.** `IndInvariant`: rows are only added, so what a handler has read stays in the table
(`SnapshotInv`), and two snapshots of the same block are ordered by inclusion (`OrderedInv`); a
handler that calls a committee has read a full one and found all its sockets (`CallingInv`), and each message is
backed by such a handler (`ReadyInv`). Two full snapshots that are ordered are equal, because a finite set
has no proper subset of its own size: hence `OneCommitteeCalled`, and with `SnapshotInv`
`ListsAreConnected`. `RegistrationImplementsElection`: the first message for a block elects, all others stutter.

**RootVotes.** `IndInv` says why the votes of a round can be trusted although uploads of any height are counted and the verification
takes no lock: who has voted for a root is in `voted` and had one upload each (`VotedInv`, `CountInv`), a root is `validEnd` only
with a quorum (`QuorumInv`), relays are being written only by the handler that made it so (`WritingInv`), and they are all in the pool of that
round (`PoolInv`). `SeenInv` relates what `VerifyShard` read to what the reset wipes out. From it `RootsTypeCorrect`,
`RelaysWrittenOnce` (the invariant `RelaysOncePerRound`), `RelaysHaveQuorum` and `EarlyIsCounted` (two action properties).
`NumInv` (the `TxNum` of a closed round is the number of the last upload written) gives `RoundsImplementPayouts`: what `VerifyShard` adds for a shard is the number of the upload that
is not settled yet, if there is one, whatever the votes and the number did between its readings. `NoneCountedTwice` (the invariant `NoTransactionCountedTwice`) counts *transactions*, as pairs of an
upload and a number, instead of summing: `TotalInv` says that `totalTxNum + num` does not exceed the cardinality of the transactions of settled uploads, each commit adds those of an
upload not settled before, and a set of them is within those written.

**Rounds.** `RoundsAreOrdered` and `RoundsAreRootVotes`: every step of the composition is a step of each module or leaves it alone. The second is where `LeaderLock` counts: an order client's step that is not
part of a commit must not move the expression `Committer` (lemma `OrderHidden`), and the handler that inserts, executes or resets must be the only one that does. `LinkInv` keeps the two loops over the shards at the same shard, hence
`OneCommit` (the invariant `OneCommitAtATime`). What is proved of the parts then holds of the whole: `RoundsSettlePayouts`, `RoundsPayOnce`, `RoundsCountOnce` for the roots,
`RoundsKeepLedger` for chain, table and lost rows.

**ConcurrentMap.** `ChannelInv`: a channel is closed only if its key has a value and open only if it has none, whoever waits has a channel, and who was
woken found it closed. `NoWakeUpIsLost` is an instance of it; `MapIsTimedMap` is the refinement of `TimedMap`: the step that answers needs
the invariant, since a woken caller looks again without testing what it finds. Both hold for any use of the map; no run
of its own checks them, `multicast` checks them for `idLocks`.

**Multicast.** Every step of a multicast is a step of the map or leaves it alone, hence `Spec => Locks!Spec`, and with the theorems of
`ConcurrentMapProofs` `LocksWakeUp` and `LocksAreTimedMap`. `WritersExclude` (the invariant `OneWriterUnlessRaced`) is proved from `IndInv`: until two requests race for a
member, at most one of them has found no mutex and then there is none (`MissingInv`), and every mutex in use, or found by a request
and not yet used, is the one in the map (`MutexInv`, `FoundInv`); one mutex has one holder (`ExclusionInv`).

**ChainReaders.** `ReadersInv` adds to the invariant of the ordering that a reader was told a height the table had (`ToldInv`) and that the slice its handler has
read is at least that long (`ReadingInv`). The lemma `StepGrows` says what a reader may rely on: height, chain and rows only grow, and a lost row stays lost. From
it `RightBlock`, `RightSuffix`, `OnlyStalePanics` and `ReadersTypeCorrect`.

**AccountState.** `IndInv` rests on two facts. `SharedInv`: both maps point to the structs `InitAccountList` has made, always, so that what is
written through the one is read through the other and `VerifyGSRoot` replaces a map by itself. `ChangedInv`: while a block is executed, what is
related to its transactions is what this commit has changed together with what is related to the transactions still to come
(`Pending`); these are transfers between two accounts of one shard if they are internal (`PendingInv`). Executions are numbered by commits: `ListInv` bounds a balance
by the height told and `LostRows`, the commits without a row, which only grow. From it `AccountsTypeCorrect`, `ListNeverAhead`,
`BatchesDeclareChanges`, and `ExecutionByTransactions`: `ExcuteRelay` is `Deposit`, `ExcuteCross` is `Withdraw`, `Debit` is the whole `Transfer`, its `Credit`
and everything else stutter.

**TxPool.** `IndInv` starts with where the loops of `initializeTransactions` are: one pool after the other is filled (`FillInv`), and since a
batch is cut at each `validateTxNum`-th transaction *of a kind*, across shards, both kinds have the same number of batches in a shard even if the pools cannot
be cut (`SizeInv`), which is why a proposal finds its cross batch. If they can (`Divides`), the batches are the chunks of `validateTxNum` transactions (`BatchInv`), and
the lemma `WindowIsChunk` shows that the remainders of `PackValidateTrans` cut the chunk number `1 + h % Parts`. `RowsInv` ties commits to rows: each adds one or
none. `WindowInv` and `PipelineInv` say which chunk each block has been proposed, handed out and packed, shard by shard while a commit packs, as a function of the height that was read;
an answer has a height not below it. At height 0 the window is not sliceable or the whole pool, at all others it is (`Executes`), hence `WindowsArePackable`.
`TimesInv` counts: after `m` rows transaction `i` has been executed at least `m \div Parts` times, and once more if its chunk has had its turn (`Due`), and at most once more for every lost row; two numbers
`Due` differ by at most one. `RelayInv` bounds the list of an upload by `(index - 1) % validateTxNum`, although the list is cut by the index, and keeps it disjoint from the batches.
`RoundInv` is a second layer: a round adds the relays of at most one upload to a pool, from which `NewRelaysAreExecuted` follows. All eight properties of the run are proved.

**Only model-checked:** the liveness properties `EveryHeightCommits`, `UploadsAreAnswered` and `MulticastsAreDelivered` (temporal reasoning
with fairness is beyond the prover), and the violations of section 4. Every invariant, action property and refinement of a passing run is proved.

## 6. Dead ends that are known

These are reachable in the code and in the models; no property excludes them.

- A round whose votes are split without a quorum is refused by every later upload, for ever: the
  tally is not reset and nothing times out. A vote lost to an orphaned map has the same effect if the
  committee is just large enough.
- Two registrations can both take the last place of a committee. A committee with one member too
  many never equals `ProposerNum` and is never called; `OneCommittee` shows that it is not called in part either.
- Two handlers may both call the same committee. All members get the same list, twice.
- A failed upgrade leaves a row without a socket, and the transaction begun at `controller/shard.go:62`
  is not ended on that path.
- Root uploads for an old height count in the new round, and uploads of the new height that arrive
  before the reset are wiped out: roots are compared as strings, heights not at all.
- A block whose row could not be inserted is rolled back, and its client is told that it is on the chain
  (`controller/block.go:49`). It is executed all the same: with the window of the block before it, which is thus executed twice, or, while the
  table is empty, with window -1, which panics and resets no round (`PackPanics`, `ExecutePanics`), unless `ValidateTxNum` is a multiple of `TX_NUM`: then
  window -1 is the whole pool. Balances may then be of a later commit than the height a client is told.
- A root upload that names shard 0, which is what JSON without the field decodes to, panics with the lock of shard 0 taken; the next one waits for ever, with a goroutine.
  Nobody else takes that lock. Shards beyond `ShardNum` panic before a lock is taken, here and in `PackValidTx`, where shard 0 panics too; these change nothing.
- A `ValidateTxNum` that does not divide the pool makes a commit panic in a slice expression once the window
  would wrap around; no round is reset then (`PackPanics`). With `ShardNum = 1` no cross transactions
  are made, and every commit and `/validate` panics. With more than two shards
  `initializeWitnessTransactions(2, 2)` has no place for the third: the server panics at start.
- With such a `ValidateTxNum` the batch that is being collected is carried over from a shard to the next (`structure/controller.go:336`): its first batch has transactions of the shard before.
- Batches of relays have 1, `ValidateTxNum`, `ValidateTxNum`, ... elements, since the list is cut where the *index* is a
  multiple (`model/block.go:387`), and what is left over at the end of an upload is in no batch.
- The commit executes the *newest* `ValidateTxNum` relays of a pool, and none as long as there are fewer: those of a round are executed again
  if the next round writes less than a window. Relays are never executed if an upload has more than a window, if they are written between the packing and the reset of
  a shard and more follow, or if they were among the first, too few for a window: with windows of 4 and uploads of 3 the first commit executes none and the
  second relays 3 to 6.
- A list of accounts may be older than the height it comes with, and may be copied between the two halves of a
  transfer. Overdrafts are not checked for: balances may become negative.
- Two multicasts that find no mutex for a member make one each (`model/block.go:291-295`). The second replaces the first in the map, also while
  it is held: the writers exclude each other no more, and the websocket library may panic in a goroutine, which ends the process. The loop of
  `RegisterCommunication` takes no mutex at all and has the same effect.
- A write to a member that fails keeps the mutex (line 307): later messages to that member wait for ever, each with a goroutine.
- An order client that was told a height below three, and asks when the table has reached three, makes the slice
  expression panic and is answered 500 (`model/block.go:419`). A block is served before its row is inserted, also if it never is.
- `PackValidTx` labels its answer with a second reading of the height (line 347), so that a client may be told height 2 and given the transactions of
  block 1; `ValidatedIsExecuted` says what is left: never those of a block after the height told. Relays are read while they are written, and two clients may be
  given different relays for one height.
- With more clients than a committee needs, a vote astray can leave a round that never completes (`VoteAstray`).

## 7. Not modelled, and what is left

The plan has left:

1. A composition of `Rounds` with the pools and the accounts, with the quorum of `RootVotes`
   in the place of the free choices of `TxPool` and `AccountState`. Rows may be lost in all of these modules, and a panic of the execution ends a
   commit in all of them, but which windows panic is exact only in `TxPool`: `LeaderProblocks`, `RootVotes` and `Rounds` take window -1 for the only one, `AccountState` lets any commit panic.
   That the choices together allow whatever the composition does is argued, not checked; it would add that every executed window was voted on.
2. An abstract specification of the transaction pool: the schedule that `BatchesAreWindows`, `ExecutedWasProposed` and `EvenlyExecuted` describe in parts.

Out of scope: routes, flags, loggers and JSON (pure I/O), the database and the websocket library
(external, modelled by the atomicity and the faults the code sees), and the hashes: blocks are compared by what
is in them. `structure/pool.go` is commented out from its first line to its last. `InitServer`, `ServerPing` and `WSRequest` of `main.go`
and `TryLock` and `Unlock` of an account are never called; `MultiCastBlock` and `SendVote` answer and do nothing else. A crash loses everything:
`InitController` empties both tables at every start, so a restart is `Init`.
