# A verification project for Nolik

Nolik sends encrypted messages through a Substrate chain. A client encrypts a
message and builds *metadata* that lets the parties decrypt it. It submits both in
one `send_message` extrinsic. The pallet writes the message to the off-chain
storage of every node that executes the call, and emits an event with the key and
the metadata. A reader takes the event from a finalized block, the data from the
off-chain storage of its node, and decrypts them.

## 1. Inventory

| component | source | state | operations |
|---|---|---|---|
| pallet-nolik | `pallets/nolik/src/lib.rs` | `MessageCounter` (u128), off-chain index, events | `send_message` |
| runtime | `runtime/src/lib.rs` | nonces, balances, sudo key, block hashes, time | execution of blocks, signed extensions, fees, accounts and their removal, sudo |
| network of nodes | `node/src/service.rs`, `chain_spec.rs` | imported blocks, best, finalized, pool, off-chain database, clock | authoring, import, finality, warp sync, crash and restart |
| node commands | `node/src/{command,cli}.rs` | the database of a stopped node | revert, purge-chain, export-blocks, import-blocks; commands that only read |
| cypher | `client/cypher` | none | encryption of bytes, derived encryption of structures |
| message metadata | `client/metadata/src/{meta,messages}.rs` | none | `new_encrypted`, `decrypt`, `compute_root_hash` |
| command line client | `client/src/{main,lib}.rs` | one session with one node | sign, submit, wait for finality, fetch, decrypt |
| C interface | `client/metadata/src/lib.rs` | buffers shared with the host | allocate, deallocate, JSON calls |
| JavaScript interface | `client/js-wasm` | none | conversions to and from Maps, and the calls made with them |
| rpc | `node/src/rpc.rs` | none of its own | the next nonce of an account; fee queries |
| benchmarking | `node/src/benchmarking.rs` | none | extrinsics of the benchmark commands |

**How they interact.** The client talks to one node by RPC. Between its requests
the node goes on authoring, importing and finalizing. Nodes exchange blocks and
votes. `send_message` runs inside block execution, which happens once for each node
and for each fork. The pallet and the metadata crate are coupled only by
`check_message`, which checks the shape of what `new_encrypted` builds.

**What is hard.**

* Chain state belongs to a fork, off-chain data to a node. A reorganisation
  exchanges the first and leaves the second.
* Answers of a node are stale when the client uses them: the nonce it signs with,
  and the finality report after which it fetches.
* Event and data travel apart, so a reader may hold one that does not belong to the
  other.
* One call has several early returns and three writes. The nonce of the caller is
  consumed in every case.
* A channel opens only for its party, and the other channels must not get in its way.
* Accounts are removed together with their nonce, the one thing that keeps an
  extrinsic from being executed again.
* A node loses its pool in a crash, and whoever waits for a message must learn of it
  or see it finalized. Two authorities finalize nothing while one is down.
* Commands change what a stopped node has stored, but not everything that belongs
  together: `revert` takes blocks back, and neither their off-chain data nor votes.
* Timestamps are moved when an author is late or its clock is behind, and the
  runtime panics when they leave the slot.
* Across the C interface neither lengths nor ownership are checked, across
  JavaScript no types: a nonce and a key are arrays of bytes.

**What makes each component correct.** *Pallet*: keys are unique, data and events
agree, refused calls leave no trace, published messages never change. *Nodes*: the
finalized log only grows, extrinsics are executed at most once, off-chain data are
authentic, and a finalized event is readable unless a fork interfered. *Metadata*:
parties and nobody else open the channels, the recipient reads the message, nobody
reads another text, and the hash identifies the contents. *Client*: who sees its
message finalized gets it back. *Runtime*: nothing is executed twice or for free, and
nobody speaks in another name except by sudo. *Commands*: whatever is lost or split
has a cause among them. *Interfaces*: entries come through unchanged but for their
kind, a failure never looks like a message, buffers go back as they were allocated.

## 2. Modules

| module | models | composes |
|---|---|---|
| `NolikCall` | `send_message` as pure operators: format check, counter, key, result | |
| `MessageLog` | what Nolik promises: an append-only log of checked messages | |
| `NolikPallet` | the storage of one runtime | `NolikCall`; implements `MessageLog` |
| `NolikChain` | several nodes with Aura, forks, GRANDPA, warp sync, off-chain indexing | `NolikCall`; implements `MessageLog` for each node |
| `NolikClient` | runs of `client/src/main.rs` | `NolikChain` |
| `NolikMaintenance` | commands on the stopped nodes of a network | `NolikChain` |
| `NolikService` | crashes, restarts and liveness of the services of a node | |
| `NolikClock` | timestamps, slots and clocks | |
| `NolikRuntime` | extrinsics on one chain: nonces, eras, fees, accounts, sudo | `NolikCall` |
| `NolikMetadata` | encryption, channels, root hash as pure operators | |
| `NolikUsers` | the users and messages of the next two modules | `NolikMetadata` |
| `NolikExchange` | users who send and read | `NolikUsers`, and `NolikCall` for the shape check |
| `NolikInterfaces` | users of the Rust, C and JavaScript interfaces | `NolikUsers` |
| `NolikBuffers` | the memory behind the C interface | |
| `NolikFolds` | nothing of Nolik: what `FoldLeft` and `FlattenSeq` compute, for the proofs | |
| `NolikPalletProofs`, `NolikRuntimeProofs`, `NolikChainProofs`, `NolikBuffersProofs` | the theorems about the module of that name | that module, and `NolikFolds` where it folds or counts |
| `NolikNetworkProofs` | the theorems about `NolikClient` and `NolikMaintenance` | `NolikChainProofs` |
| `NolikExchangeProofs` | the theorems about `NolikExchange` and `NolikInterfaces` | both, and `NolikFolds` |
| `NolikServiceProofs` | the theorems about `NolikClock` and `NolikService` | both |
| `MC...` | small instances for TLC | |

**NolikPallet.** `message_counter`, `offchain`, `events` are what the call writes at
`lib.rs:92-96`, `result` is what it returns. `Accept` is the path through all the
checks, `Refuse` every early return. SCALE encodes a `MessageKey` with fixed widths, so a
key is the pair of its fields. Byte vectors are opaque, because the pallet asks only
whether one is empty. `ImplementsLog` reads entry *i* from event *i* and from what
the storage holds *now* at its key, so a later overwrite would change the log.

**NolikChain.** A block stands for its whole chain, a sequence of `[slot, txs]`.
`StateOf` executes a chain: it folds `ApplyExtrinsic` (the nonce check of
`SignedExtra` and the pallet's call) over the bodies. The actions are

* `Author`: the slot of a node comes (`SlotOf`), and it builds on `SelectChain` with any
  valid sequence of signed extrinsics (`Propose`). A pool that has not received an extrinsic yet, lost it in a
  restart, or orders it differently is one of these choices. A crash needs no action
  of its own: what else a node keeps is committed together with the block.
* `Import`: a block of another node arrives after its parent. Late, lost and
  reordered blocks are `Import` steps not taken. `Store` commits the off-chain writes
  with the block, on any fork.
* `FinalityRound`: a supermajority has voted, each voter `VoteLag` blocks behind a best
  block it had (the default voting rules of `service.rs:323`; their second rule, three
  quarters of the unfinalized chain, is weaker than this one for the lengths here).
  That GRANDPA rounds agree with one another is taken from GRANDPA: there is one
  `justified` chain. `Finalize` is a node that learns of it.
* `WarpSync`: a fresh node takes over a finalized state. `base` remembers where.

A message of the state (`sent`) is recorded with the account that signed its extrinsic
next to its key, so `OffchainAuthentic` compares the two: a key made from another
account would show.

`authorities` is the genesis list of one of the chain specs, chosen at the start and
never changed, because no call reaches it.

The Substrate services are libraries. They are modelled from the configuration in
`service.rs`, and those without code here (`Store`, `Finalize`, `Quorum`,
`IndexBlock`) are external in the map.

**NolikClient.** One phase for each request of `main`. `create_signed` and
`submit_and_watch` are separate requests with the chain moving in between, and so are
the report of finality and `fetch`. What the client encrypts is one byte value for each
run, since every run draws fresh keys; `NolikExchange` shows that only the right
data decrypt.

**NolikMetadata, NolikExchange.** Cryptography is symbolic: a box opens with the same
nonce and the same unordered pair of keys, and hashes collide only on equal inputs.
A packet is what `main` publishes (metadata and encrypted entries), and a reader
tries any published data under any event, because `NolikChain` shows that a key may
return the data of another message. The peer is any party that the channel names.

**NolikMaintenance.** A stopped node is one that takes no step, so a command may come
between any two steps of its node. `Revert` takes back blocks above the finalized one,
and `offchain` is not among its primed variables. `PurgeChain` empties the database.
`ImportBlocks` executes the blocks of a file without indexing, since that command
has no such option. `executed[n]` records the blocks that were indexed. Revert and
purge also start the GRANDPA voter afresh (`command.rs:101`), and `voter[n]` says
when that happened with a round under way: such an authority votes above its
finalized block and not above the last round, which replaces what `NolikChain`
takes from GRANDPA. Forks as high as the reverted blocks are forgotten together
with them, an abstraction: the code keeps those that were not reverted.

**NolikService.** Only the block of the watched extrinsic and the blocks on top of it
are kept, as `depth`, and `synced` says who has the best block. `Crash` is the failure
of an essential task (`service.rs:291`), which takes the node and its pool down; `Start`
brings it back with its database. An authority without peers skips its slots
(`Online`) unless it is the only one. `Fork` is what the running nodes do when
everyone with the best block is down. `Pruned` takes the extrinsic out of the pools of
the nodes whose chain has it, and so a fork can only bring it back from a node that had
not imported the lost block; `WatchedStaysPending` says that while its client waits this
is never the last copy to go. What a reorganisation puts back into a pool is left to
`Gossip`, which may bring it at any later time. `MayAuthor` holds whatever waits for
finality, because `backoff_authoring_blocks` is `None`.

**NolikClock.** `Author` takes the timestamp that `create_inherent_data_providers` and
`pallet_timestamp` make of the local clock. `TimestampInSlot` is the assertion of
Aura's `on_timestamp_set`, `AcceptedAtOnce` the checks of the importing nodes.

**NolikRuntime.** `state` is the storage of the pallets. `Includable` and `PreDispatch` are
`SignedExtra`, `Dispatch` the call, `PostDispatch` the refund of `Pays::No`. `Deposit` is
where an account ends: below the existential deposit the balance goes, and the nonce
with it. Messages use the operators of `NolikCall`, so the pallet is the same one as
in the other modules. `create_benchmark_extrinsic` makes the mortal extrinsics of
the benchmark commands. `history` is what the properties look back at: with each
executed extrinsic it has the holder of the sudo key before it and the positions of
the messages that it sent, so `SentByOwnerOrSudo` finds the one extrinsic of each message and
asks for the key at that place.

**NolikInterfaces.** The same calls by way of the three interfaces, `via`. C returns a
structure with an error or contents, where the contents of an error are the
defaults. JavaScript loses the kinds (`message_from_js`) and tells keys from nonces
by their length alone; a wrong length is an exception, and of a nonce a `Trap`. A
root hash only has to be longer than a nonce (`HashAssumption`). One
message goes from `PublishVia` (`posted`) by way of `OpenVia`, which decrypts the
metadata (`seen`), to `ReadVia`, which decrypts the message (`got`). A reader tries
every nonce at hand and every peer.

**NolikBuffers.** `heap` is the allocator and `boxes` are the Box objects of
`tests/www/index.js`, the only host in the repository. `Layout` is the size that
`CString::from_raw` finds, the text up to its NUL. The host writes what it
allocated for, before the call, and gives back what it has used. It asks for
`params.length` characters, which are the bytes because the parameters are ASCII.

## 3. Runs

| run | instance | shows |
|---|---|---|
| `pallet` | 2 accounts, 3 byte values, 7 shapes of metadata, counter of 2 bits | all sequences of calls until the counter overflows |
| `chain` | 1 authority with a node that may warp sync, or 2 authorities; 4 slots, 3 extrinsics, `VoteLag` 0 | a chain that does not fork keeps every finalized message readable; what stays true with forks |
| `chain_read_back` | 2 authorities with `VoteLag` 2 | **violation**: see below |
| `client` | 2 clients of one account on 2 nodes, 1 or 2 authorities, an extrinsic of somebody else that is refused, one node that may warp sync | finality implies delivery but below the start of a warp sync; one winner for a nonce and a key |
| `maintenance` | 1 authority and a follower, 2 messages with the same nonce, 3 slots, 2 commands | what commands can lose or split, and what they cannot |
| `service` | 1, 2 or 4 authorities among 4 nodes, the client at an authority or not | every watched message is finalized, or the client loses its node; it is in a pool or a stored chain until then |
| `clock` | 2 clocks up to a slot apart, slots of 4 units of time | timestamps stay in their slots, and blocks are accepted |
| `runtime` | 3 accounts, 17 extrinsics, 8 blocks, eras of 4 blocks | replay, eras, fees, removal and sudo together |
| `exchange` | 3 users, 2 packets out of 5 messages and 3 lists of recipients | who can read what |
| `exchange_hash` | messages that differ in a kind | **violation**: see below |
| `interfaces` | 3 users, 3 interfaces on either side, 3 messages, 2 lists of recipients | what each pair of interfaces preserves |
| `buffers` | 3 addresses, texts of 2 lengths | every order of the host's calls |

**Bounds.** `MaxSlot = 4` with `VoteLag = 2`, the lag of the code, is the least number of
slots in which two authorities author competing blocks, one fork becomes longer by two
and is finalized, and the other has been imported: `chain_read_back` uses it, so its
counterexample is one of the configured network. `chain` lets voters vote without
a lag. This only adds behaviours, and within four slots it lets a block be finalized
that conflicts with the best block of a node, or two blocks one after the other. With
three extrinsics two of them can exchange counters between forks. `MaxBlockTxs = 2` lets
the order within a block vary. A counter of two bits overflows after three messages,
the same code path as after 2^128 - 1.

`maintenance` needs one authority: with two, no block is finalized that one of them
has not seen, and the cases of interest (a key with two messages, two finalized
chains) happen already when blocks are taken back on one node. Two commands are a
revert or purge on each node, or an export and what makes its file useful.
`service` has a network for each chain spec and the smallest one that tolerates a fault.
In `runtime` an account can be removed and come back within its nonces 0 and 1, the
existential deposit is twice the fee, eight blocks are two eras of four,
and hashes are dropped after five. The sudo key is handed over once, and the former
holder has a nonce left to try it again. In `client` a message may be finalized below the
start of its node's warp sync, so all the causes of `FailureHasCause` occur. `clock` lets six slots pass. Two packets are
enough for confusing one with another, three users for a party that is not the recipient
and for an outsider. Only one reading is recorded because readers do not influence
each other. Three buffers are parameters and replies of overlapping calls. Deadlock
is not checked where the bounds end the behaviours.

**Mutants.** An operator `Name_Change` before `Name` is `Name` with a plausible mistake in
it. Nothing uses it in the model; put in place of `Name` it makes TLC report the
property that PROJECT.json pairs it with.

**Fairness.** Only `NolikService` states liveness. Weakly fair are `Slot`, since slots are
time and pass whether or not somebody authors; `Round`, `Learn` and `Gossip`, which are
tasks of running nodes that nothing blocks. `Sync` of a node is strongly fair: the
peers it imports from may go down again and again, but what it has imported it
keeps, so it gets there. Nothing is assumed of `Start`, `Crash` and `Submit`: nobody has to
restart a node, and crashes may go on for ever. That enough authorities stay up in
the end is a hypothesis of `WatchEnds`, not a fairness condition. `IncludedAnyway` has the
weaker one that nodes stop changing state with an authority online.

**Findings.**

* `chain_read_back`: the key is made of the account and the counter of the fork that is
  executed. An account with two extrinsics in flight may get one key for different
  messages on two forks, and a node keeps the data it imported last. The doc calls
  the key unique (`lib.rs:62`, `lib.rs:103`). `LostOnlyByFork` shows that nothing else
  can replace a message, and `ReaderImplementsLog` that the development chain is safe.
  `FailureHasCause` follows it into the client, which then ends with a decryption
  error and not with a wrong text.
* `exchange_hash`: the root hash leaves out the kind of the entries, although it is
  documented as the hash of "all metadata and message entries" (`meta.rs:29`).
  `HashTellsContents` shows that it covers everything else. `EntriesSurvive` shows
  where it helps: a message that lost its kinds in JavaScript still fits its hash.

**Worth knowing**, though the code agrees with its documentation:

* A removed account that is funded again starts with nonce 0, so its immortal
  extrinsics are valid once more, as the client signs them. `ReplayNeedsRemoval` shows
  that nothing else allows a replay.
* After `revert` or `purge-chain` on an authority with a round under way the finalized chain
  may split (`SplitOnlyByReset`); on the development chain its one vote is enough.
* Messages of imported files are not readable on that node (`LostHasCause`).
* On the local testnet an authority that is alone, without any peer, does not author.

## 4. Proofs

Every theorem is for all values of the constants: any number of nodes, authorities,
clients, accounts, recipients, entries and slots, and a counter of any width.

| module | theorem | states |
|---|---|---|
| `NolikPalletProofs` | `TypeCorrect`, `KeysAreUnique`, `DataIsAnnounced`, `CounterCounts` | the safety properties of the pallet |
| | `Refinement` | `Spec => ImplementsLog` |
| `NolikChainProofs` | `TypeCorrect` | `TypeOK` |
| | `BestStaysAboveFinalized` | `BestExtendsFinalized` |
| | `OffchainIsFromTheAccount` | `OffchainAuthentic` |
| | `OnlyForksLoseMessages` | `LostOnlyByFork` |
| | `ExtrinsicsExecuteOnce` | `NoReplay` |
| | `FinalizedMessagesAreALog` | `Spec => ChainImplementsLog` |
| | `ReadMessagesAreALog` | `Spec => ReaderImplementsLog` |
| `NolikNetworkProofs` | `FinalizedMessagesAreDelivered` | `FinalizedIsDelivered` |
| | `OnlyForksFailClients`, `OneClientWinsTheKey` | `FailureHasCause`, `OneWinner` |
| | `SubmittedExecuteOnce` | `NoReplay` of the clients' network |
| | `CommandsKeepBestAboveFinalized` | `BestExtendsFinalized` with commands |
| | `FinalityIsSafeUntilReset` | `SplitOnlyByReset` |
| | `OffchainOutlivesReverts`, `CommandsLoseOnlyByCause` | `WrittenByExecuted`, `LostHasCause` |
| `NolikRuntimeProofs` | `TypeCorrect` | balances and nonces; what is not stored has neither |
| | `ReplayProtection`, `KeysStayUnique` | `ReplayNeedsRemoval`, `MessageKeysUnique` |
| | `MortalityIsExact` | `MortalExactly`, if `PeriodFits` |
| | `MessagesNameTheirSenders` | `SentByOwnerOrSudo` |
| | `FeesLeaveTheIssuance` | `EveryCallIsPaid` |
| | `MessagesStaySent` | the sent messages of the runtime are a `MessageLog`, too |
| `NolikExchangeProofs` | `OnlyPartiesOpenChannels` | `ChannelsOpenForParties` |
| | `RecipientsRead`, `ReadersGetTheirMessage` | `RecipientReads`, `NoMisreading` |
| | `PalletAcceptsClients`, `RootHashesTellContents` | `PalletAccepts`, `HashTellsContents` |
| | `InterfacesOpenAlike`, `InterfacesReportErrors`, `InterfacesKeepEntries` | `MetadataOpenAlike`, `NoFalseMessage`, `EntriesSurvive` |
| `NolikBuffersProofs` | `LayoutsFit`, `BoxesStayIntact` | buffers go back as allocated; no box dangles or is shared |
| `NolikServiceProofs` | `TimestampsFitSlots`, `BlocksAcceptedAtOnce` | timestamps are in their slots and are not turned down |
| | `FinalizedIsInReach` | every running quorum has a node that stores the final block |
| | `WatchedIsPending` | `WatchedStaysPending` |
| `NolikFolds` | `FoldEmpty`, `FoldAppend`, `FoldInvariant`, `FlattenAppend` | the folds the model is built from |

**Pallet.** `KeysUnique` is not inductive: a new key must be fresh, and that follows only
from the place of each event in the history. `IndInv` adds `CounterIsHistory` (event *i*
carries counter *i* - 1 and the storage holds the length of the history). A new key
then has a counter no event has, whoever signs. `DataIffAnnounced` and `OnlyChecked`
follow, because the write of an accepted call cannot hit an announced key; and by the
same fact a call appends to the log and changes no entry. `AcceptedStep` states once
what an accepted call does.

**Folds.** The state of a block is a fold over its ancestors, and its off-chain writes
are a fold over its messages. `NolikFolds` has the operator as a constant and is
instantiated once for each fold of the model. It defines no recursion of its own: the
library's `FoldLeft` is a `CHOOSE` of a recursive function, `IterExists` shows that the
function exists and `FoldAppend` follows. Induction is over sets (`NatInductionSet`,
`SeqInductionSet`): a set that holds 0 and every successor of its members holds every
number, by the well-founded order.

**Chain.** The invariant is a conjunction, and each part is proved from the parts
before it.

* `Structure`: a node's chains are closed under prefixes, and its best, finalized and
  warp blocks are among them.
* `Finality`: finalized blocks lie on `justified`, below the best block. With it
  `BestExtendsFinalized` is inductive: an import replaces the best block only by one
  above the finalized block, and `FinalityRound` extends `justified`.
* `Offchain`: what is at a key was written by an executed block, and what an executed
  block wrote at is never empty again. `SentBySomeBlock` (a message of a chain was sent by
  one of its blocks) turns that into `LostOnlyByFork`.
* `Validity`: each block satisfies `CheckNonce` in the state of its parent. Replay then
  needs `Spent`, an induction over the blocks: nonces of the state are above those of all
  extrinsics before it.
* `Line`: with one authority the chains of all nodes are prefixes of one chain. So a
  later write cannot hit an earlier key, and the reader's log is the chain's
  (`SameLogs`), which carries the second refinement over from the first.

The refinement maps an entry of the log to a message of the finalized state. A step that
moves `finalized` moves it to an extension, and `StateOf` of an extension only appends
(`Grows`), so each step is one of `MessageLog` or stutters.

**Clients.** A client changes nothing of the network, so `NetworkStep` carries the
invariants of the chain over, with a pool that holds what was submitted. `Facts` says
what each phase has seen: whoever has a key has its event in the finalized chain
(`HasEvent`), a failure to decrypt was caused by a block that sent another message at
the key (`Contested`), and data are missing only on a node that does not index or that
took over the message with the state of its warp sync (`BelowBase`). `Facts` stays true
because finalized chains and known blocks only grow. `OneWinner` follows from keys and nonces of one state being unique, because
any two finalized chains are on one line.

**Commands.** `Structure` survives them, `Finality` does not: a reset voter may finalize
beside `justified`. `Bound` is what is left, that voters with their state finalize on one
line. Blocks may disappear, so `MaintenanceOffchain` relates the off-chain data to
`executed`, the history of what was indexed, instead of to `known`.

**Runtime.** Replay protection relates a nonce to a history. `IndInv` adds `Behind`: an
extrinsic that was executed has a nonce below that of its account, unless the account
has been removed since. Executing asks for equality, so an executed extrinsic is not
includable. The work is in the steps: every call, also by sudo in another name, lowers
the nonce of an account only by removing it, and then `history` has the removal at its
end, provided that a call removes at most one account (`reaped`). For keys, `Counted`
says that the counter is the number of messages, whoever sent them. `Attribution`
follows the sudo key: at each place of the history it is with the last account that it
was handed to. `Costs` is the balance sheet, and its steps are sums over functions of
accounts that differ at one or two of them. `Kept` says which block hashes are stored.
`MortalityIsExact` needs a period that is not longer than they are kept, and `CodePeriodFits`
computes that this is so for the 2400 blocks of the runtime, with a period of 2048.
`MessagesStaySent` maps the log to the storage itself: no call but an accepted
`send_message` touches `sent`, and that one appends, also when sudo dispatches it.

**Exchange.** `decrypt` is a loop whose length is that of the metadata. `OpenChannelsLoop` gets
its function, and `LoopResult` goes through it by induction: after *n* channels it has
opened one for each mention of the reader among the first *n* parties. The loop never
meets a channel that opens in part, because the boxes inside have the same two keys as
the nonce. `DecryptMessageResult` says the same of messages. `PacketsInv` (each packet is
what its sender made of the *i*-th keys) is inductive, and with it `ReadInv`: the
nonce that a reader found belongs to one packet only. For the hash, `FlattenPairs`
recovers the entries from the sequence that is hashed.

**Interfaces.** Every property compares what a reader got with what was posted two
steps before, so the invariant says at each step which value of the Rust functions
an interface shows: `PostedInv` (metadata are those that `new_encrypted` makes of the
same arguments), `SeenInv` (metadata open as `decrypt` opens them) and `GotInv` (the result is the
message by way of both interfaces, or an error). The lemmas take the conversions
apart: `OnMessageResult` says what each interface makes of a result of `on_message`,
`GivenResult` and `RawEncrypted` that losing the kinds before encryption is losing
them after it, `DecryptMessageOpens` and `DecryptMessageFails` that a box opens with the
right pair and the nonce of its channel and in no other way. `ErrorsAssumption` says that
an error is not itself a message. An empty message decrypts with any key, so
`NoFalseMessage` is about the others.

**Buffers.** `IndInv` adds `Sized`: the size of each buffer is the length that its box is
for and one more, which the text reaches when it is written.

**Clock.** `IndInv` adds `Ahead`: slot and timestamp are bounded by the slowest clock,
the skew and a minimum period. `LessByFactor` and `DivisionBounds` are the facts about
division that the provers need.

**Service.** `ServiceInv` adds to `FinalizedStaysInReach` that a final block was stored by a
quorum (`justified => Quorum(synced)`), which crashes do not undo because databases
survive them. `QuorumsIntersect` counts: all but *f* of *n* voters are more than half of
them, so whatever quorum runs later has one of the first, from which the others
import. This is why the model lets no fork take the block's place any more. The
theorem is about the safety that `WatchEnds` relies on, `WatchedIsPending` about what
`IncludedAnyway` does; neither states that anything happens. `WatchedStaysPending` is part of
the invariant and, given that pools hold nothing of stopped nodes, inductive: a fork
starts only when no running node stores the block, so the client's node has not pruned
the extrinsic then.

**Assumptions.** For the pallet: the origins of root and of unsigned calls are not
accounts, the empty vector is a byte vector, channels of metadata are sequences of
channels, `MaxCounter` is a natural number, "no data" is not a byte vector. For the
chain: authorities are nodes and there is one at least, the bounds are numbers, signed
extrinsics are extrinsics. For clients: each has a node, an account, data of its own
and well-formed metadata. For the runtime: accounts are finitely many, the genesis
accounts are accounts, balances and bounds are positive, a signed extrinsic has one of
the modelled calls; for eras alone the hypothesis `PeriodFits`. For the exchange: drawn
keys and nonces are fresh (`FreshAssumption`, `InterfacesAssumption`), a root hash is not a
nonce (`HashAssumption`), a message is a sequence
of entries, recipients are users and there is one at least, and three facts about names
that symbolic cryptography leaves open: a box is not the empty vector, and neither metadata
nor entries are an error (`BoxAssumption`, `ResultAssumption`, `ErrorsAssumption`; in the
code the two sides of a `Result`). For the services: authorities are nodes and there is one
at least. For the buffers: "free" is not a buffer. For the clock: a slot has at least two units of time,
clocks are at most a slot apart, and the drift that `pallet_timestamp` allows is at
least two slots (30 s and 12 s in the code). TLC evaluates them on every run.

**Only model-checked**: `WatchEnds` and `IncludedAnyway` of `NolikService`, liveness under
fairness and out of the reach of the prover. What the model takes from libraries
(GRANDPA's one `justified` chain, symbolic cryptography) is an assumption of both.
`MessagesStaySent` and `FinalizedIsInReach` state what no run lists.

## 5. Plan

Done: all modules of section 2; every safety and refinement property that a passing run
checks is a theorem. Left are weights and the limits of a block, if they come to matter
for messages.

## 6. Not modelled

* Of the runtime: weights and block limits, tips, `set_balance` and the forced transfers of Root, `transfer_all`, nested sudo, `set_code` and
  upgrades.
* The inherent data of the benchmarks, a timestamp of zero that no chain keeps.
* Equivocating authorities: both consensus protocols are taken as honest, but for a
  voter that lost its state (`NolikMaintenance`).
* Metadata that `new_encrypted` did not build, beyond the shapes in `MCNolikPallet`:
  so neither a channel that opens to something else than a nonce nor one that opens
  in part.
* What a user does after an error: a second run of the client sends a second message,
  and nothing in the code relates it to the first.
* Hosts of the C interface that do not keep to the order of `index.js`: a buffer that is
  given back before it is written in full goes back with the wrong size.
* JSON, base64 and SCALE byte layouts: injective conversions without state.
* Command line parsing, commands that only read or print, RPC registration and fee
  queries, telemetry, the keystore, build scripts.
