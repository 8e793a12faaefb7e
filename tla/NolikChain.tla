------------------------------ MODULE NolikChain ------------------------------
(***************************************************************************)
(* The nolik pallet as the nodes of node/src/service.rs run it: Aura       *)
(* authors one block per slot, blocks reach the other nodes late or never, *)
(* so chains fork and best blocks change, and GRANDPA finalizes.  Two      *)
(* kinds of state come out of one send_message: the chain state, which a   *)
(* fork switch exchanges, and the off-chain data, which every node writes  *)
(* when it executes a block and which nothing takes back.                  *)
(*                                                                         *)
(* A block stands for the whole chain that ends with it, so a chain is a   *)
(* sequence of [slot, txs] and needs no hashes.                            *)
(***************************************************************************)
EXTENDS NolikCall, SequencesExt

CONSTANTS
  Nodes,               \* the nodes of the network
  GenesisAuthorities,  \* the Aura and GRANDPA authorities of the chain specs
  Indexing,            \* the nodes run with off-chain indexing enabled
  WarpNodes,           \* the nodes run with --sync warp
  Signed,              \* the extrinsics that the accounts ever sign
  VoteLag,             \* GRANDPA votes this far behind the best block
  MaxSlot,             \* bound: slots 0 .. MaxSlot-1 pass
  MaxBlockTxs,         \* bound: extrinsics in a block
  NoData               \* local_storage_get returns None

ASSUME AuthorityAssumption == GenesisAuthorities \subseteq Seq(Nodes) \ {<< >>}
ASSUME NodeAssumption == Indexing \subseteq Nodes /\ WarpNodes \subseteq Nodes
ASSUME NoDataAssumption == NoData \notin Bytes
ASSUME BoundAssumption == MaxSlot \in Nat /\ MaxBlockTxs \in Nat

Extrinsic == [account : Accounts, nonce : Nat, metadata : Metadata, message : Bytes]
ASSUME SignedAssumption == Signed \subseteq Extrinsic

VARIABLES
  authorities, \* the authorities of the network's genesis state, in order
  slot,        \* the current Aura slot
  known,       \* known[n]: the chains node n has imported
  best,        \* best[n]: its best block
  finalized,   \* finalized[n]: its last finalized block
  base,        \* base[n]: the block up to which n did not execute (warp sync)
  offchain,    \* offchain[n]: its off-chain database, key by key
  justified    \* the last block a GRANDPA round of the network has finalized

vars == <<authorities, slot, known, best, finalized, base, offchain, justified>>

Genesis == << >>

-----------------------------------------------------------------------------
(* Executing blocks *)

\* What the runtime's storage holds after a chain.  `sent` is the history of
\* its MessageSent events, each with the account that ensure_signed found and
\* the message that the same call handed to offchain_index::set.
GenesisState ==
  [counter |-> 0, nonces |-> [a \in Accounts |-> 0], sent |-> << >>]

\* CheckNonce, a part of SignedExtra: a block may not contain an extrinsic
\* whose nonce is not the next one of its account.
ValidExtrinsic(state, tx) == tx.nonce = state.nonces[tx.account]

ApplyExtrinsic_FreeRefusal(state, tx) ==                 \* mutant
  LET ok == DispatchResult(tx.account, tx.metadata, tx.message, state.counter) = "Ok"
  IN IF ok THEN [state EXCEPT
                   !.nonces[tx.account] = @ + 1,
                   !.counter = WrappingSucc(@),
                   !.sent = Append(@, [account |-> tx.account,
                                       key |-> KeyOfNext(tx.account, state.counter),
                                       metadata |-> tx.metadata,
                                       message |-> tx.message])]
     ELSE state

\* The nonce is consumed whatever send_message returns.
ApplyExtrinsic(state, tx) ==
  LET applied == [state EXCEPT !.nonces[tx.account] = @ + 1]
      ok == DispatchResult(tx.account, tx.metadata, tx.message, state.counter) = "Ok"
  IN IF ok THEN [applied EXCEPT
                   !.counter = WrappingSucc(@),
                   !.sent = Append(@, [account |-> tx.account,
                                       key |-> KeyOfNext(tx.account, state.counter),
                                       metadata |-> tx.metadata,
                                       message |-> tx.message])]
     ELSE applied

ApplyAll(state, txs) == FoldLeft(ApplyExtrinsic, state, txs)

ApplyBlock(state, block) == ApplyAll(state, block.txs)

StateOf(chain) == FoldLeft(ApplyBlock, GenesisState, chain)

ValidBody(state, txs) ==
  \A i \in DOMAIN txs : ValidExtrinsic(ApplyAll(state, SubSeq(txs, 1, i - 1)), txs[i])

\* The messages sent by the last block of a chain.
SentByBlock(chain) ==
  LET before == Len(StateOf(Front(chain)).sent)
      sent == StateOf(chain).sent
  IN SubSeq(sent, before + 1, Len(sent))

-----------------------------------------------------------------------------
(* Nodes *)

SlotAuthor(s) == authorities[(s % Len(authorities)) + 1]

\* sp_finality_grandpa: all but f voters, where f = (n - 1) / 3.
Quorum(voters) ==
  LET n == Len(authorities)
  IN Cardinality(voters) >= n - ((n - 1) \div 3)

\* LongestChain::best_chain: a longest leaf above the best block.
SelectChain(n) ==
  LET above == {c \in known[n] : IsPrefix(best[n], c)}
  IN {c \in above : \A d \in above : Len(d) <= Len(c)}

\* The messages sent by the last blocks of some chains, none of them genesis.
SentIn(chains) == UNION {Range(SentByBlock(c)) : c \in chains}

TypeOK ==
  /\ authorities \in GenesisAuthorities /\ slot \in 0 .. MaxSlot
  /\ \A n \in Nodes :
       /\ Genesis \in known[n]
       /\ {best[n], finalized[n], base[n]} \subseteq known[n]
       /\ \A c \in known[n] : c # Genesis => Front(c) \in known[n]
       /\ n \notin WarpNodes => base[n] = Genesis
  /\ offchain \in [Nodes -> [Keys -> Bytes \cup {NoData}]]

Init ==
  /\ authorities \in GenesisAuthorities
  /\ slot = 0
  /\ known = [n \in Nodes |-> {Genesis}]
  /\ best = [n \in Nodes |-> Genesis]
  /\ finalized = [n \in Nodes |-> Genesis]
  /\ base = [n \in Nodes |-> Genesis]
  /\ offchain = [n \in Nodes |-> [k \in Keys |-> NoData]]
  /\ justified = Genesis

\* The off-chain writes of a block, in the order of its calls.
IndexMessage(db, m) == [db EXCEPT ![m.key] = m.message]
IndexBlock(db, chain) == FoldLeft(IndexMessage, db, SentByBlock(chain))

Store_IndexBest(n, chain) ==                             \* mutant
  LET isBest == Len(chain) > Len(best[n]) IN
  /\ known' = [known EXCEPT ![n] = @ \cup {chain}]
  /\ best' = [best EXCEPT ![n] = IF isBest THEN chain ELSE @]
  /\ offchain' = [offchain EXCEPT
                    ![n] = IF n \in Indexing /\ isBest THEN IndexBlock(@, chain) ELSE @]
  /\ UNCHANGED <<authorities, finalized, base, justified>>

Store_OnlyIndex(n, chain) ==                             \* mutant
  /\ offchain' = [offchain EXCEPT
                    ![n] = IF n \in Indexing THEN IndexBlock(@, chain) ELSE @]
  /\ UNCHANGED <<authorities, known, best, finalized, base, justified>>

\* Block import: the block is executed; its off-chain writes are committed
\* with it whether or not it becomes best, and it does so only if it is longer.
Store(n, chain) ==
  /\ known' = [known EXCEPT ![n] = @ \cup {chain}]
  /\ best' = [best EXCEPT ![n] = IF Len(chain) > Len(@) THEN chain ELSE @]
  /\ offchain' = [offchain EXCEPT
                    ![n] = IF n \in Indexing THEN IndexBlock(@, chain) ELSE @]
  /\ UNCHANGED <<authorities, finalized, base, justified>>

\* The slot of node n comes.
SlotOf(n) ==
  /\ slot < MaxSlot
  /\ n = SlotAuthor(slot)
  /\ slot' = slot + 1

\* Node n builds on its own view of the longest chain, from the extrinsics
\* that reached its pool in time.
Propose(n, pool) ==
  \E parent \in SelectChain(n), txs \in SeqOf(pool, MaxBlockTxs) :
    /\ ValidBody(StateOf(parent), txs)
    /\ Store(n, Append(parent, [slot |-> slot, txs |-> txs]))

\* Every extrinsic that has been signed may be in the pool.
Author(n) == SlotOf(n) /\ Propose(n, Signed)

\* The author of the slot is offline or late.
SkipSlot ==
  /\ slot < MaxSlot
  /\ slot' = slot + 1
  /\ UNCHANGED <<authorities, known, best, finalized, base, offchain, justified>>

Import_Orphan(n) ==                                      \* mutant
  \E chain \in (UNION {known[m] : m \in Nodes \ {n}}) \ known[n] :
    /\ Len(chain) > Len(finalized[n])
    /\ Store(n, chain)
    /\ UNCHANGED slot

\* A block of another node arrives after its parent.  It may belong to a fork,
\* but one that would become best has to keep the finalized block.
Import(n) ==
  \E chain \in (UNION {known[m] : m \in Nodes \ {n}}) \ known[n] :
    /\ Front(chain) \in known[n]
    /\ Len(chain) > Len(finalized[n])
    /\ Len(chain) > Len(best[n]) => IsPrefix(finalized[n], chain)
    /\ Store(n, chain)
    /\ UNCHANGED slot

FinalityRound_OtherFork ==                               \* mutant
  \E chain \in UNION {known[n] : n \in Nodes} :
    /\ Len(justified) < Len(chain)
    /\ Quorum({v \in Range(authorities) :
                 \E b \in known[v] : IsPrefix(chain, b) /\ Len(b) >= Len(chain) + VoteLag})
    /\ justified' = chain
    /\ UNCHANGED <<authorities, slot, known, best, finalized, base, offchain>>

\* A GRANDPA round ends: a supermajority has voted for a block above the last
\* one, each voter VoteLag blocks behind a best block it had.
FinalityRound ==
  \E chain \in UNION {known[n] : n \in Nodes} :
    /\ IsStrictPrefix(justified, chain)
    /\ Quorum({v \in Range(authorities) :
                 \E b \in known[v] : IsPrefix(chain, b) /\ Len(b) >= Len(chain) + VoteLag})
    /\ justified' = chain
    /\ UNCHANGED <<authorities, slot, known, best, finalized, base, offchain>>

Finalize_KeepBest(n) ==                                  \* mutant
  /\ justified \in known[n]
  /\ justified # finalized[n]
  /\ finalized' = [finalized EXCEPT ![n] = justified]
  /\ UNCHANGED <<authorities, slot, known, best, base, offchain, justified>>

\* Node n learns of the round.  If its best block is on another fork, the
\* finalized block becomes its best one.
Finalize(n) ==
  /\ justified \in known[n]
  /\ justified # finalized[n]
  /\ finalized' = [finalized EXCEPT ![n] = justified]
  /\ best' = [best EXCEPT ![n] = IF IsPrefix(justified, @) THEN @ ELSE justified]
  /\ UNCHANGED <<authorities, slot, known, base, offchain, justified>>

\* A new node starts from a finality proof and the state of that block: it
\* holds the headers but has executed none of the blocks.
WarpSync(n) ==
  /\ n \in WarpNodes
  /\ known[n] = {Genesis}
  /\ justified # Genesis
  /\ known' = [known EXCEPT ![n] = {SubSeq(justified, 1, i) : i \in 0 .. Len(justified)}]
  /\ best' = [best EXCEPT ![n] = justified]
  /\ finalized' = [finalized EXCEPT ![n] = justified]
  /\ base' = [base EXCEPT ![n] = justified]
  /\ UNCHANGED <<authorities, slot, offchain, justified>>

\* The steps of the network in which no block is authored.
Spread ==
  \/ SkipSlot
  \/ FinalityRound
  \/ \E n \in Nodes : Import(n) \/ Finalize(n) \/ WarpSync(n)

Next == Spread \/ \E n \in Nodes : Author(n)

Spec == Init /\ [][Next]_vars

-----------------------------------------------------------------------------
(* Safety *)

\* A signed extrinsic is executed at most once on any chain, also one whose
\* call was refused: nobody can resend somebody else's message.
NoReplay ==
  \A n \in Nodes : \A chain \in known[n] :
    LET txs == FlattenSeq([i \in DOMAIN chain |-> chain[i].txs])
    IN \A i, j \in DOMAIN txs : txs[i] = txs[j] => i = j

\* A node never holds a best block off its own finalized chain, in spite of
\* forks that it imports after the vote.
BestExtendsFinalized ==
  \A n \in Nodes : IsPrefix(finalized[n], best[n])

\* The message that node n's off-chain storage should hold for a finalized
\* event, for the events of blocks that n executed.
Readable(n) ==
  LET sent == StateOf(finalized[n]).sent
  IN {sent[i] : i \in Len(StateOf(base[n]).sent) + 1 .. Len(sent)}

\* A client that waits for finalization and reads the key of the event from a
\* node with off-chain indexing gets the message of that event
\* (client/src/main.rs:119; lib.rs:62 "unique key").  It needs a chain that
\* never forks.
ReadBack ==
  \A n \in Indexing : \A m \in Readable(n) : offchain[n][m.key] = m.message

\* Whatever the forks, the data at a key was sent in a call that the account in
\* the key has signed, in a block that n executed: no account can write at
\* another one's key (pallets/nolik/src/lib.rs:88, derived_key).
OffchainAuthentic ==
  \A n \in Nodes :
    LET written == SentIn({c \in known[n] : ~IsPrefix(c, base[n])}) IN
    \A k \in Keys :
      offchain[n][k] # NoData =>
        \E m \in written :
          m.key = k /\ m.account = k.account /\ m.message = offchain[n][k]

\* Forks are the only way to lose a finalized message: its key holds data, and
\* if it is another message then an abandoned block sent that one.
LostOnlyByFork ==
  \A n \in Indexing :
    LET abandoned == SentIn({c \in known[n] : /\ ~IsPrefix(c, finalized[n])
                                             /\ ~IsPrefix(finalized[n], c)}) IN
    \A m \in Readable(n) :
      \/ offchain[n][m.key] = m.message
      \/ \E other \in abandoned :
           other.key = m.key /\ other.message = offchain[n][m.key]

-----------------------------------------------------------------------------
(* The abstract log, one per node, and the steps of all these logs. *)

LogEntry ==
  [account  : Accounts,
   metadata : {md \in Metadata : MetadataFormed(md)},
   message  : {m \in Bytes : MessageFormed(m)}]

\* The events of a chain, with the messages found for them.
LogOf(chain, MessageAt(_)) ==
  LET sent == StateOf(chain).sent
  IN [i \in DOMAIN sent |-> [account |-> sent[i].key.account,
                             metadata |-> sent[i].metadata,
                             message |-> MessageAt(sent[i])]]

\* With the messages that the blocks carry.
ChainLog(chain) == LogOf(chain, LAMBDA m : m.message)

\* With the messages that an off-chain storage returns.
ReadLog(chain, db) == LogOf(chain, LAMBDA m : db[m.key])

Chain(n) == INSTANCE MessageLog WITH
  Entry <- LogEntry, Capacity <- MaxCounter, log <- ChainLog(finalized[n])
Reader(n) == INSTANCE MessageLog WITH
  Entry <- LogEntry, Capacity <- MaxCounter, log <- ReadLog(finalized[n], offchain[n])

\* The finalized log of every node only grows, whatever is authored, imported
\* or finalized on other forks in the meantime: Chain(n)!Spec for every n.
ChainImplementsLog ==
  /\ \A n \in Nodes : Chain(n)!Init
  /\ [][\A n \in Nodes :
          LET before == ChainLog(finalized[n])
              after  == ChainLog(finalized'[n])
          IN after = before \/ Chain(n)!Extends(after, before)]_finalized

\* So does what readers see on the development chain, on a node that indexed
\* every block: Reader(n)!Spec.
ReaderImplementsLog ==
  /\ \A n \in Indexing \ WarpNodes : Reader(n)!Init
  /\ [][Len(authorities) = 1 =>
          \A n \in Indexing \ WarpNodes :
            LET before == ReadLog(finalized[n], offchain[n])
                after  == ReadLog(finalized'[n], offchain'[n])
            IN after = before \/ Reader(n)!Extends(after, before)]_<<finalized, offchain>>

=============================================================================
