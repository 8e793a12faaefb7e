----------------------------- MODULE NolikClient -----------------------------
(***************************************************************************)
(* Clients (client/src/main.rs) on the chain of NolikChain.  Each client   *)
(* runs the program once against the node it is connected to: it signs     *)
(* with the nonce that the node tells it, watches its extrinsic until it   *)
(* is finalized, and then fetches and decrypts what the off-chain storage  *)
(* of that node holds at the key of its event.  Between two of its         *)
(* requests the chain moves on.                                            *)
(*                                                                         *)
(* Every run draws fresh keys and nonces, so no two clients send the same  *)
(* data and no client decrypts the data of another (NoMisreading of        *)
(* NolikExchange).                                                         *)
(***************************************************************************)
EXTENDS NolikChain

CONSTANTS
  Clients,     \* runs of the client program
  NodeOf,      \* the node given by --host and --port
  AccountOf,   \* the account of --secretkey-path
  DataOf,      \* the encrypted message
  MetaOf,      \* the encrypted metadata
  NoKey        \* no event has been seen yet

ASSUME ClientAssumption ==
  /\ NodeOf \in [Clients -> Nodes] /\ AccountOf \in [Clients -> Accounts]
  /\ DataOf \in [Clients -> Bytes \ {EmptyBytes}] /\ IsInjective(DataOf)
  /\ MetaOf \in [Clients -> {md \in Metadata : MetadataFormed(md)}]

VARIABLES
  submitted,   \* the extrinsics that some node has taken into its pool
  phase,       \* phase[c]: start, signed, watching, finalized, and in the end delivered
               \* or one of tx_error, dispatch_error, no_data, decryption_failed
  nonce,       \* nonce[c]: the account nonce in its extrinsic
  key          \* key[c]: the key in its MessageSent event

client_vars == <<submitted, phase, nonce, key>>

ClientInit ==
  /\ Init
  /\ submitted = {}
  /\ phase = [c \in Clients |-> "start"]
  /\ nonce = [c \in Clients |-> 0]
  /\ key = [c \in Clients |-> NoKey]

Tx(c) ==
  [account |-> AccountOf[c], nonce |-> nonce[c],
   metadata |-> MetaOf[c], message |-> DataOf[c]]

NonceAt(chain, account) == StateOf(chain).nonces[account]

\* system_accountNextIndex: the nonce of the best block of the node, and one
\* more for each extrinsic of the account that it holds ready in its pool.
NextIndexes(n, account) ==
  LET first == NonceAt(best[n], account)
      pending == {tx.nonce : tx \in {t \in submitted : t.account = account}}
  IN {i \in first .. first + Cardinality(pending) : first .. i - 1 \subseteq pending}

GoTo(c, p) == phase' = [phase EXCEPT ![c] = p]

create_signed(c) ==
  /\ phase[c] = "start"
  /\ \E i \in NextIndexes(NodeOf[c], AccountOf[c]) : nonce' = [nonce EXCEPT ![c] = i]
  /\ GoTo(c, "signed")
  /\ UNCHANGED <<vars, submitted, key>>

\* The pool takes the extrinsic unless its nonce has been used meanwhile.
submit_and_watch(c) ==
  /\ phase[c] = "signed"
  /\ nonce[c] >= NonceAt(best[NodeOf[c]], AccountOf[c])
  /\ submitted' = submitted \cup {Tx(c)}
  /\ GoTo(c, "watching")
  /\ UNCHANGED <<vars, nonce, key>>

\* The extrinsic is stale, or another one has its place in the pool.
submit_refused(c) ==
  /\ phase[c] = "signed"
  /\ \/ nonce[c] < NonceAt(best[NodeOf[c]], AccountOf[c])
     \/ \E tx \in submitted : tx.account = AccountOf[c] /\ tx.nonce = nonce[c]
  /\ GoTo(c, "tx_error")
  /\ UNCHANGED <<vars, submitted, nonce, key>>

InChain(tx, chain) == \E i \in DOMAIN chain : tx \in Range(chain[i].txs)

wait_for_finalized_success_AnyEvent(c) ==                \* mutant
  LET sent == Range(StateOf(finalized[NodeOf[c]]).sent) IN
  /\ phase[c] = "watching"
  /\ InChain(Tx(c), finalized[NodeOf[c]])
  /\ GoTo(c, "finalized")
  /\ \E m \in sent : key' = [key EXCEPT ![c] = m.key]
  /\ UNCHANGED <<vars, submitted, nonce>>

wait_for_finalized_success_InBlock(c) ==                 \* mutant
  LET sent == Range(StateOf(best[NodeOf[c]]).sent)
      mine == {m \in sent : m.metadata = MetaOf[c] /\ m.message = DataOf[c]}
  IN /\ phase[c] = "watching"
     /\ GoTo(c, "finalized")
     /\ \E m \in mine : key' = [key EXCEPT ![c] = m.key]
     /\ UNCHANGED <<vars, submitted, nonce>>

\* The block of the extrinsic is finalized on the node: the client looks for
\* the outcome of its extrinsic among the events of that block.
wait_for_finalized_success(c) ==
  LET sent == Range(StateOf(finalized[NodeOf[c]]).sent)
      mine == {m \in sent : m.metadata = MetaOf[c] /\ m.message = DataOf[c]}
  IN /\ phase[c] = "watching"
     /\ InChain(Tx(c), finalized[NodeOf[c]])
     /\ IF mine = {}
        THEN GoTo(c, "dispatch_error") /\ UNCHANGED key
        ELSE /\ GoTo(c, "finalized")
             /\ \E m \in mine : key' = [key EXCEPT ![c] = m.key]
     /\ UNCHANGED <<vars, submitted, nonce>>

\* The subscription ends without finality: the extrinsic was dropped, usurped
\* or became stale, or the connection was lost.  It may still be included.
wait_ends(c) ==
  /\ phase[c] = "watching"
  /\ GoTo(c, "tx_error")
  /\ UNCHANGED <<vars, submitted, nonce, key>>

\* get_offchain_storage, then Message::decode and decrypt.
fetch(c) ==
  LET data == offchain[NodeOf[c]][key[c]] IN
  /\ phase[c] = "finalized"
  /\ GoTo(c, CASE data = NoData    -> "no_data"
               [] data = DataOf[c] -> "delivered"
               [] OTHER            -> "decryption_failed")
  /\ UNCHANGED <<vars, submitted, nonce, key>>

Client(c) ==
  \/ create_signed(c) \/ submit_and_watch(c) \/ submit_refused(c)
  \/ wait_for_finalized_success(c) \/ wait_ends(c) \/ fetch(c)

\* Authors take the extrinsics of the clients besides those of others.
AuthorSubmitted(n) == SlotOf(n) /\ Propose(n, Signed \cup submitted)

ClientNext ==
  \/ \E c \in Clients : Client(c)
  \/ Spread /\ UNCHANGED client_vars
  \/ \E n \in Nodes : AuthorSubmitted(n) /\ UNCHANGED client_vars

ClientSpec == ClientInit /\ [][ClientNext]_<<vars, client_vars>>

-----------------------------------------------------------------------------
(* Safety *)

\* The block of the client's event lies below the one that its node started
\* from with a warp sync: the node never executed it.
BelowBase(c) == \E m \in Range(StateOf(base[NodeOf[c]]).sent) : m.key = key[c]

\* On a chain with one authority, which does not fork, a client that sees its
\* extrinsic finalized gets its message back (main.rs:107-124): the decryption
\* error never happens, the panic "No off-chain data found" only on a node that
\* does not index or has not executed the block of the event, and the call
\* fails only when the counter of messages has run out.
FinalizedIsDelivered ==
  Len(authorities) = 1 =>
    \A c \in Clients :
      /\ phase[c] # "decryption_failed"
      /\ phase[c] = "no_data" => NodeOf[c] \notin Indexing \/ BelowBase(c)
      /\ phase[c] = "dispatch_error" => StateOf(finalized[NodeOf[c]]).counter = MaxCounter

\* Two clients, on whatever nodes, never both see their message finalized at
\* the same key, nor with the same nonce of one account, although both may have
\* been given that nonce and each may have seen its extrinsic in a best block.
OneWinner ==
  \A c, d \in Clients :
    /\ c # d
    /\ NoKey \notin {key[c], key[d]}
    => /\ key[c] # key[d]
       /\ AccountOf[c] = AccountOf[d] => nonce[c] # nonce[d]

\* A client fails to get a finalized message back only for one of three
\* reasons: its node does not index, it skipped the block of the event by a warp
\* sync, or it executed a block of another fork that put the message of somebody
\* else at the key.
FailureHasCause ==
  \A c \in Clients :
    /\ phase[c] = "no_data" => NodeOf[c] \notin Indexing \/ BelowBase(c)
    /\ phase[c] = "decryption_failed" =>
         \E other \in SentIn({chain \in known[NodeOf[c]] :
                                 ~IsPrefix(chain, finalized[NodeOf[c]])}) :
           other.key = key[c] /\ other.message # DataOf[c]

=============================================================================
