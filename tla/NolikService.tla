----------------------------- MODULE NolikService -----------------------------
(***************************************************************************)
(* Whether a watched message ever gets finalized: the services that        *)
(* new_full starts on every node (node/src/service.rs) through crashes and *)
(* restarts.  Databases survive a crash, transaction pools do not.         *)
(*                                                                         *)
(* Of the chain, only the block of the watched extrinsic and the blocks on *)
(* top of it matter.  Blocks reach the running nodes before the next slot  *)
(* comes; the forks of slower networks are in NolikChain.                  *)
(***************************************************************************)
EXTENDS Naturals, Sequences, FiniteSetsExt, Functions

CONSTANTS
  Nodes,               \* all nodes, authorities and others
  GenesisAuthorities,  \* the authorities of the chain specs, in the order of their slots
  ForceAuthoring,      \* the nodes run with --force-authoring
  ClientNodes,         \* the nodes a client may talk to
  VoteLag              \* GRANDPA votes this far behind the best block

ASSUME ServiceAssumption ==
  /\ GenesisAuthorities \subseteq Seq(Nodes) \ {<< >>}
  /\ ForceAuthoring \subseteq Nodes /\ ClientNodes \subseteq Nodes
  /\ VoteLag \in Nat

VARIABLES
  authorities,  \* the authorities of the network's chain spec
  client_node,  \* the node of the client's --host
  up,           \* the nodes that run
  synced,       \* the nodes that have stored the best block
  pool,         \* the nodes that hold the watched extrinsic in memory
  turn,         \* whose slot comes next
  depth,        \* 0, or one more than the blocks on top of the extrinsic's block
  justified,    \* a GRANDPA round has finalized that block
  client        \* idle, watching, finalized or disconnected

network == <<authorities, client_node>>
service_vars == <<network, up, synced, pool, turn, depth, justified, client>>

Voters == Range(authorities)

\* All but f of the n voters, where f = (n - 1) / 3.
Threshold(n) == n - ((n - 1) \div 3)
Quorum(nodes) == Cardinality(nodes \cap Voters) >= Threshold(Cardinality(Voters))

ServiceInit ==
  /\ authorities \in GenesisAuthorities /\ client_node \in ClientNodes
  /\ up = {} /\ synced = Nodes /\ pool = {}
  /\ turn = 1 /\ depth = 0 /\ justified = FALSE
  /\ client = "idle"

-----------------------------------------------------------------------------
(* Nodes *)

Pruned_Everywhere(d, nodes) == IF d > 0 THEN {} ELSE pool   \* mutant

\* The pools after these nodes have imported a chain of depth d: an extrinsic
\* that is in a block of its chain leaves the pool of a node.
Pruned(d, nodes) == IF d > 0 THEN pool \ nodes ELSE pool

\* The node starts with its database and an empty pool.
Start(n) ==
  /\ n \notin up
  /\ up' = up \cup {n}
  /\ UNCHANGED <<network, synced, pool, turn, depth, justified, client>>

\* The block author, the voter and the import queue are essential tasks: when
\* one of them fails the whole node goes down, and its pool with it.
Crash(n) ==
  /\ n \in up
  /\ up' = up \ {n}
  /\ pool' = pool \ {n}
  /\ client' = IF client = "watching" /\ n = client_node THEN "disconnected" ELSE client
  /\ UNCHANGED <<network, synced, turn, depth, justified>>

\* A node that missed blocks imports them from one that has them.
Sync(n) ==
  /\ n \in up \ synced
  /\ up \cap synced # {}
  /\ synced' = synced \cup {n}
  /\ pool' = Pruned(depth, {n})
  /\ UNCHANGED <<network, up, turn, depth, justified, client>>

\* The extrinsic reaches the pool of another running node, which refuses it
\* once its own chain has it.
Gossip(n) ==
  /\ n \in up \ pool
  /\ pool # {}
  /\ ~(depth > 0 /\ n \in synced)
  /\ pool' = pool \cup {n}
  /\ UNCHANGED <<network, up, synced, turn, depth, justified, client>>

-----------------------------------------------------------------------------
(* Authoring *)

Online_NeedsPeer(n) == n \in up /\ up # {n}              \* mutant

\* sync_oracle: an authority without peers waits, unless it is the only one or
\* is told to go on.
Online(n) ==
  /\ n \in up
  /\ up # {n} \/ n \in ForceAuthoring \/ Len(authorities) = 1

\* The extrinsic goes into the first block whose author has it in its pool.
Deeper(n) ==
  IF depth > 0 THEN IF depth = VoteLag + 1 THEN depth ELSE depth + 1
  ELSE IF n \in pool THEN 1 ELSE 0

\* The author has the best block, and the running nodes that have it too get
\* the new one.
Extend(n) ==
  /\ n \in synced
  /\ depth' = Deeper(n)
  /\ synced' = synced \cap up
  /\ pool' = Pruned(depth', synced')

\* All nodes that had the best block are down: the running ones go on with a
\* chain that lacks it, and the extrinsic may have to be included again, out of
\* the pool of a node that had not imported the lost block either.
Fork(n) ==
  /\ up \cap synced = {}
  /\ depth' = IF n \in pool THEN 1 ELSE 0
  /\ synced' = {n}
  /\ pool' = Pruned(depth', {n})

MayAuthor_Backoff(n) == Online(n) /\ depth < VoteLag      \* mutant
MayAuthor_Finalizing(n) == Online(n) /\ Quorum(up)       \* mutant

\* However many blocks wait for finality: backoff_authoring_blocks is None.
MayAuthor(n) == Online(n)

\* A slot passes.  Its author extends the chain or forks it, or skips the slot
\* because it is down, without peers or behind.  Once finalized, the
\* extrinsic's block does not get lost any more.
Slot ==
  LET n == authorities[turn] IN
  /\ turn' = (turn % Len(authorities)) + 1
  /\ IF MayAuthor(n) /\ ~justified THEN
       \/ Extend(n)
       \/ Fork(n)
       \/ n \notin synced /\ up \cap synced # {} /\ UNCHANGED <<depth, synced, pool>>
     ELSE UNCHANGED <<depth, synced, pool>>
  /\ UNCHANGED <<network, up, justified, client>>

Round_Everyone ==                                        \* mutant
  /\ ~justified
  /\ depth = VoteLag + 1
  /\ Voters \subseteq up \cap synced
  /\ justified' = TRUE
  /\ UNCHANGED <<network, up, synced, pool, turn, depth, client>>

\* A GRANDPA round: a quorum of the voters runs and has the block buried.
Round ==
  /\ ~justified
  /\ depth = VoteLag + 1
  /\ Quorum(up \cap synced)
  /\ justified' = TRUE
  /\ UNCHANGED <<network, up, synced, pool, turn, depth, client>>

-----------------------------------------------------------------------------
(* The client *)

\* sign_and_submit_then_watch: a new extrinsic, known to one node.  The nodes
\* that are down have missed blocks in the meantime.
Submit ==
  /\ client # "watching"
  /\ client_node \in up
  /\ client' = "watching"
  /\ pool' = {client_node}
  /\ depth' = 0
  /\ justified' = FALSE
  /\ synced' = IF synced \cap up = {} THEN synced ELSE synced \cap up
  /\ UNCHANGED <<network, up, turn>>

\* wait_for_finalized: the client's node has learnt of the round.
Learn ==
  /\ client = "watching"
  /\ justified
  /\ client_node \in synced
  /\ client' = "finalized"
  /\ UNCHANGED <<network, up, synced, pool, turn, depth, justified>>

ServiceNext ==
  \/ \E n \in Nodes : Start(n) \/ Crash(n) \/ Sync(n) \/ Gossip(n)
  \/ Slot \/ Round \/ Submit \/ Learn

\* Time passes, and the tasks of a running node run.  Nobody has to start a
\* node or to submit anything, and crashes may go on for ever.  A node that
\* can synchronise again and again gets there: what it imports it keeps.
Fairness ==
  /\ WF_service_vars(Slot) /\ WF_service_vars(Round) /\ WF_service_vars(Learn)
  /\ \A n \in Nodes : SF_service_vars(Sync(n)) /\ WF_service_vars(Gossip(n))

ServiceSpec == ServiceInit /\ [][ServiceNext]_service_vars /\ Fairness

-----------------------------------------------------------------------------
(* Safety *)

\* A message whose client waits is never lost between a pool and a chain: the
\* extrinsic is still in the pool of the client's node, or it is in a block of
\* the best chain and that node stores it.  Nodes prune what their own chain
\* has (BasicPool, service.rs:98, kept up to date by spawn_tasks), and a chain may give way to a fork that
\* lacks the extrinsic when the nodes that store it crash.
WatchedStaysPending ==
  client = "watching" =>
    /\ client_node \in up
    /\ client_node \in pool \/ (depth > 0 /\ client_node \in synced)

-----------------------------------------------------------------------------
(* Liveness *)

\* As soon as a quorum of the authorities stays up for good, nobody waits for
\* ever: the client learns that its message is finalized, or loses its node.
\* The other authorities may crash and restart all the time.
Quorums ==
  UNION {kSubset(Threshold(Len(list)), Range(list)) : list \in GenesisAuthorities}

WatchEnds ==
  \A quorum \in Quorums :
    <>[](Quorum(quorum) /\ quorum \subseteq up) =>
      (client = "watching" ~> client # "watching")

\* Without a quorum there is still a block for the message: authoring does not
\* wait for finality (backoff_authoring_blocks is None, service.rs:217).
IncludedAnyway ==
  <>[](\E n \in Voters : Online(n)) /\ <>[][FALSE]_up =>
    (client = "watching" ~> depth > 0 \/ client # "watching")

=============================================================================
