--------------------------- MODULE NolikMaintenance ---------------------------
(***************************************************************************)
(* The commands of node/src/command.rs that change what a stopped node has *)
(* stored - revert, purge-chain, export-blocks and import-blocks - on the  *)
(* network of NolikChain.  Stopping and starting a node are no steps: a    *)
(* stopped node is one that takes no step.                                 *)
(***************************************************************************)
EXTENDS NolikChain

CONSTANT MaxCommands    \* bound: commands run on the nodes altogether

ASSUME CommandAssumption == MaxCommands \in Nat

VARIABLES
  executed,   \* executed[n]: the chains whose last block n indexed
  voter,      \* voter[n]: "bound" by the rounds it voted in; "reset" when it has lost
              \* the state of the voter, with a round under way; then "rebound"
  file,       \* the chain in the file that export-blocks wrote
  commands    \* commands run so far

maintenanceVars == <<vars, executed, voter, file, commands>>

MaintenanceInit ==
  /\ Init
  /\ executed = [n \in Nodes |-> {}]
  /\ voter = [n \in Nodes |-> "bound"]
  /\ file = Genesis
  /\ commands = 0

-----------------------------------------------------------------------------
(* The running network *)

\* The blocks that the step adds to node n are executed with indexing on.
Indexed(n) ==
  /\ executed' = [executed EXCEPT
                    ![n] = IF n \in Indexing THEN @ \cup (known'[n] \ known[n]) ELSE @]
  /\ UNCHANGED <<voter, file, commands>>

\* What a voter may not vote against.
Locked(v) == IF voter[v] = "reset" THEN finalized[v] ELSE justified

Round_OtherFork ==                                       \* mutant
  \E chain \in UNION {known[n] : n \in Nodes}, voters \in SUBSET Range(authorities) :
    /\ Quorum(voters)
    /\ \A v \in voters :
         /\ Len(Locked(v)) < Len(chain)
         /\ \E b \in known[v] : IsPrefix(chain, b) /\ Len(b) >= Len(chain) + VoteLag
    /\ justified' = chain
    /\ UNCHANGED <<authorities, slot, known, best, finalized, base, offchain,
                   executed, voter, file, commands>>

\* FinalityRound, with voters that may have lost their state.
Round ==
  \E chain \in UNION {known[n] : n \in Nodes}, voters \in SUBSET Range(authorities) :
    /\ Quorum(voters)
    /\ \A v \in voters :
         /\ IsStrictPrefix(Locked(v), chain)
         /\ \E b \in known[v] : IsPrefix(chain, b) /\ Len(b) >= Len(chain) + VoteLag
    /\ justified' = chain
    /\ UNCHANGED <<authorities, slot, known, best, finalized, base, offchain,
                   executed, voter, file, commands>>

\* The backend refuses to finalize a block off its finalized chain.
FinalizeOnTop(n) ==
  /\ IsPrefix(finalized[n], justified)
  /\ Finalize(n)
  /\ voter' = [voter EXCEPT ![n] = IF @ = "reset" THEN "rebound" ELSE @]
  /\ UNCHANGED <<executed, file, commands>>

-----------------------------------------------------------------------------
(* Commands *)

Command == commands < MaxCommands /\ commands' = commands + 1

\* sc_finality_grandpa::revert, the aux_revert of the command, and purging
\* both start the voter afresh from the finalized block.
ResetVoter(n) ==
  voter' = [voter EXCEPT
              ![n] = IF n \in Range(authorities) /\ finalized'[n] # justified
                     THEN "reset" ELSE @]

Revert_Finalized(n) ==                                   \* mutant
  \E length \in 0 .. Len(best[n]) - 1 :
    /\ Command
    /\ known' = [known EXCEPT ![n] = {c \in @ : Len(c) <= length} \cup {finalized[n]}]
    /\ best' = [best EXCEPT ![n] = SubSeq(@, 1, length)]
    /\ UNCHANGED <<authorities, slot, finalized, base, offchain, justified, executed, file>>
    /\ ResetVoter(n)

\* Some of the blocks above the finalized one are taken back, and with them
\* the forks that are as high.  The off-chain data of the blocks stay.
Revert(n) ==
  \E length \in Len(finalized[n]) .. Len(best[n]) - 1 :
    /\ Command
    /\ known' = [known EXCEPT ![n] = {c \in @ : Len(c) <= length}]
    /\ best' = [best EXCEPT ![n] = SubSeq(@, 1, length)]
    /\ UNCHANGED <<authorities, slot, finalized, base, offchain, justified, executed, file>>
    /\ ResetVoter(n)

Emptied(n) ==
  /\ known[n] # {Genesis}
  /\ Command
  /\ known' = [known EXCEPT ![n] = {Genesis}]
  /\ best' = [best EXCEPT ![n] = Genesis]
  /\ finalized' = [finalized EXCEPT ![n] = Genesis]
  /\ base' = [base EXCEPT ![n] = Genesis]
  /\ executed' = [executed EXCEPT ![n] = {}]
  /\ UNCHANGED <<authorities, slot, justified, file>>
  /\ ResetVoter(n)

PurgeChain_KeepOffchain(n) ==                            \* mutant
  Emptied(n) /\ UNCHANGED offchain

\* The whole database goes, the off-chain data and the voter state with it.
PurgeChain(n) ==
  /\ Emptied(n)
  /\ offchain' = [offchain EXCEPT ![n] = [k \in Keys |-> NoData]]

ExportBlocks(n) ==
  /\ Command
  /\ file # best[n]
  /\ file' = best[n]
  /\ UNCHANGED <<vars, executed, voter>>

\* The next block of the file.  The command has no --enable-offchain-indexing
\* option, so the block is executed but nothing is indexed.
ImportBlocks(n) ==
  \E length \in 1 .. Len(file) :
    LET chain == SubSeq(file, 1, length) IN
    /\ chain \notin known[n] /\ Front(chain) \in known[n]
    /\ length > Len(finalized[n])
    /\ length > Len(best[n]) => IsPrefix(finalized[n], chain)
    /\ known' = [known EXCEPT ![n] = @ \cup {chain}]
    /\ best' = [best EXCEPT ![n] = IF length > Len(@) THEN chain ELSE @]
    /\ UNCHANGED <<authorities, slot, finalized, base, offchain, justified,
                   executed, voter, file, commands>>

MaintenanceNext ==
  \/ SkipSlot /\ UNCHANGED <<executed, voter, file, commands>>
  \/ Round
  \/ \E n \in Nodes :
       \/ Author(n) /\ Indexed(n)
       \/ Import(n) /\ Indexed(n)
       \/ FinalizeOnTop(n)
       \/ Revert(n)
       \/ PurgeChain(n)
       \/ ExportBlocks(n)
       \/ ImportBlocks(n)

MaintenanceSpec == MaintenanceInit /\ [][MaintenanceNext]_maintenanceVars

-----------------------------------------------------------------------------
(* Safety *)

\* Two nodes finalize conflicting blocks only if an authority has lost the
\* state of its voter while a round was not finalized on it: revert and
\* purge-chain on such a node are the one way to split the finalized chain.
SplitOnlyByReset ==
  \/ \A m, n \in Nodes : \/ IsPrefix(finalized[m], finalized[n])
                         \/ IsPrefix(finalized[n], finalized[m])
  \/ \E v \in Range(authorities) : voter[v] # "bound"

\* Also after reverts and purges, every message in the off-chain storage was
\* sent in a block that the node has executed since its chain was purged.
WrittenByExecuted ==
  \A n \in Nodes :
    LET written == SentIn(executed[n]) IN
    \A k \in Keys : offchain[n][k] # NoData =>
      \E m \in written : m.key = k /\ m.message = offchain[n][k]

\* A finalized message that cannot be read back has one of two causes: its
\* block came from a file, or a block off the finalized chain, reverted or on
\* a fork, sent the other message that the key holds.
LostHasCause ==
  \A n \in Indexing :
    LET blocks == {SubSeq(finalized[n], 1, i) : i \in 1 .. Len(finalized[n])}
        abandoned == SentIn({c \in executed[n] : ~IsPrefix(c, finalized[n])})
    IN \A c \in blocks : \A m \in Range(SentByBlock(c)) :
         \/ offchain[n][m.key] = m.message
         \/ c \notin executed[n]
         \/ \E other \in abandoned :
              other.key = m.key /\ other.message = offchain[n][m.key]

=============================================================================
