-------------------------- MODULE NolikNetworkProofs --------------------------
(***************************************************************************)
(* Proofs about what stands on the network of NolikChain: the clients of   *)
(* NolikClient and the maintenance commands of NolikMaintenance, for any   *)
(* number of them.                                                         *)
(***************************************************************************)
EXTENDS NolikClient, NolikMaintenance, NolikChainProofs, FiniteSetTheorems

-----------------------------------------------------------------------------
(* What has been executed has been sent *)

HasSent(state, tx) ==
  \E i \in 1 .. Len(state.sent) :
    state.sent[i].metadata = tx.metadata /\ state.sent[i].message = tx.message

LEMMA GrowsSent ==
  ASSUME NEW s \in States, NEW t \in States, Grows(s, t)
  PROVE  /\ s.counter <= t.counter /\ s.counter \in 0 .. MaxCounter /\ t.counter \in 0 .. MaxCounter
         /\ Len(s.sent) \in Nat /\ Len(t.sent) \in Nat /\ Len(s.sent) <= Len(t.sent)
         /\ \A i \in 1 .. Len(s.sent) : i \in 1 .. Len(t.sent) /\ t.sent[i] = s.sent[i]
         /\ \A tx : HasSent(s, tx) => HasSent(t, tx)
<1>1. s.sent \in Seq(Sent) /\ t.sent \in Seq(Sent) /\ IsPrefix(s.sent, t.sent)
  BY DEF States, Grows
<1>2. /\ Len(s.sent) \in Nat /\ Len(t.sent) \in Nat /\ Len(s.sent) <= Len(t.sent)
      /\ \A i \in 1 .. Len(s.sent) : t.sent[i] = s.sent[i]
  BY <1>1, PrefixElements, LenProperties
<1>3. /\ s.counter = Len(s.sent) /\ t.counter = Len(t.sent)
      /\ s.counter \in 0 .. MaxCounter /\ t.counter \in 0 .. MaxCounter
  BY DEF States, Counted
<1>4. \A i \in 1 .. Len(s.sent) : i \in 1 .. Len(t.sent)
  BY <1>2
<1>5. QED
  BY <1>2, <1>3, <1>4 DEF HasSent

\* A well-formed extrinsic is accepted until the counter has run out.
LEMMA AcceptedIsSent ==
  ASSUME NEW s \in States, NEW tx \in Extrinsic, s.counter # MaxCounter,
         MessageFormed(tx.message), MetadataFormed(tx.metadata)
  PROVE  HasSent(ApplyExtrinsic(s, tx), tx)
<1> DEFINE t == ApplyExtrinsic(s, tx)
           new == [account |-> tx.account, key |-> KeyOfNext(tx.account, s.counter),
                   metadata |-> tx.metadata, message |-> tx.message]
<1>1. DispatchResult(tx.account, tx.metadata, tx.message, s.counter) = "Ok"
  BY DEF DispatchResult, CheckMessage, Overflowed, Extrinsic
<1>2. s.sent \in Seq(Sent) /\ t.sent \in Seq(Sent)
  BY ApplyExtrinsicResult DEF States
<1>3. t.sent = Append(s.sent, new)
  BY <1>1 DEF ApplyExtrinsic, States
<1> HIDE DEF t, new
<1>4. s.sent \in Seq(Sent \cup {new}) /\ new \in Sent \cup {new}
  BY <1>2, SeqMonotonic
<1>5. /\ Len(t.sent) = Len(s.sent) + 1 /\ Len(s.sent) \in Nat
      /\ t.sent[Len(s.sent) + 1] = new
  BY <1>3, <1>4, AppendProperties, LenProperties
<1>6. Len(s.sent) + 1 \in 1 .. Len(t.sent)
  BY <1>5
<1>7. new.metadata = tx.metadata /\ new.message = tx.message
  BY DEF new
<1>8. QED
  BY <1>5, <1>6, <1>7 DEF HasSent, t

LEMMA BodyIsSent ==
  ASSUME NEW s \in States, NEW txs \in Seq(Extrinsic), NEW tx \in Range(txs),
         MessageFormed(tx.message), MetadataFormed(tx.metadata),
         ApplyAll(s, txs).counter # MaxCounter
  PROVE  HasSent(ApplyAll(s, txs), tx)
<1> DEFINE T == {r \in Seq(Extrinsic) :
                   (\E j \in 1 .. Len(r) : r[j] = tx) /\ ApplyAll(s, r).counter # MaxCounter
                     => HasSent(ApplyAll(s, r), tx)}
<1>1. << >> \in T
  <2>1. << >> \in Seq(Extrinsic) /\ Len(<< >>) = 0
    BY EmptySeq
  <2>2. QED
    BY <2>1
<1>2. ASSUME NEW r \in Seq(Extrinsic), r \in T, NEW x \in Extrinsic PROVE Append(r, x) \in T
  <2> DEFINE long == Append(r, x)
  <2>1. /\ long \in Seq(Extrinsic) /\ Len(long) = Len(r) + 1 /\ Len(r) \in Nat
        /\ \A i \in 1 .. Len(r) : long[i] = r[i]
        /\ long[Len(r) + 1] = x
    BY AppendProperties, LenProperties
  <2>2. ApplyAll(s, long) = ApplyExtrinsic(ApplyAll(s, r), x)
    BY ApplyAllIsFold, Txs!FoldAppend
  <2> HIDE DEF long
  <2>3. /\ ApplyAll(s, r) \in States /\ ApplyAll(s, long) \in States
        /\ Grows(ApplyAll(s, r), ApplyAll(s, long))
    <3>1. ApplyAll(s, r) \in States
      BY ApplyAllResult
    <3>2. /\ ApplyExtrinsic(ApplyAll(s, r), x) \in States
          /\ Grows(ApplyAll(s, r), ApplyExtrinsic(ApplyAll(s, r), x))
      BY <3>1, ApplyExtrinsicResult
    <3>3. QED
      BY <2>2, <3>1, <3>2
  <2>4. ASSUME NEW j \in 1 .. Len(long), long[j] = tx, ApplyAll(s, long).counter # MaxCounter
        PROVE  HasSent(ApplyAll(s, long), tx)
    <3>1. ApplyAll(s, r).counter # MaxCounter
      BY <2>3, <2>4, GrowsSent
    <3>2. CASE j = Len(r) + 1
      BY <2>1, <2>2, <2>3, <2>4, <3>1, <3>2, AcceptedIsSent
    <3>3. CASE j # Len(r) + 1
      <4>1. j \in 1 .. Len(r) /\ r[j] = tx
        BY <2>1, <2>4, <3>3
      <4>2. HasSent(ApplyAll(s, r), tx)
        BY <1>2, <3>1, <4>1
      <4>3. QED
        BY <2>3, <4>2, GrowsSent
    <3>4. QED
      BY <3>2, <3>3
  <2>5. QED
    BY <2>1, <2>4 DEF long
<1> HIDE DEF T
<1>3. txs \in T
  BY <1>1, <1>2, Txs!SeqInductionSet
<1>4. \E j \in 1 .. Len(txs) : txs[j] = tx
  BY LenProperties DEF Range
<1>5. QED
  BY <1>3, <1>4 DEF T

LEMMA InChainAppend ==
  ASSUME NEW c \in Chains, NEW b \in Block, NEW tx
  PROVE  InChain(tx, Append(c, b)) <=> InChain(tx, c) \/ tx \in Range(b.txs)
<1> DEFINE d == Append(c, b)
<1>1. /\ Len(d) = Len(c) + 1 /\ Len(c) \in Nat /\ d \in Chains
      /\ \A i \in 1 .. Len(c) : d[i] = c[i]
      /\ d[Len(c) + 1] = b
      /\ DOMAIN c = 1 .. Len(c)
  BY AppendProperties, LenProperties DEF Chains
<1> HIDE DEF d
<1>2. DOMAIN d = 1 .. Len(c) + 1
  BY <1>1, LenProperties DEF Chains
<1>3. \A i \in 1 .. Len(c) + 1 : i \in 1 .. Len(c) \/ i = Len(c) + 1
  BY <1>1
<1>4. Len(c) + 1 \in 1 .. Len(c) + 1 /\ \A i \in 1 .. Len(c) : i \in 1 .. Len(c) + 1
  BY <1>1
<1>5. QED
  BY <1>1, <1>2, <1>3, <1>4 DEF InChain, d

LEMMA InChainPrefix ==
  ASSUME NEW c \in Chains, NEW d \in Chains, IsPrefix(c, d), NEW tx, InChain(tx, c)
  PROVE  InChain(tx, d)
<1>1. /\ Len(c) \in Nat /\ Len(d) \in Nat /\ Len(c) <= Len(d)
      /\ DOMAIN c = 1 .. Len(c) /\ DOMAIN d = 1 .. Len(d)
      /\ \A i \in 1 .. Len(c) : c[i] = d[i]
  BY PrefixElements, LenProperties DEF Chains
<1>2. \A i \in 1 .. Len(c) : i \in 1 .. Len(d)
  BY <1>1
<1>3. QED
  BY <1>1, <1>2 DEF InChain

\* A well-formed extrinsic in a chain has its event there, unless the counter
\* has run out.
LEMMA ChainIsSent ==
  ASSUME NEW c \in Chains, NEW tx, InChain(tx, c), StateOf(c).counter # MaxCounter,
         MessageFormed(tx.message), MetadataFormed(tx.metadata)
  PROVE  HasSent(StateOf(c), tx)
<1> DEFINE T == {d \in Chains : InChain(tx, d) /\ StateOf(d).counter # MaxCounter
                                  => HasSent(StateOf(d), tx)}
<1>1. << >> \in T
  BY EmptySeq DEF Chains, InChain
<1>2. ASSUME NEW d \in Seq(Block), d \in T, NEW b \in Block PROVE Append(d, b) \in T
  <2>1. Append(d, b) \in Chains /\ d \in Chains /\ b.txs \in Seq(Extrinsic)
    BY AppendProperties DEF Chains, Block
  <2>2. /\ StateOf(d) \in States /\ StateOf(Append(d, b)) \in States
        /\ StateOf(Append(d, b)) = ApplyAll(StateOf(d), b.txs)
        /\ Grows(StateOf(d), StateOf(Append(d, b)))
    BY <2>1, StateOfType, StateOfAppend, ApplyAllResult
  <2>3. ASSUME InChain(tx, Append(d, b)), StateOf(Append(d, b)).counter # MaxCounter
        PROVE  HasSent(StateOf(Append(d, b)), tx)
    <3>1. StateOf(d).counter # MaxCounter
      BY <2>2, <2>3, GrowsSent
    <3>2. CASE InChain(tx, d)
      BY <1>2, <2>2, <3>1, <3>2, GrowsSent
    <3>3. CASE tx \in Range(b.txs)
      BY <2>1, <2>2, <2>3, <3>3, BodyIsSent
    <3>4. QED
      BY <2>1, <2>3, <3>2, <3>3, InChainAppend
  <2>4. QED
    BY <2>1, <2>3
<1> HIDE DEF T
<1>3. c \in T
  BY <1>1, <1>2, Blocks!SeqInductionSet DEF Chains
<1>4. QED
  BY <1>3 DEF T

LEMMA InChainFlat ==
  ASSUME NEW c \in Chains, NEW tx, InChain(tx, c)
  PROVE  \E i \in 1 .. Len(FlattenSeq(Bodies(c))) : FlattenSeq(Bodies(c))[i] = tx
<1> DEFINE In(d) == \E i \in 1 .. Len(FlattenSeq(Bodies(d))) : FlattenSeq(Bodies(d))[i] = tx
           T == {d \in Chains : InChain(tx, d) => In(d)}
<1>1. << >> \in T
  BY EmptySeq DEF Chains, InChain
<1>2. ASSUME NEW d \in Seq(Block), d \in T, NEW b \in Block PROVE Append(d, b) \in T
  <2>1. Append(d, b) \in Chains /\ d \in Chains /\ b.txs \in Seq(Extrinsic)
    BY AppendProperties DEF Chains, Block
  <2> DEFINE old == FlattenSeq(Bodies(d))
             new == FlattenSeq(Bodies(Append(d, b)))
  <2>2. old \in Seq(Extrinsic) /\ new = old \o b.txs
    BY <2>1, FlattenBodies
  <2> HIDE DEF old, new
  <2>3. /\ Len(new) = Len(old) + Len(b.txs) /\ Len(old) \in Nat /\ Len(b.txs) \in Nat
        /\ \A i \in 1 .. Len(old) + Len(b.txs) :
             new[i] = IF i <= Len(old) THEN old[i] ELSE b.txs[i - Len(old)]
        /\ DOMAIN b.txs = 1 .. Len(b.txs)
    BY <2>1, <2>2, ConcatProperties, LenProperties
  <2>4. ASSUME InChain(tx, Append(d, b)) PROVE \E i \in 1 .. Len(new) : new[i] = tx
    <3>1. CASE InChain(tx, d)
      <4>1. PICK i \in 1 .. Len(old) : old[i] = tx
        BY <1>2, <3>1 DEF old
      <4>2. i \in 1 .. Len(new) /\ new[i] = old[i]
        BY <2>3
      <4>3. QED
        BY <4>1, <4>2
    <3>2. CASE tx \in Range(b.txs)
      <4>1. PICK j \in 1 .. Len(b.txs) : b.txs[j] = tx
        BY <2>3, <3>2 DEF Range
      <4>2. /\ Len(old) + j \in 1 .. Len(old) + Len(b.txs) /\ ~(Len(old) + j <= Len(old))
            /\ (Len(old) + j) - Len(old) = j
        BY <2>3
      <4>3. new[Len(old) + j] = b.txs[(Len(old) + j) - Len(old)]
        BY <2>3, <4>2
      <4>4. QED
        BY <2>3, <4>1, <4>2, <4>3
    <3>3. QED
      BY <2>1, <2>4, <3>1, <3>2, InChainAppend
  <2>5. QED
    BY <2>1, <2>4 DEF new
<1> HIDE DEF T
<1>3. c \in T
  BY <1>1, <1>2, Blocks!SeqInductionSet DEF Chains
<1>4. QED
  BY <1>3 DEF T

-----------------------------------------------------------------------------
(* The clients' network.  A client changes nothing of it, and its authors   *)
(* choose from what clients have submitted too.                             *)

Phases ==
  {"start", "signed", "watching", "finalized", "delivered",
   "tx_error", "dispatch_error", "no_data", "decryption_failed"}

ClientTypes ==
  /\ submitted \in SUBSET Extrinsic /\ IsFiniteSet(submitted)
  /\ phase \in [Clients -> Phases] /\ nonce \in [Clients -> Nat]
  /\ key \in [Clients -> Keys \cup {NoKey}]

LEMMA TxType ==
  ASSUME ClientTypes, NEW c \in Clients
  PROVE  /\ Tx(c) \in Extrinsic /\ MessageFormed(Tx(c).message) /\ MetadataFormed(Tx(c).metadata)
         /\ Tx(c).account = AccountOf[c] /\ Tx(c).nonce = nonce[c]
         /\ Tx(c).message = DataOf[c] /\ Tx(c).metadata = MetaOf[c]
         /\ NodeOf[c] \in Nodes /\ DataOf[c] \in Bytes
<1>1. /\ AccountOf[c] \in Accounts /\ DataOf[c] \in Bytes \ {EmptyBytes}
      /\ MetaOf[c] \in {md \in Metadata : MetadataFormed(md)} /\ NodeOf[c] \in Nodes
      /\ nonce[c] \in Nat
  BY ClientAssumption DEF ClientTypes
<1>2. QED
  BY <1>1 DEF Tx, Extrinsic, MessageFormed

LEMMA NextIndexType ==
  ASSUME Structure, ClientTypes, NEW n \in Nodes, NEW a \in Accounts
  PROVE  NextIndexes(n, a) \subseteq Nat
<1> DEFINE mine == {t \in submitted : t.account = a}
           pending == {tx.nonce : tx \in mine}
           first == NonceAt(best[n], a)
<1>1. first \in Nat
  BY StateOfType DEF NonceAt, Structure, States
<1>2. IsFiniteSet(mine)
  BY FS_Subset DEF ClientTypes
<1>3. IsFiniteSet(pending)
  <2> DEFINE f == [t \in mine |-> t.nonce]
  <2>1. f \in Surjection(mine, pending)
    BY DEF Surjection
  <2> HIDE DEF mine, pending, f
  <2>2. QED
    BY <1>2, <2>1, FS_Surjection
<1>4. Cardinality(pending) \in Nat
  BY <1>3, FS_CardinalityType
<1> HIDE DEF first, pending
<1>5. first .. first + Cardinality(pending) \subseteq Nat
  BY <1>1, <1>4
<1>6. QED
  BY <1>5 DEF NextIndexes, first, pending

LEMMA ClientLeavesNetwork ==
  ASSUME NEW c \in Clients, Client(c) PROVE UNCHANGED vars
BY DEF Client, create_signed, submit_and_watch, submit_refused, wait_for_finalized_success,
       wait_ends, fetch

LEMMA ClientTypesStep ==
  ASSUME Structure, ClientTypes, [ClientNext]_<<vars, client_vars>>
  PROVE  ClientTypes'
<1>1. ASSUME UNCHANGED client_vars PROVE ClientTypes'
  BY <1>1 DEF client_vars, ClientTypes
<1>2. ASSUME NEW c \in Clients, Client(c) PROVE ClientTypes'
  <2>1. \A p \in Phases : GoTo(c, p) => phase' \in [Clients -> Phases]
    BY DEF GoTo, ClientTypes
  <2>2. CASE create_signed(c)
    <3>1. PICK i \in NextIndexes(NodeOf[c], AccountOf[c]) : nonce' = [nonce EXCEPT ![c] = i]
      BY <2>2 DEF create_signed
    <3>2. i \in Nat
      BY NextIndexType, ClientAssumption
    <3>3. nonce' \in [Clients -> Nat] /\ UNCHANGED <<submitted, key>> /\ GoTo(c, "signed")
      BY <2>2, <3>1, <3>2 DEF create_signed, ClientTypes
    <3>4. QED
      BY <2>1, <3>3 DEF ClientTypes, Phases
  <2>3. CASE submit_and_watch(c)
    <3>1. submitted' \in SUBSET Extrinsic /\ IsFiniteSet(submitted')
      BY <2>3, TxType, FS_AddElement DEF submit_and_watch, ClientTypes, Phases
    <3>2. QED
      BY <2>1, <2>3, <3>1 DEF submit_and_watch, ClientTypes, Phases
  <2>4. CASE submit_refused(c)
    BY <2>1, <2>4 DEF submit_refused, ClientTypes, Phases
  <2>5. CASE wait_for_finalized_success(c)
    <3> DEFINE sent == StateOf(finalized[NodeOf[c]]).sent
    <3>1. sent \in Seq(Sent)
      BY StateOfType, ClientAssumption DEF States, Structure
    <3>2. \A m \in Range(sent) : m.key \in Keys
      <4>1. DOMAIN sent = 1 .. Len(sent) /\ \A i \in 1 .. Len(sent) : sent[i] \in Sent
        BY <3>1, LenProperties, ElementOfSeq
      <4> HIDE DEF sent
      <4>2. \A m \in Range(sent) : m \in Sent
        BY <4>1 DEF Range
      <4>3. QED
        BY <4>2 DEF Sent
    <3> HIDE DEF sent
    <3>3. CASE GoTo(c, "dispatch_error") /\ UNCHANGED key
      BY <2>1, <2>5, <3>3 DEF wait_for_finalized_success, ClientTypes, Phases
    <3>4. CASE GoTo(c, "finalized") /\ \E m \in Range(sent) : key' = [key EXCEPT ![c] = m.key]
      <4>1. key' \in [Clients -> Keys \cup {NoKey}]
        BY <3>2, <3>4 DEF ClientTypes
      <4>2. QED
        BY <2>1, <2>5, <3>4, <4>1 DEF wait_for_finalized_success, ClientTypes, Phases
    <3>5. QED
      BY <2>5, <3>3, <3>4 DEF wait_for_finalized_success, sent
  <2>6. CASE wait_ends(c)
    BY <2>1, <2>6 DEF wait_ends, ClientTypes, Phases
  <2>7. CASE fetch(c)
    <3>1. \E p \in Phases : GoTo(c, p)
      BY <2>7 DEF fetch, Phases
    <3>2. QED
      BY <2>1, <2>7, <3>1 DEF fetch, ClientTypes, Phases
  <2>8. QED
    BY <1>2, <2>2, <2>3, <2>4, <2>5, <2>6, <2>7 DEF Client
<1>3. QED
  BY <1>1, <1>2 DEF ClientNext, client_vars

\* The network's part of a step.
LEMMA ClientNetworkStep ==
  ASSUME ClientTypes, [ClientNext]_<<vars, client_vars>>
  PROVE  /\ Signed \cup submitted \in SUBSET Extrinsic
         /\ UNCHANGED vars \/ NetworkStep(Signed \cup submitted)
         /\ UNCHANGED client_vars \/ \E c \in Clients : Client(c) /\ UNCHANGED vars
<1>1. Signed \cup submitted \in SUBSET Extrinsic
  BY SignedAssumption DEF ClientTypes
<1>2. QED
  BY <1>1, ClientLeavesNetwork DEF ClientNext, NetworkStep, AuthorSubmitted

LEMMA ClientNetworkInvariant ==
  ClientSpec => [](ClientTypes /\ Structure /\ Finality /\ Offchain /\ Validity /\ Line)
<1> DEFINE Inv == ClientTypes /\ Structure /\ Finality /\ Offchain /\ Validity /\ Line
<1>1. ClientInit => Inv
  <2> SUFFICES ASSUME ClientInit PROVE Inv
    OBVIOUS
  <2>1. Init
    BY DEF ClientInit
  <2>2. ClientTypes
    BY FS_EmptySet DEF ClientInit, ClientTypes, Phases
  <2>3. QED
    BY <2>1, <2>2, InitialStructure, InitialOffchain, InitialValidity, InitialLine
<1>2. Inv /\ [ClientNext]_<<vars, client_vars>> => Inv'
  <2> SUFFICES ASSUME Inv, [ClientNext]_<<vars, client_vars>> PROVE Inv'
    OBVIOUS
  <2>1. ClientTypes'
    BY ClientTypesStep
  <2>2. CASE UNCHANGED vars
    <3>1. Structure' /\ Finality'
      BY <2>2, Unchanged
    <3>2. Offchain' /\ Validity' /\ Line'
      BY <2>2 DEF vars, Offchain, Validity, Line
    <3>3. QED
      BY <2>1, <3>1, <3>2
  <2>3. CASE NetworkStep(Signed \cup submitted)
    BY <2>1, <2>3, ClientNetworkStep, NetworkStructure, NetworkOffchain, NetworkValidity, NetworkLine
  <2>4. QED
    BY <2>2, <2>3, ClientNetworkStep
<1>3. QED
  BY <1>1, <1>2, PTL DEF ClientSpec

-----------------------------------------------------------------------------
(* What a client has seen *)

\* The extrinsic of c is in the finalized chain of its node, and the event
\* that c took its key from is there with its message.
HasEvent(c) ==
  LET sent == StateOf(finalized[NodeOf[c]]).sent IN
  /\ InChain(Tx(c), finalized[NodeOf[c]])
  /\ \E i \in 1 .. Len(sent) : sent[i].key = key[c] /\ sent[i].message = DataOf[c]

\* The node of c has a block that sent something else under the key of c.
Contested(c) ==
  \E w \in known[NodeOf[c]] : \E j \in 1 .. Len(SentByBlock(w)) :
    SentByBlock(w)[j].key = key[c] /\ SentByBlock(w)[j].message # DataOf[c]

RanOut(c) == StateOf(finalized[NodeOf[c]]).counter = MaxCounter

\* The node of c started from a block of its finalized chain.
Based(c) == IsPrefix(base[NodeOf[c]], finalized[NodeOf[c]])

FactsOf(c) ==
  /\ Based(c)
  /\ phase[c] \in {"start", "signed", "watching"} => key[c] = NoKey
  /\ key[c] # NoKey \/ phase[c] \in {"finalized", "no_data", "decryption_failed"} => HasEvent(c)
  /\ phase[c] = "no_data" => NodeOf[c] \notin Indexing \/ BelowBase(c)
  /\ phase[c] = "decryption_failed" => Contested(c)
  /\ phase[c] = "dispatch_error" => RanOut(c)

Facts == \A c \in Clients : FactsOf(c)

LEMMA KnownGrows ==
  ASSUME Structure, NEW pool, NetworkStep(pool), NEW n \in Nodes
  PROVE  known[n] \subseteq known'[n]
<1>1. ASSUME NEW m \in Nodes, NEW c, Store(m, c) PROVE known[n] \subseteq known'[n]
  BY <1>1 DEF Store, Structure
<1>2. ASSUME NEW m \in Nodes, WarpSync(m) PROVE known[n] \subseteq known'[n]
  <2>1. CASE m = n
    <3>1. known[n] = {Genesis}
      BY <1>2, <2>1 DEF WarpSync
    <3>2. known'[n] = {SubSeq(justified, 1, i) : i \in 0 .. Len(justified)}
      BY <1>2, <2>1 DEF WarpSync, Structure
    <3>3. Genesis \in {SubSeq(justified, 1, i) : i \in 0 .. Len(justified)}
      BY TreeOfPrefixes DEF Structure, Tree
    <3>4. QED
      BY <3>1, <3>2, <3>3
  <2>2. CASE m # n
    BY <1>2, <2>2 DEF WarpSync, Structure
  <2>3. QED
    BY <2>1, <2>2
<1>3. ASSUME known' = known PROVE known[n] \subseteq known'[n]
  BY <1>3
<1>4. QED
  BY <1>1, <1>2, <1>3 DEF NetworkStep, Spread, Propose, Import, SkipSlot, FinalityRound, Finalize

\* A node moves its start only once, away from genesis and to the block that it
\* finalizes with the same step.
LEMMA BaseMoves ==
  ASSUME Structure, NEW pool, NetworkStep(pool), NEW n \in Nodes
  PROVE  base'[n] = base[n] \/ (base[n] = Genesis /\ base'[n] = finalized'[n])
<1>1. ASSUME NEW m \in Nodes, WarpSync(m)
      PROVE  base'[n] = base[n] \/ (base[n] = Genesis /\ base'[n] = finalized'[n])
  BY <1>1 DEF WarpSync, Structure
<1>2. ASSUME base' = base PROVE base'[n] = base[n]
  BY <1>2
<1>3. QED
  BY <1>1, <1>2 DEF NetworkStep, Spread, Propose, Import, Store, SkipSlot, FinalityRound, Finalize

\* Nothing of it is undone when the network moves on.
LEMMA NetworkKeepsFacts ==
  ASSUME Structure, Structure', Finality, ClientTypes, Facts, UNCHANGED client_vars,
         NEW pool, NetworkStep(pool)
  PROVE  Facts'
<1> SUFFICES ASSUME NEW c \in Clients PROVE FactsOf(c)'
  BY DEF Facts
<1> DEFINE f == finalized[NodeOf[c]]
           g == finalized'[NodeOf[c]]
<1>1. NodeOf[c] \in Nodes
  BY ClientAssumption
<1>2. f \in Chains /\ g \in Chains /\ IsPrefix(f, g)
  BY <1>1, FinalizedMovesUp DEF Structure
<1>3. /\ StateOf(f) \in States /\ StateOf(g) \in States /\ Grows(StateOf(f), StateOf(g))
  BY <1>2, StateOfType, StateOfGrows
<1>4. /\ phase'[c] = phase[c] /\ key'[c] = key[c] /\ nonce'[c] = nonce[c]
  BY DEF client_vars
<1>5. Tx(c)' = Tx(c)
  BY <1>4 DEF Tx
<1> HIDE DEF f, g
<1>6. HasEvent(c) => HasEvent(c)'
  <2> SUFFICES ASSUME HasEvent(c) PROVE HasEvent(c)'
    OBVIOUS
  <2>1. InChain(Tx(c), g)
    BY <1>2, InChainPrefix DEF HasEvent, f
  <2>2. PICK i \in 1 .. Len(StateOf(f).sent) :
          StateOf(f).sent[i].key = key[c] /\ StateOf(f).sent[i].message = DataOf[c]
    BY DEF HasEvent, f
  <2>3. i \in 1 .. Len(StateOf(g).sent) /\ StateOf(g).sent[i] = StateOf(f).sent[i]
    BY <1>3, GrowsSent
  <2>4. \E k \in 1 .. Len(StateOf(g).sent) :
          StateOf(g).sent[k].key = key'[c] /\ StateOf(g).sent[k].message = DataOf[c]
    BY <1>4, <2>2, <2>3
  <2>5. InChain(Tx(c)', g)
    BY <1>5, <2>1
  <2>6. QED
    BY <2>4, <2>5 DEF HasEvent, g
<1>7. Contested(c) => Contested(c)'
  <2>1. known[NodeOf[c]] \subseteq known'[NodeOf[c]]
    BY <1>1, KnownGrows
  <2>2. QED
    BY <1>4, <2>1 DEF Contested
<1>8. RanOut(c) => RanOut(c)'
  <2>1. StateOf(f).counter = MaxCounter => StateOf(g).counter = MaxCounter
    BY <1>3, GrowsSent, CounterAssumption
  <2>2. QED
    BY <2>1 DEF RanOut, f, g
<1>9. FactsOf(c)
  BY DEF Facts
<1> DEFINE b == base[NodeOf[c]]
           d == base'[NodeOf[c]]
<1>10. /\ b \in Chains /\ IsPrefix(b, f)
       /\ d = b \/ (b = Genesis /\ d = g)
  BY <1>1, <1>9, BaseMoves DEF FactsOf, Based, Structure, f, g
<1>11. BelowBase(c) => BelowBase(c)'
  <2>1. b = Genesis => Range(StateOf(b).sent) = {}
    BY StateOfGenesis DEF GenesisState, Range
  <2>2. BelowBase(c) => d = b
    BY <1>10, <2>1 DEF BelowBase
  <2>3. QED
    BY <1>4, <2>2 DEF BelowBase
<1>12. Based(c)'
  <2>1. IsPrefix(b, g) /\ IsPrefix(g, g)
    BY <1>2, <1>10, PrefixTransitive, PrefixReflexive DEF Chains
  <2>2. IsPrefix(d, g)
    BY <1>10, <2>1
  <2>3. QED
    BY <2>2 DEF Based, g
<1>13. QED
  BY <1>4, <1>6, <1>7, <1>8, <1>9, <1>11, <1>12 DEF FactsOf

\* A client that looks up its message in the off-chain storage of its node.
LEMMA FetchFacts ==
  ASSUME Structure, Finality, Offchain, ClientTypes, NEW c \in Clients,
         HasEvent(c), Based(c)
  PROVE  LET data == offchain[NodeOf[c]][key[c]] IN
         /\ data = NoData => NodeOf[c] \notin Indexing \/ BelowBase(c)
         /\ data \notin {NoData, DataOf[c]} => Contested(c)
<1> DEFINE n == NodeOf[c]
           data == offchain[n][key[c]]
           sent == StateOf(finalized[n]).sent
<1>1. n \in Nodes /\ finalized[n] \in Chains /\ known[n] \in SUBSET Chains
  BY ClientAssumption DEF Structure
<1>2. sent \in Seq(Sent)
  BY <1>1, StateOfType DEF States
<1>3. PICK i \in 1 .. Len(sent) : sent[i].key = key[c] /\ sent[i].message = DataOf[c]
  BY DEF HasEvent
<1>4. sent[i] \in Sent /\ Len(sent) \in Nat
  BY <1>2, ElementOfSeq, LenProperties
<1>5. key[c] \in Keys
  BY <1>3, <1>4 DEF Sent
<1>6. ASSUME n \in Indexing, ~BelowBase(c) PROVE data # NoData
  <2> DEFINE skipped == StateOf(base[n]).sent
  <2>1. /\ skipped \in Seq(Sent) /\ Len(skipped) \in Nat
        /\ \A k \in 1 .. Len(skipped) : skipped[k] = sent[k]
    <3>1. base[n] \in Chains /\ IsPrefix(base[n], finalized[n])
      BY <1>1 DEF Structure, Based
    <3>2. /\ StateOf(base[n]) \in States /\ StateOf(finalized[n]) \in States
          /\ Grows(StateOf(base[n]), StateOf(finalized[n]))
      BY <1>1, <3>1, StateOfType, StateOfGrows
    <3> DEFINE before == StateOf(base[n])
               after == StateOf(finalized[n])
    <3> HIDE DEF before, after
    <3>3. /\ before.sent \in Seq(Sent) /\ Len(before.sent) \in Nat
          /\ \A k \in 1 .. Len(before.sent) : after.sent[k] = before.sent[k]
      BY <3>2, GrowsSent DEF States, before, after
    <3>4. QED
      BY <3>3 DEF before, after
  <2>2. i \notin 1 .. Len(skipped)
    <3> SUFFICES ASSUME i \in 1 .. Len(skipped) PROVE FALSE
      OBVIOUS
    <3>1. skipped[i] \in Range(skipped) /\ skipped[i].key = key[c]
      BY <1>3, <2>1, LenProperties DEF Range
    <3>2. QED
      BY <1>6, <3>1 DEF BelowBase
  <2>3. i \in Len(StateOf(base[n]).sent) + 1 .. Len(sent)
    BY <1>4, <2>1, <2>2
  <2> HIDE DEF skipped
  <2>4. sent[i] \in Readable(n)
    BY <2>3 DEF Readable
  <2> DEFINE abandoned == {d \in known[n] : /\ ~IsPrefix(d, finalized[n])
                                            /\ ~IsPrefix(finalized[n], d)}
  <2>5. \/ data = sent[i].message
        \/ \E other \in SentIn(abandoned) : other.message = data
    BY <1>3, <1>6, <2>4, LostByFork DEF LostOnlyByFork
  <2>6. abandoned \in SUBSET Chains
    BY <1>1
  <2> HIDE DEF abandoned
  <2>7. \A other \in SentIn(abandoned) : other.message \in Bytes
    BY <2>6, SentInElements, SentElement
  <2>8. sent[i].message \in Bytes
    BY <1>4 DEF Sent
  <2>9. QED
    BY <2>5, <2>7, <2>8, NoDataAssumption
<1>7. ASSUME data # NoData, data # DataOf[c] PROVE Contested(c)
  <2>1. AuthenticIn(offchain[n], ExecutedOf(known[n], base[n]))
    BY <1>1 DEF Offchain
  <2>2. PICK w \in ExecutedOf(known[n], base[n]) : \E j \in 1 .. Len(SentByBlock(w)) :
          SentByBlock(w)[j].key = key[c] /\ SentByBlock(w)[j].message = data
    BY <1>5, <1>7, <2>1 DEF AuthenticIn
  <2>3. w \in known[n]
    BY DEF ExecutedOf
  <2>4. QED
    BY <1>7, <2>2, <2>3 DEF Contested
<1>8. QED
  BY <1>6, <1>7

LEMMA ClientKeepsFacts ==
  ASSUME Structure, Finality, Offchain, ClientTypes, Facts, NEW c \in Clients, Client(c)
  PROVE  Facts'
<1>1. UNCHANGED vars
  BY ClientLeavesNetwork
<1>2. \A d \in Clients : FactsOf(d)
  BY DEF Facts
<1>3. ASSUME NEW d \in Clients, phase'[d] = phase[d], key'[d] = key[d], nonce'[d] = nonce[d]
      PROVE  FactsOf(d)'
  <2>1. Tx(d)' = Tx(d)
    BY <1>3 DEF Tx
  <2>2. /\ HasEvent(d)' = HasEvent(d) /\ Contested(d)' = Contested(d) /\ RanOut(d)' = RanOut(d)
        /\ Based(d)' = Based(d) /\ BelowBase(d)' = BelowBase(d)
    BY <1>1, <1>3, <2>1 DEF HasEvent, Contested, RanOut, Based, BelowBase, vars
  <2>3. QED
    BY <1>2, <1>3, <2>2 DEF FactsOf
<1>4. ASSUME NEW d \in Clients, d # c
      PROVE  phase'[d] = phase[d] /\ key'[d] = key[d] /\ nonce'[d] = nonce[d]
  BY <1>4 DEF Client, create_signed, submit_and_watch, submit_refused, wait_for_finalized_success,
              wait_ends, fetch, GoTo, ClientTypes
<1>5. SUFFICES FactsOf(c)'
  BY <1>3, <1>4 DEF Facts
<1>0. Based(c)'
  BY <1>1, <1>2 DEF FactsOf, Based, vars
<1>6. \A p : GoTo(c, p) => phase'[c] = p
  BY DEF GoTo, ClientTypes
<1>7. CASE create_signed(c)
  <2>1. phase[c] = "start" /\ phase'[c] = "signed" /\ key'[c] = key[c]
    BY <1>6, <1>7 DEF create_signed
  <2>2. key'[c] = NoKey
    BY <1>2, <2>1 DEF FactsOf
  <2>3. QED
    BY <1>0, <2>1, <2>2 DEF FactsOf
<1>8. CASE submit_and_watch(c)
  <2>1. phase[c] = "signed" /\ phase'[c] = "watching" /\ key'[c] = key[c]
    BY <1>6, <1>8 DEF submit_and_watch
  <2>2. key'[c] = NoKey
    BY <1>2, <2>1 DEF FactsOf
  <2>3. QED
    BY <1>0, <2>1, <2>2 DEF FactsOf
<1>9. CASE submit_refused(c) \/ wait_ends(c)
  <2>1. phase[c] \in {"signed", "watching"} /\ phase'[c] = "tx_error" /\ key'[c] = key[c]
    BY <1>6, <1>9 DEF submit_refused, wait_ends
  <2>2. key'[c] = NoKey
    BY <1>2, <2>1 DEF FactsOf
  <2>3. QED
    BY <1>0, <2>1, <2>2 DEF FactsOf
<1>10. CASE wait_for_finalized_success(c)
  <2> DEFINE f == finalized[NodeOf[c]]
             sent == StateOf(f).sent
             mine == {m \in Range(sent) : m.metadata = MetaOf[c] /\ m.message = DataOf[c]}
  <2>1. /\ phase[c] = "watching" /\ InChain(Tx(c), f)
        /\ nonce'[c] = nonce[c] /\ f' = f
    BY <1>1, <1>10 DEF wait_for_finalized_success, vars
  <2>2. key[c] = NoKey
    BY <1>2, <2>1 DEF FactsOf
  <2>3. f \in Chains /\ sent \in Seq(Sent) /\ DOMAIN sent = 1 .. Len(sent)
    BY StateOfType, ClientAssumption, LenProperties DEF Structure, States
  <2>4. CASE mine = {}
    <3>1. phase'[c] = "dispatch_error" /\ key'[c] = NoKey
      BY <1>6, <1>10, <2>2, <2>4 DEF wait_for_finalized_success
    <3>2. ~HasSent(StateOf(f), Tx(c))
      <4>1. ASSUME NEW i \in 1 .. Len(sent),
                   sent[i].metadata = MetaOf[c], sent[i].message = DataOf[c]
            PROVE  FALSE
        <5>1. sent[i] \in Range(sent)
          BY <2>3 DEF Range
        <5>2. QED
          BY <2>4, <4>1, <5>1
      <4>2. QED
        BY <4>1, TxType DEF HasSent
    <3>3. StateOf(f).counter = MaxCounter
      BY <2>1, <2>3, <3>2, TxType, ChainIsSent
    <3>4. RanOut(c)'
      BY <1>1, <3>3 DEF RanOut, vars
    <3>5. QED
      BY <1>0, <3>1, <3>4 DEF FactsOf
  <2>5. CASE mine # {}
    <3>1. PICK m \in mine : key' = [key EXCEPT ![c] = m.key]
      BY <1>10, <2>5 DEF wait_for_finalized_success
    <3>2. phase'[c] = "finalized" /\ key'[c] = m.key
      BY <1>6, <1>10, <2>5, <3>1 DEF wait_for_finalized_success, ClientTypes
    <3>3. PICK i \in 1 .. Len(sent) : sent[i] = m
      BY <2>3 DEF Range
    <3>4. sent[i].key = key'[c] /\ sent[i].message = DataOf[c]
      BY <3>2, <3>3
    <3>5. Tx(c)' = Tx(c)
      BY <2>1 DEF Tx
    <3>6. HasEvent(c)'
      <4>1. finalized' = finalized
        BY <1>1 DEF vars
      <4>2. QED
        BY <2>1, <3>4, <3>5, <4>1 DEF HasEvent
    <3>7. QED
      BY <1>0, <3>2, <3>6 DEF FactsOf
  <2>6. QED
    BY <2>4, <2>5
<1>11. CASE fetch(c)
  <2> DEFINE data == offchain[NodeOf[c]][key[c]]
  <2>1. /\ phase[c] = "finalized" /\ key'[c] = key[c] /\ nonce'[c] = nonce[c]
        /\ phase'[c] = CASE data = NoData    -> "no_data"
                         [] data = DataOf[c] -> "delivered"
                         [] OTHER            -> "decryption_failed"
    BY <1>6, <1>11 DEF fetch
  <2>2. HasEvent(c) /\ Based(c)
    BY <1>2, <2>1 DEF FactsOf
  <2>3. /\ data = NoData => NodeOf[c] \notin Indexing \/ BelowBase(c)
        /\ data \notin {NoData, DataOf[c]} => Contested(c)
    BY <2>2, FetchFacts
  <2>4. Tx(c)' = Tx(c)
    BY <2>1 DEF Tx
  <2>5. /\ HasEvent(c)' /\ Based(c)' /\ Contested(c)' = Contested(c)
        /\ BelowBase(c)' = BelowBase(c)
    BY <1>1, <2>1, <2>2, <2>4 DEF HasEvent, Based, Contested, BelowBase, vars
  <2>6. /\ phase'[c] \in {"no_data", "delivered", "decryption_failed"}
        /\ phase'[c] = "no_data" => data = NoData
        /\ phase'[c] = "decryption_failed" => data \notin {NoData, DataOf[c]}
    <3> HIDE DEF data
    <3>1. DataOf[c] # NoData
      BY TxType, NoDataAssumption
    <3>2. QED
      BY <2>1, <3>1
  <2>7. QED
    BY <2>3, <2>5, <2>6 DEF FactsOf
<1>12. QED
  BY <1>7, <1>8, <1>9, <1>10, <1>11 DEF Client

LEMMA FactsInvariant == ClientSpec => []Facts
<1>1. ClientInit => Facts
  <2> SUFFICES ASSUME ClientInit, NEW c \in Clients PROVE FactsOf(c)
    BY DEF Facts
  <2>1. base[NodeOf[c]] = << >> /\ finalized[NodeOf[c]] = << >>
    BY ClientAssumption DEF ClientInit, Init, Genesis
  <2>2. << >> \in Chains
    BY EmptySeq DEF Chains
  <2>3. Based(c)
    BY <2>1, <2>2, PrefixReflexive DEF Based, Chains
  <2>4. QED
    BY <2>3 DEF ClientInit, FactsOf
<1>2. /\ Structure /\ Structure' /\ Finality /\ Offchain /\ ClientTypes /\ Facts
      /\ [ClientNext]_<<vars, client_vars>>
      => Facts'
  <2> SUFFICES ASSUME Structure, Structure', Finality, Offchain, ClientTypes, Facts,
                      [ClientNext]_<<vars, client_vars>>
               PROVE  Facts'
    OBVIOUS
  <2>1. CASE UNCHANGED <<vars, client_vars>>
    <3>1. \A c \in Clients : Tx(c)' = Tx(c)
      BY <2>1 DEF Tx, client_vars
    <3>2. QED
      BY <2>1, <3>1 DEF vars, client_vars, Facts, FactsOf, HasEvent, Contested, RanOut, Based, BelowBase
  <2>2. CASE \E c \in Clients : Client(c)
    BY <2>2, ClientKeepsFacts
  <2>3. CASE UNCHANGED client_vars /\ NetworkStep(Signed \cup submitted)
    BY <2>3, NetworkKeepsFacts
  <2>4. QED
    BY <2>1, <2>2, <2>3 DEF ClientNext, NetworkStep, AuthorSubmitted
<1>3. QED
  BY <1>1, <1>2, ClientNetworkInvariant, PTL DEF ClientSpec

\* The block that put something else at the key lies off the finalized chain:
\* on the chain, the key tells the message.
LEMMA ContestedOffChain ==
  ASSUME Structure, NEW c \in Clients, HasEvent(c),
         NEW w \in known[NodeOf[c]], NEW j \in 1 .. Len(SentByBlock(w)),
         SentByBlock(w)[j].key = key[c], SentByBlock(w)[j].message # DataOf[c]
  PROVE  ~IsPrefix(w, finalized[NodeOf[c]]) /\ ~IsPrefix(finalized[NodeOf[c]], w)
<1> DEFINE f == finalized[NodeOf[c]]
<1>1. f \in Chains /\ w \in Chains
  BY ClientAssumption DEF Structure
<1>2. PICK i \in 1 .. Len(StateOf(f).sent) :
        StateOf(f).sent[i].key = key[c] /\ StateOf(f).sent[i].message = DataOf[c]
  BY DEF HasEvent
<1>3. PICK at \in 1 .. Len(StateOf(w).sent) : SentByBlock(w)[j] = StateOf(w).sent[at]
  BY <1>1, SentByBlockResult
<1> HIDE DEF f
<1>4. ASSUME IsPrefix(w, f) \/ IsPrefix(f, w) PROVE FALSE
  <2>1. StateOf(w).sent[at] = StateOf(f).sent[i]
    BY <1>1, <1>2, <1>3, <1>4, KeyTellsMessage
  <2>2. QED
    BY <1>2, <1>3, <2>1
<1>5. QED
  BY <1>4 DEF f

\* What forks cannot do to a client on the development chain.
LEMMA DeliveredOnOneLine ==
  ASSUME Structure, Line, ClientTypes, Facts
  PROVE  FinalizedIsDelivered
<1> SUFFICES ASSUME Len(authorities) = 1, NEW c \in Clients
             PROVE  /\ phase[c] # "decryption_failed"
                    /\ phase[c] = "no_data" => NodeOf[c] \notin Indexing \/ BelowBase(c)
                    /\ phase[c] = "dispatch_error" => RanOut(c)
  BY DEF FinalizedIsDelivered, RanOut
<1> DEFINE f == finalized[NodeOf[c]]
<1>1. FactsOf(c)
  BY DEF Facts
<1>2. ASSUME phase[c] = "decryption_failed" PROVE FALSE
  <2>1. HasEvent(c) /\ Contested(c)
    BY <1>1, <1>2 DEF FactsOf
  <2>2. PICK w \in known[NodeOf[c]] : \E j \in 1 .. Len(SentByBlock(w)) :
          SentByBlock(w)[j].key = key[c] /\ SentByBlock(w)[j].message # DataOf[c]
    BY <2>1 DEF Contested
  <2>3. ~IsPrefix(w, f) /\ ~IsPrefix(f, w)
    BY <2>1, <2>2, ContestedOffChain
  <2>4. /\ f \in known[NodeOf[c]] /\ f \in Chains /\ w \in Chains
        /\ best[authorities[1]] \in Chains
    BY ClientAssumption, OnlyAuthority DEF Structure
  <2>5. IsPrefix(w, best[authorities[1]]) /\ IsPrefix(f, best[authorities[1]])
    BY <2>4, ClientAssumption DEF Line
  <2>6. Len(w) \in Nat /\ Len(f) \in Nat
    BY <2>4, LenProperties DEF Chains
  <2> HIDE DEF f
  <2>7. IsPrefix(w, f) \/ IsPrefix(f, w)
    BY <2>4, <2>5, <2>6, PrefixLinear DEF Chains
  <2>8. QED
    BY <2>3, <2>7
<1>3. QED
  BY <1>1, <1>2 DEF FactsOf

LEMMA FailureIsContested ==
  ASSUME Structure, Facts PROVE FailureHasCause
<1> SUFFICES ASSUME NEW c \in Clients
             PROVE  /\ phase[c] = "no_data" => NodeOf[c] \notin Indexing \/ BelowBase(c)
                    /\ phase[c] = "decryption_failed" =>
                         \E other \in SentIn({chain \in known[NodeOf[c]] :
                                                ~IsPrefix(chain, finalized[NodeOf[c]])}) :
                           other.key = key[c] /\ other.message # DataOf[c]
  BY DEF FailureHasCause
<1>1. FactsOf(c)
  BY DEF Facts
<1>2. phase[c] = "no_data" => NodeOf[c] \notin Indexing \/ BelowBase(c)
  BY <1>1 DEF FactsOf
<1> DEFINE off == {chain \in known[NodeOf[c]] : ~IsPrefix(chain, finalized[NodeOf[c]])}
<1>3. ASSUME phase[c] = "decryption_failed"
      PROVE  \E other \in SentIn(off) : other.key = key[c] /\ other.message # DataOf[c]
  <2>1. HasEvent(c) /\ Contested(c)
    BY <1>1, <1>3 DEF FactsOf
  <2>2. PICK w \in known[NodeOf[c]] : \E i \in 1 .. Len(SentByBlock(w)) :
          SentByBlock(w)[i].key = key[c] /\ SentByBlock(w)[i].message # DataOf[c]
    BY <2>1 DEF Contested
  <2>3. PICK j \in 1 .. Len(SentByBlock(w)) :
          SentByBlock(w)[j].key = key[c] /\ SentByBlock(w)[j].message # DataOf[c]
    BY <2>2
  <2>4. w \in off /\ off \in SUBSET Chains
    BY <2>1, <2>3, ContestedOffChain, ClientAssumption DEF Structure
  <2> HIDE DEF off
  <2>5. SentByBlock(w)[j] \in SentIn(off)
    BY <2>4, SentInElements
  <2>6. QED
    BY <2>3, <2>5
<1>4. QED
  BY <1>2, <1>3

\* Two finalized chains lie on the line of the rounds, where a key and an
\* account's nonce are used once.
LEMMA EventsDiffer ==
  ASSUME Structure, Finality, Validity, ClientTypes,
         NEW c \in Clients, NEW d \in Clients, c # d, HasEvent(c), HasEvent(d)
  PROVE  key[c] # key[d] /\ (AccountOf[c] = AccountOf[d] => nonce[c] # nonce[d])
<1> DEFINE f == finalized[NodeOf[c]]
           g == finalized[NodeOf[d]]
<1>1. /\ f \in Chains /\ g \in Chains /\ justified \in Chains
      /\ IsPrefix(f, justified) /\ IsPrefix(g, justified)
  BY ClientAssumption DEF Structure, Finality
<1>2. DataOf[c] # DataOf[d]
  BY ClientAssumption DEF IsInjective
<1>3. PICK i \in 1 .. Len(StateOf(f).sent) :
        StateOf(f).sent[i].key = key[c] /\ StateOf(f).sent[i].message = DataOf[c]
  BY DEF HasEvent
<1>4. PICK j \in 1 .. Len(StateOf(g).sent) :
        StateOf(g).sent[j].key = key[d] /\ StateOf(g).sent[j].message = DataOf[d]
  BY DEF HasEvent
<1>5. InChain(Tx(c), f) /\ InChain(Tx(d), g)
  BY DEF HasEvent
<1> HIDE DEF f, g
<1>6. key[c] # key[d]
  <2>1. Len(f) \in Nat /\ Len(g) \in Nat
    BY <1>1, LenProperties DEF Chains
  <2>2. IsPrefix(f, g) \/ IsPrefix(g, f)
    BY <1>1, <2>1, PrefixLinear DEF Chains
  <2>3. ASSUME key[c] = key[d] PROVE StateOf(f).sent[i] = StateOf(g).sent[j]
    BY <1>1, <1>3, <1>4, <2>2, <2>3, KeyTellsMessage
  <2>4. QED
    BY <1>2, <1>3, <1>4, <2>3
<1>7. ASSUME AccountOf[c] = AccountOf[d], nonce[c] = nonce[d] PROVE FALSE
  <2> DEFINE all == FlattenSeq(Bodies(justified))
  <2>1. /\ \E k \in 1 .. Len(all) : all[k] = Tx(c)
        /\ \E k \in 1 .. Len(all) : all[k] = Tx(d)
    BY <1>1, <1>5, InChainPrefix, InChainFlat
  <2>2. Spent(StateOf(justified), all)
    BY <1>1, ValidChainSpent DEF Validity
  <2> HIDE DEF all
  <2>3. Tx(c).account = Tx(d).account /\ Tx(c).nonce = Tx(d).nonce
    BY <1>7, TxType
  <2>4. Tx(c) = Tx(d)
    BY <2>1, <2>2, <2>3 DEF Spent
  <2>5. QED
    BY <1>2, <2>4, TxType
<1>8. QED
  BY <1>6, <1>7

LEMMA WinnersDiffer ==
  ASSUME Structure, Finality, Validity, ClientTypes, Facts PROVE OneWinner
<1>1. \A c \in Clients : key[c] # NoKey => HasEvent(c)
  BY DEF Facts, FactsOf
<1>2. QED
  BY <1>1, EventsDiffer DEF OneWinner

-----------------------------------------------------------------------------

\* On the development chain, whose single authority never forks it, a client
\* gets its finalized message back: a decryption error cannot come up, and "No
\* off-chain data found" (client/src/main.rs:107-124) only where the node does
\* not index or has skipped the block of the event by a warp sync; a finalized
\* extrinsic fails only when the counter of messages is used up.
THEOREM FinalizedMessagesAreDelivered == ClientSpec => []FinalizedIsDelivered
BY DeliveredOnOneLine, ClientNetworkInvariant, FactsInvariant, PTL

\* With several authorities and forks, a client fails to read its message back
\* only where its node does not index or skipped the block of the event by a
\* warp sync, or after its node executed a block of another fork that put a
\* message of somebody else under the same key.
THEOREM OnlyForksFailClients == ClientSpec => []FailureHasCause
BY FailureIsContested, ClientNetworkInvariant, FactsInvariant, PTL

\* No two clients see their messages finalized at one key, or with one nonce of
\* an account, whichever nodes told them so.
THEOREM OneClientWinsTheKey == ClientSpec => []OneWinner
BY WinnersDiffer, ClientNetworkInvariant, FactsInvariant, PTL

\* Nothing that clients submit, however often it is offered, is executed twice.
THEOREM SubmittedExecuteOnce == ClientSpec => []NoReplay
BY ValidChainsDoNotReplay, ClientNetworkInvariant, PTL

-----------------------------------------------------------------------------
(* The maintenance commands.  There is no warp sync among them, and a node  *)
(* may go back on blocks, so what it executed is kept in `executed`.        *)

MaintenanceTypes ==
  /\ executed \in [Nodes -> SUBSET Chains]
  /\ voter \in [Nodes -> {"bound", "reset", "rebound"}]
  /\ file \in Chains
  /\ \A n \in Nodes : base[n] = Genesis

MaintenanceOffchain ==
  /\ \A n \in Nodes : AuthenticIn(offchain[n], executed[n])
  /\ \A n \in Indexing : KeptIn(offchain[n], executed[n])

\* Voters that have kept their state finalize on one line.
Bound ==
  (\A v \in Range(authorities) : voter[v] = "bound") =>
    \A n \in Nodes : IsPrefix(finalized[n], justified)

MaintenanceInv ==
  Structure /\ BestExtendsFinalized /\ MaintenanceTypes /\ MaintenanceOffchain /\ Bound

LEMMA AuthorityNodes ==
  ASSUME Structure
  PROVE  /\ authorities \in Seq(Nodes) /\ Len(authorities) \in Nat /\ Len(authorities) >= 1
         /\ \A v \in Range(authorities) : v \in Nodes
<1>1. authorities \in Seq(Nodes) /\ authorities # << >>
  BY AuthorityAssumption DEF Structure
<1>2. Len(authorities) \in Nat /\ Len(authorities) >= 1
  BY <1>1, LenProperties, EmptySeq
<1>3. DOMAIN authorities = 1 .. Len(authorities)
  BY <1>1, LenProperties
<1>4. \A i \in 1 .. Len(authorities) : authorities[i] \in Nodes
  BY <1>1, ElementOfSeq
<1>5. QED
  BY <1>1, <1>2, <1>3, <1>4 DEF Range

LEMMA QuorumHasVoter ==
  ASSUME Structure PROVE ~Quorum({})
<1> DEFINE n == Len(authorities)
<1>1. n \in Nat /\ n >= 1
  BY AuthorityNodes
<1> HIDE DEF n
<1>2. (n - 1) \div 3 <= n - 1
  BY <1>1
<1>3. ~(0 >= n - ((n - 1) \div 3))
  BY <1>1, <1>2
<1>4. Cardinality({}) = 0
  BY FS_EmptySet
<1>5. QED
  BY <1>3, <1>4 DEF Quorum, n

LEMMA InitialMaintenance == MaintenanceInit => MaintenanceInv
<1> SUFFICES ASSUME MaintenanceInit PROVE MaintenanceInv
  OBVIOUS
<1>1. Structure /\ Finality
  BY InitialStructure DEF MaintenanceInit
<1>2. BestExtendsFinalized /\ Bound
  BY <1>1 DEF Finality, BestExtendsFinalized, Bound
<1>3. MaintenanceTypes
  BY GenesisChain DEF MaintenanceInit, Init, MaintenanceTypes
<1>4. MaintenanceOffchain
  BY NodeAssumption DEF MaintenanceInit, Init, MaintenanceOffchain, AuthenticIn, KeptIn
<1>5. QED
  BY <1>1, <1>2, <1>3, <1>4 DEF MaintenanceInv

\* A node executes a block that it does not have, perhaps once more.
LEMMA StoreIndexed ==
  ASSUME Structure, MaintenanceTypes, MaintenanceOffchain, Bound,
         NEW n \in Nodes, NEW c \in Chains, c \notin known[n], Store(n, c), Indexed(n)
  PROVE  MaintenanceTypes' /\ MaintenanceOffchain' /\ Bound'
<1>1. /\ known' = [known EXCEPT ![n] = known[n] \cup {c}]
      /\ offchain' = [offchain EXCEPT
                        ![n] = IF n \in Indexing THEN IndexBlock(offchain[n], c)
                               ELSE offchain[n]]
      /\ UNCHANGED <<authorities, finalized, base, justified>>
  BY DEF Store, Structure
<1>2. known'[n] \ known[n] = {c}
  BY <1>1 DEF Structure
<1>3. /\ executed' = [executed EXCEPT
                        ![n] = IF n \in Indexing THEN executed[n] \cup {c} ELSE executed[n]]
      /\ UNCHANGED <<voter, file>>
  BY <1>2 DEF Indexed, MaintenanceTypes
<1>4. MaintenanceTypes'
  BY <1>1, <1>3 DEF MaintenanceTypes, Genesis
<1>5. Bound'
  BY <1>1, <1>3 DEF Bound
<1>6. offchain[n] \in Database /\ executed[n] \in SUBSET Chains
  BY DEF Structure, MaintenanceTypes
<1>7. \A m \in Nodes : m # n => executed'[m] = executed[m] /\ offchain'[m] = offchain[m]
  BY <1>1, <1>3 DEF Structure, MaintenanceTypes
<1>8. CASE n \in Indexing
  <2>1. offchain'[n] = IndexBlock(offchain[n], c) /\ executed'[n] = executed[n] \cup {c}
    BY <1>1, <1>3, <1>8 DEF Structure, MaintenanceTypes
  <2>2. AuthenticIn(offchain'[n], executed'[n]) /\ KeptIn(offchain'[n], executed'[n])
    BY <1>6, <1>8, <2>1, IndexBlockOffchain DEF MaintenanceOffchain
  <2>3. QED
    BY <1>4, <1>5, <1>7, <2>2, NodeAssumption DEF MaintenanceOffchain
<1>9. CASE n \notin Indexing
  <2>1. executed' = executed /\ offchain' = offchain
    BY <1>1, <1>3, <1>9 DEF Structure, MaintenanceTypes
  <2>2. QED
    BY <1>4, <1>5, <2>1 DEF MaintenanceOffchain
<1>10. QED
  BY <1>8, <1>9

\* Other blocks on node n, its finalized and warp blocks among them.
LEMMA KnownChanges ==
  ASSUME Structure, NEW n \in Nodes, NEW K \in SUBSET Chains, NEW b \in K,
         Tree(K), finalized[n] \in K, base[n] \in K,
         known' = [known EXCEPT ![n] = K], best' = [best EXCEPT ![n] = b],
         UNCHANGED <<authorities, slot, finalized, base, offchain, justified>>
  PROVE  Structure'
<1>1. known' \in [Nodes -> SUBSET Chains] /\ best' \in [Nodes -> Chains]
  BY DEF Structure
<1>2. ASSUME NEW m \in Nodes
      PROVE  /\ Tree(known'[m])
             /\ best'[m] \in known'[m] /\ finalized[m] \in known'[m] /\ base[m] \in known'[m]
  BY DEF Structure
<1>3. QED
  BY <1>1, <1>2 DEF Structure, Tree, Genesis

-----------------------------------------------------------------------------
(* One lemma for each kind of step *)

LEMMA AuthorIndexed ==
  ASSUME MaintenanceInv, NEW n \in Nodes, Author(n), Indexed(n)
  PROVE  MaintenanceInv'
<1>1. Signed \in SUBSET Extrinsic
  BY SignedAssumption
<1>2. Structure' /\ BestExtendsFinalized'
  BY <1>1, ProposeStep DEF Author, MaintenanceInv
<1>3. PICK parent \in SelectChain(n), txs \in SeqOf(Signed, MaxBlockTxs) :
        Store(n, Append(parent, [slot |-> slot, txs |-> txs]))
  BY DEF Author, Propose
<1>4. /\ Append(parent, [slot |-> slot, txs |-> txs]) \in Chains
      /\ Append(parent, [slot |-> slot, txs |-> txs]) \notin known[n]
  BY <1>1, ProposedChain DEF MaintenanceInv
<1>5. QED
  BY <1>2, <1>3, <1>4, StoreIndexed DEF MaintenanceInv

LEMMA ImportIndexed ==
  ASSUME MaintenanceInv, NEW n \in Nodes, Import(n), Indexed(n)
  PROVE  MaintenanceInv'
<1>1. Structure' /\ BestExtendsFinalized'
  BY ImportStep DEF MaintenanceInv
<1>2. PICK c \in (UNION {known[m] : m \in Nodes \ {n}}) \ known[n] : Store(n, c)
  BY DEF Import
<1>3. c \in Chains /\ c \notin known[n]
  BY DEF Structure, MaintenanceInv
<1>4. QED
  BY <1>1, <1>2, <1>3, StoreIndexed DEF MaintenanceInv

LEMMA RoundStep ==
  ASSUME MaintenanceInv, Round
  PROVE  MaintenanceInv'
<1>1. PICK c \in UNION {known[n] : n \in Nodes} : \E voters \in SUBSET Range(authorities) :
        /\ Quorum(voters)
        /\ \A v \in voters : IsStrictPrefix(Locked(v), c)
        /\ justified' = c
        /\ UNCHANGED <<authorities, slot, known, best, finalized, base, offchain,
                       executed, voter, file>>
  BY DEF Round
<1>2. Structure /\ c \in Chains
  BY <1>1 DEF MaintenanceInv, Structure
<1>3. Structure' /\ BestExtendsFinalized' /\ MaintenanceTypes' /\ MaintenanceOffchain'
  BY <1>1, <1>2 DEF MaintenanceInv, Structure, Tree, Genesis, BestExtendsFinalized,
                    MaintenanceTypes, MaintenanceOffchain
<1>4. ASSUME \A v \in Range(authorities) : voter[v] = "bound", NEW n \in Nodes
      PROVE  IsPrefix(finalized[n], c)
  <2>1. PICK voters \in SUBSET Range(authorities) :
          Quorum(voters) /\ \A v \in voters : IsStrictPrefix(Locked(v), c)
    BY <1>1
  <2>2. PICK v \in voters : TRUE
    BY <1>2, <2>1, QuorumHasVoter
  <2>3. IsPrefix(justified, c)
    BY <1>4, <2>1, <2>2 DEF Locked, IsStrictPrefix
  <2>4. IsPrefix(finalized[n], justified)
    BY <1>4 DEF MaintenanceInv, Bound
  <2>5. QED
    BY <1>2, <2>3, <2>4, PrefixTransitive DEF Structure, Chains
<1>5. Bound'
  BY <1>1, <1>4 DEF Bound
<1>6. QED
  BY <1>3, <1>5 DEF MaintenanceInv

LEMMA FinalizeOnTopStep ==
  ASSUME MaintenanceInv, NEW n \in Nodes, FinalizeOnTop(n)
  PROVE  MaintenanceInv'
<1>1. Finalize(n) /\ UNCHANGED <<executed, file>>
      /\ voter' = [voter EXCEPT ![n] = IF voter[n] = "reset" THEN "rebound" ELSE voter[n]]
  BY DEF FinalizeOnTop, MaintenanceInv, MaintenanceTypes
<1>2. Structure' /\ BestExtendsFinalized'
  BY <1>1, FinalizeStep DEF MaintenanceInv
<1>3. /\ finalized' = [finalized EXCEPT ![n] = justified]
      /\ UNCHANGED <<authorities, base, offchain, justified>>
  BY <1>1 DEF Finalize
<1>4. MaintenanceTypes' /\ MaintenanceOffchain'
  BY <1>1, <1>3 DEF MaintenanceInv, MaintenanceTypes, MaintenanceOffchain, Genesis
<1>5. ASSUME NEW v \in Nodes, voter'[v] = "bound" PROVE voter[v] = "bound"
  BY <1>1, <1>5 DEF MaintenanceInv, MaintenanceTypes
<1>6. ASSUME NEW m \in Nodes, \A v \in Range(authorities) : voter'[v] = "bound"
      PROVE  IsPrefix(finalized'[m], justified)
  <2>1. \A v \in Range(authorities) : voter[v] = "bound"
    BY <1>5, <1>6, AuthorityNodes DEF MaintenanceInv
  <2>2. IsPrefix(finalized[m], justified) /\ IsPrefix(justified, justified)
    BY <2>1, PrefixReflexive DEF MaintenanceInv, Bound, Structure, Chains
  <2>3. QED
    BY <1>3, <2>2 DEF MaintenanceInv, Structure
<1>7. Bound'
  BY <1>3, <1>6 DEF Bound
<1>8. QED
  BY <1>2, <1>4, <1>7 DEF MaintenanceInv

\* A voter that is reset is not bound any more.
LEMMA ResetBound ==
  ASSUME MaintenanceInv, NEW n \in Nodes, ResetVoter(n), authorities' = authorities,
         justified' = justified,
         \A m \in Nodes : finalized'[m] \in {finalized[m], Genesis}
  PROVE  voter' \in [Nodes -> {"bound", "reset", "rebound"}] /\ Bound'
<1>1. voter' \in [Nodes -> {"bound", "reset", "rebound"}]
  BY DEF ResetVoter, MaintenanceInv, MaintenanceTypes
<1>2. ASSUME NEW v \in Nodes, voter'[v] = "bound" PROVE voter[v] = "bound"
  BY <1>2 DEF ResetVoter, MaintenanceInv, MaintenanceTypes
<1>3. ASSUME NEW m \in Nodes, \A v \in Range(authorities) : voter'[v] = "bound"
      PROVE  IsPrefix(finalized'[m], justified)
  <2>1. \A v \in Range(authorities) : voter[v] = "bound"
    BY <1>2, <1>3, AuthorityNodes DEF MaintenanceInv
  <2>2. IsPrefix(finalized[m], justified) /\ IsPrefix(Genesis, justified)
    BY <2>1, GenesisChain DEF MaintenanceInv, Bound, Structure
  <2>3. QED
    BY <2>2
<1>4. QED
  BY <1>1, <1>3 DEF Bound

LEMMA RevertStep ==
  ASSUME MaintenanceInv, NEW n \in Nodes, Revert(n)
  PROVE  MaintenanceInv'
<1> DEFINE K(length) == {c \in known[n] : Len(c) <= length}
<1>1. PICK length \in Len(finalized[n]) .. Len(best[n]) - 1 :
        /\ known' = [known EXCEPT ![n] = K(length)]
        /\ best' = [best EXCEPT ![n] = SubSeq(best[n], 1, length)]
        /\ UNCHANGED <<authorities, slot, finalized, base, offchain, justified, executed, file>>
        /\ ResetVoter(n)
  BY DEF Revert, MaintenanceInv, Structure
<1>2. /\ best[n] \in Chains /\ finalized[n] \in Chains /\ IsPrefix(finalized[n], best[n])
      /\ known[n] \in SUBSET Chains /\ Tree(known[n])
      /\ best[n] \in known[n] /\ finalized[n] \in known[n]
      /\ Len(best[n]) \in Nat /\ Len(finalized[n]) \in Nat /\ base[n] = Genesis
  BY LenProperties DEF MaintenanceInv, Structure, BestExtendsFinalized, Chains, MaintenanceTypes
<1>3. length \in Nat /\ length \in 0 .. Len(best[n])
  BY <1>2
<1> DEFINE b == SubSeq(best[n], 1, length)
<1>4. b \in Chains /\ Len(b) = length /\ IsPrefix(b, best[n]) /\ b \in known[n]
  BY <1>2, <1>3, SubSeqPrefix, TreePrefix DEF Chains
<1> HIDE DEF b
<1>5. IsPrefix(finalized[n], b)
  BY <1>2, <1>3, <1>4, PrefixLinear DEF Chains
<1>6. /\ b \in K(length) /\ finalized[n] \in K(length) /\ base[n] \in K(length)
      /\ K(length) \in SUBSET Chains
  BY <1>2, <1>3, <1>4, GenesisChain DEF Tree
<1>7. Tree(K(length))
  <2>1. ASSUME NEW c \in K(length), NEW i \in 0 .. Len(c) PROVE SubSeq(c, 1, i) \in K(length)
    <3>1. SubSeq(c, 1, i) \in known[n]
      BY <1>2 DEF Tree
    <3>2. Len(SubSeq(c, 1, i)) = i /\ Len(c) \in Nat /\ Len(c) <= length
      BY <1>2, SubSeqPrefix, LenProperties DEF Chains
    <3>3. QED
      BY <1>3, <3>1, <3>2
  <2>2. QED
    BY <1>2, <1>6, <2>1 DEF Tree, MaintenanceInv, MaintenanceTypes
<1>8. Structure'
  <2> HIDE DEF K
  <2>1. /\ known' = [known EXCEPT ![n] = K(length)] /\ best' = [best EXCEPT ![n] = b]
        /\ UNCHANGED <<authorities, slot, finalized, base, offchain, justified>>
    BY <1>1 DEF b
  <2>2. QED
    BY <1>6, <1>7, <2>1, KnownChanges DEF MaintenanceInv
<1>9. BestExtendsFinalized'
  BY <1>1, <1>5 DEF BestExtendsFinalized, MaintenanceInv, Structure, b
<1>10. MaintenanceOffchain'
  BY <1>1 DEF MaintenanceInv, MaintenanceOffchain
<1>11. voter' \in [Nodes -> {"bound", "reset", "rebound"}] /\ Bound'
  BY <1>1, ResetBound
<1>12. MaintenanceTypes'
  BY <1>1, <1>11 DEF MaintenanceInv, MaintenanceTypes, Genesis
<1>13. QED
  BY <1>8, <1>9, <1>10, <1>11, <1>12 DEF MaintenanceInv

LEMMA PurgeStep ==
  ASSUME MaintenanceInv, NEW n \in Nodes, PurgeChain(n)
  PROVE  MaintenanceInv'
<1>1. /\ known' = [known EXCEPT ![n] = {Genesis}] /\ best' = [best EXCEPT ![n] = Genesis]
      /\ finalized' = [finalized EXCEPT ![n] = Genesis]
      /\ base' = [base EXCEPT ![n] = Genesis]
      /\ executed' = [executed EXCEPT ![n] = {}]
      /\ offchain' = [offchain EXCEPT ![n] = [k \in Keys |-> NoData]]
      /\ UNCHANGED <<authorities, slot, justified, file>>
      /\ ResetVoter(n)
  BY DEF PurgeChain, Emptied
<1>2. Genesis \in Chains /\ Len(Genesis) = 0 /\ IsPrefix(Genesis, Genesis)
  BY GenesisChain
<1>3. Tree({Genesis})
  <2>1. \A i \in 0 .. Len(Genesis) : SubSeq(Genesis, 1, i) = Genesis
    BY <1>2, SubSeqEmpty DEF Genesis
  <2>2. QED
    BY <2>1 DEF Tree
<1>4. [k \in Keys |-> NoData] \in Database
  BY DEF Database
<1>5. ASSUME NEW m \in Nodes
      PROVE  /\ Tree(known'[m])
             /\ best'[m] \in known'[m] /\ finalized'[m] \in known'[m] /\ base'[m] \in known'[m]
             /\ m \notin WarpNodes => base'[m] = Genesis
             /\ IsPrefix(finalized'[m], best'[m])
  BY <1>1, <1>2, <1>3 DEF MaintenanceInv, Structure, BestExtendsFinalized
<1>6. Structure'
  BY <1>1, <1>2, <1>4, <1>5 DEF MaintenanceInv, Structure, Tree, Genesis
<1>7. BestExtendsFinalized'
  BY <1>5 DEF BestExtendsFinalized
<1>8. AuthenticIn(offchain'[n], executed'[n]) /\ KeptIn(offchain'[n], executed'[n])
  BY <1>1 DEF MaintenanceInv, MaintenanceTypes, Structure, AuthenticIn, KeptIn
<1>9. \A m \in Nodes : m # n => offchain'[m] = offchain[m] /\ executed'[m] = executed[m]
  BY <1>1 DEF MaintenanceInv, MaintenanceTypes, Structure
<1>10. MaintenanceOffchain'
  BY <1>8, <1>9, NodeAssumption DEF MaintenanceInv, MaintenanceOffchain
<1>11. voter' \in [Nodes -> {"bound", "reset", "rebound"}] /\ Bound'
  <2>1. \A m \in Nodes : finalized'[m] \in {finalized[m], Genesis}
    BY <1>1 DEF MaintenanceInv, Structure
  <2>2. QED
    BY <1>1, <2>1, ResetBound
<1>12. MaintenanceTypes'
  BY <1>1, <1>11 DEF MaintenanceInv, MaintenanceTypes, Structure, Genesis
<1>13. QED
  BY <1>6, <1>7, <1>10, <1>11, <1>12 DEF MaintenanceInv

LEMMA ImportBlocksStep ==
  ASSUME MaintenanceInv, NEW n \in Nodes, ImportBlocks(n)
  PROVE  MaintenanceInv'
<1>1. PICK length \in 1 .. Len(file) :
        LET c == SubSeq(file, 1, length) IN
        /\ c \notin known[n] /\ Front(c) \in known[n]
        /\ length > Len(best[n]) => IsPrefix(finalized[n], c)
        /\ known' = [known EXCEPT ![n] = known[n] \cup {c}]
        /\ best' = [best EXCEPT ![n] = IF length > Len(best[n]) THEN c ELSE best[n]]
        /\ UNCHANGED <<authorities, slot, finalized, base, offchain, justified,
                       executed, voter, file>>
  BY DEF ImportBlocks, MaintenanceInv, Structure
<1> DEFINE c == SubSeq(file, 1, length)
           b == IF length > Len(best[n]) THEN c ELSE best[n]
<1>2. c \in Chains /\ Len(c) = length /\ length >= 1
  <2>1. length \in 0 .. Len(file) /\ length >= 1
    BY LenProperties DEF MaintenanceInv, MaintenanceTypes, Chains
  <2>2. QED
    BY <2>1, SubSeqPrefix DEF MaintenanceInv, MaintenanceTypes, Chains
<1> HIDE DEF c
<1>3. c # Genesis
  BY <1>2, GenesisChain
<1>4. /\ Front(c) \in known[n]
      /\ known' = [known EXCEPT ![n] = known[n] \cup {c}]
      /\ best' = [best EXCEPT ![n] = b]
      /\ length > Len(best[n]) => IsPrefix(finalized[n], c)
  BY <1>1 DEF c
<1>5. Tree(known[n] \cup {c})
  BY <1>2, <1>3, <1>4, TreeAdd DEF MaintenanceInv, Structure
<1>6. IsPrefix(finalized[n], b)
  BY <1>4 DEF MaintenanceInv, BestExtendsFinalized
<1>7. Structure'
  <2>1. b \in known[n] \cup {c} /\ known[n] \cup {c} \in SUBSET Chains
    BY <1>2 DEF MaintenanceInv, Structure
  <2>2. finalized[n] \in known[n] \cup {c} /\ base[n] \in known[n] \cup {c}
    BY DEF MaintenanceInv, Structure
  <2> HIDE DEF b
  <2>3. QED
    BY <1>1, <1>4, <1>5, <2>1, <2>2, KnownChanges DEF MaintenanceInv
<1> HIDE DEF b
<1>8. BestExtendsFinalized'
  BY <1>1, <1>4, <1>6 DEF MaintenanceInv, BestExtendsFinalized, Structure
<1>9. MaintenanceTypes' /\ MaintenanceOffchain' /\ Bound'
  BY <1>1 DEF MaintenanceInv, MaintenanceTypes, MaintenanceOffchain, Bound, Genesis
<1>10. QED
  BY <1>7, <1>8, <1>9 DEF MaintenanceInv

LEMMA NothingOfTheInvChanges ==
  ASSUME MaintenanceInv, file' \in Chains, slot' \in 0 .. MaxSlot,
         UNCHANGED <<authorities, known, best, finalized, base, offchain, justified,
                     executed, voter>>
  PROVE  MaintenanceInv'
BY DEF MaintenanceInv, Structure, Tree, Genesis, BestExtendsFinalized, MaintenanceTypes,
       MaintenanceOffchain, Bound

LEMMA MaintenanceStep ==
  ASSUME MaintenanceInv, [MaintenanceNext]_maintenanceVars
  PROVE  MaintenanceInv'
<1>1. Structure /\ MaintenanceTypes
  BY DEF MaintenanceInv
<1>2. CASE UNCHANGED maintenanceVars
  BY <1>1, <1>2, NothingOfTheInvChanges
     DEF maintenanceVars, vars, Structure, MaintenanceTypes
<1>3. CASE SkipSlot /\ UNCHANGED <<executed, voter, file, commands>>
  <2>1. slot' \in 0 .. MaxSlot
    BY <1>1, <1>3, BoundAssumption DEF SkipSlot, Structure
  <2>2. QED
    BY <1>1, <1>3, <2>1, NothingOfTheInvChanges DEF SkipSlot, MaintenanceTypes
<1>4. ASSUME NEW n \in Nodes, ExportBlocks(n) PROVE MaintenanceInv'
  BY <1>1, <1>4, NothingOfTheInvChanges DEF ExportBlocks, vars, Structure
<1>5. QED
  BY <1>2, <1>3, <1>4, AuthorIndexed, ImportIndexed, RoundStep, FinalizeOnTopStep,
     RevertStep, PurgeStep, ImportBlocksStep DEF MaintenanceNext

LEMMA MaintenanceInvariant == MaintenanceSpec => []MaintenanceInv
BY InitialMaintenance, MaintenanceStep, PTL DEF MaintenanceSpec

-----------------------------------------------------------------------------
(* What follows from the invariant *)

LEMMA BoundVotersDoNotSplit ==
  ASSUME MaintenanceInv PROVE SplitOnlyByReset
<1> SUFFICES ASSUME \A v \in Range(authorities) : voter[v] = "bound",
                    NEW m \in Nodes, NEW n \in Nodes
             PROVE  \/ IsPrefix(finalized[m], finalized[n])
                    \/ IsPrefix(finalized[n], finalized[m])
  <2>1. \A v \in Range(authorities) : voter[v] # "bound" <=> ~(voter[v] = "bound")
    OBVIOUS
  <2>2. QED
    BY <2>1 DEF SplitOnlyByReset
<1>1. IsPrefix(finalized[m], justified) /\ IsPrefix(finalized[n], justified)
  BY DEF MaintenanceInv, Bound
<1>2. /\ finalized[m] \in Chains /\ finalized[n] \in Chains /\ justified \in Chains
      /\ Len(finalized[m]) \in Nat /\ Len(finalized[n]) \in Nat
  BY LenProperties DEF MaintenanceInv, Structure, Chains
<1>3. QED
  BY <1>1, <1>2, PrefixLinear DEF Chains

LEMMA ExecutedWrites ==
  ASSUME MaintenanceInv PROVE WrittenByExecuted
<1>1. ASSUME NEW n \in Nodes, NEW k \in Keys, offchain[n][k] # NoData
      PROVE  \E m \in SentIn(executed[n]) : m.key = k /\ m.message = offchain[n][k]
  <2>1. PICK c \in executed[n] : \E i \in 1 .. Len(SentByBlock(c)) :
          SentByBlock(c)[i].key = k /\ SentByBlock(c)[i].message = offchain[n][k]
    BY <1>1 DEF MaintenanceInv, MaintenanceOffchain, AuthenticIn
  <2>2. executed[n] \in SUBSET Chains
    BY DEF MaintenanceInv, MaintenanceTypes
  <2>3. \A i \in 1 .. Len(SentByBlock(c)) : SentByBlock(c)[i] \in SentIn(executed[n])
    BY <2>2, SentInElements
  <2>4. QED
    BY <2>1, <2>3
<1>2. QED
  BY <1>1 DEF WrittenByExecuted

LEMMA LostByCause ==
  ASSUME MaintenanceInv PROVE LostHasCause
<1> SUFFICES ASSUME NEW n \in Indexing,
                    NEW c \in {SubSeq(finalized[n], 1, i) : i \in 1 .. Len(finalized[n])},
                    NEW m \in Range(SentByBlock(c)),
                    offchain[n][m.key] # m.message, c \in executed[n]
             PROVE  \E other \in SentIn({d \in executed[n] : ~IsPrefix(d, finalized[n])}) :
                      other.key = m.key /\ other.message = offchain[n][m.key]
  BY DEF LostHasCause
<1> DEFINE f == finalized[n]
           abandoned == {d \in executed[n] : ~IsPrefix(d, f)}
<1>1. /\ n \in Nodes /\ f \in Chains /\ executed[n] \in SUBSET Chains
      /\ AuthenticIn(offchain[n], executed[n]) /\ KeptIn(offchain[n], executed[n])
  BY NodeAssumption DEF MaintenanceInv, Structure, MaintenanceTypes, MaintenanceOffchain
<1>2. c \in Chains /\ IsPrefix(c, f)
  <2>1. PICK i \in 1 .. Len(f) : c = SubSeq(f, 1, i)
    OBVIOUS
  <2>2. i \in 0 .. Len(f)
    BY <2>1, <1>1, LenProperties DEF Chains
  <2>3. QED
    BY <1>1, <2>1, <2>2, SubSeqPrefix DEF Chains
<1> HIDE DEF f
<1>3. PICK i \in 1 .. Len(SentByBlock(c)) : m = SentByBlock(c)[i]
  BY <1>2, SentByBlockResult, LenProperties DEF Range
<1>4. m.key \in Keys /\ offchain[n][m.key] # NoData
  BY <1>1, <1>2, <1>3, SentElement DEF KeptIn
<1>5. PICK w \in executed[n] : \E j \in 1 .. Len(SentByBlock(w)) :
        SentByBlock(w)[j].key = m.key /\ SentByBlock(w)[j].message = offchain[n][m.key]
  BY <1>1, <1>4 DEF AuthenticIn
<1>6. PICK j \in 1 .. Len(SentByBlock(w)) :
        SentByBlock(w)[j].key = m.key /\ SentByBlock(w)[j].message = offchain[n][m.key]
  BY <1>5
<1>7. w \in Chains
  BY <1>1
<1>8. ~IsPrefix(w, f)
  <2> SUFFICES ASSUME IsPrefix(w, f) PROVE FALSE
    OBVIOUS
  <2>1. Len(c) \in Nat /\ Len(w) \in Nat
    BY <1>2, <1>7, LenProperties DEF Chains
  <2>2. IsPrefix(c, w) \/ IsPrefix(w, c)
    BY <1>1, <1>2, <1>7, <2>1, PrefixLinear DEF Chains
  <2>3. PICK at \in 1 .. Len(StateOf(c).sent) : m = StateOf(c).sent[at]
    BY <1>2, <1>3, SentByBlockResult
  <2>4. PICK on \in 1 .. Len(StateOf(w).sent) : SentByBlock(w)[j] = StateOf(w).sent[on]
    BY <1>7, SentByBlockResult
  <2>5. StateOf(c).sent[at] = StateOf(w).sent[on]
    BY <1>2, <1>6, <1>7, <2>2, <2>3, <2>4, KeyTellsMessage
  <2>6. QED
    BY <1>6, <2>3, <2>4, <2>5
<1>9. SentByBlock(w)[j] \in SentIn(abandoned)
  <2>1. w \in abandoned /\ abandoned \in SUBSET Chains
    BY <1>1, <1>8
  <2> HIDE DEF abandoned
  <2>2. QED
    BY <2>1, SentInElements
<1>10. QED
  BY <1>6, <1>9 DEF f

-----------------------------------------------------------------------------

\* Reverting, purging and importing files keep the best block of a node above
\* its finalized block.
THEOREM CommandsKeepBestAboveFinalized == MaintenanceSpec => []BestExtendsFinalized
<1>1. MaintenanceInv => BestExtendsFinalized
  BY DEF MaintenanceInv
<1>2. QED
  BY <1>1, MaintenanceInvariant, PTL

\* Finalized chains split only when an authority has lost the state of its
\* voter, by revert or purge-chain, while a round was not finalized on it
\* (node/src/command.rs:92, 96).
THEOREM FinalityIsSafeUntilReset == MaintenanceSpec => []SplitOnlyByReset
BY BoundVotersDoNotSplit, MaintenanceInvariant, PTL

\* A revert takes back blocks and not their off-chain data, and yet the data
\* are always of a block that the node has executed since it was purged.
THEOREM OffchainOutlivesReverts == MaintenanceSpec => []WrittenByExecuted
BY ExecutedWrites, MaintenanceInvariant, PTL

\* A finalized message is lost on an indexing node only if its block came from
\* a file, or a block that was reverted or forked off wrote at its key.
THEOREM CommandsLoseOnlyByCause == MaintenanceSpec => []LostHasCause
BY LostByCause, MaintenanceInvariant, PTL

=============================================================================
