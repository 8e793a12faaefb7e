--------------------------- MODULE NolikChainProofs ---------------------------
(***************************************************************************)
(* Proofs about NolikChain, for any network, any authorities, any set of   *)
(* signed extrinsics and any length of the chain.                          *)
(***************************************************************************)
EXTENDS NolikChain, SequenceTheorems, TLAPS

\* The folds of the model.
Txs == INSTANCE NolikFolds WITH Op <- ApplyExtrinsic
Blocks == INSTANCE NolikFolds WITH Op <- ApplyBlock
Writes == INSTANCE NolikFolds WITH Op <- IndexMessage

-----------------------------------------------------------------------------
(* Prefixes *)

LEMMA PrefixElements ==
  ASSUME NEW S, NEW s \in Seq(S), NEW t \in Seq(S)
  PROVE  IsPrefix(s, t) <=> Len(s) <= Len(t) /\ \A i \in 1 .. Len(s) : s[i] = t[i]
<1>1. Len(s) \in Nat /\ Len(t) \in Nat
  BY LenProperties
<1>2. SubSeq(s, 1, Len(s)) = s
  BY SubSeqFull
<1>3. CASE Len(s) <= Len(t)
  <2>1. \A i \in 1 .. Len(s) : t[i] \in S
    BY <1>1, <1>3, ElementOfSeq
  <2>2. /\ SubSeq(t, 1, Len(s)) \in Seq(S)
        /\ Len(SubSeq(t, 1, Len(s))) = Len(s)
        /\ \A i \in 1 .. Len(s) : SubSeq(t, 1, Len(s))[i] = t[i]
    BY <1>1, <2>1, SubSeqProperties
  <2>3. s = SubSeq(t, 1, Len(s)) <=> \A i \in 1 .. Len(s) : s[i] = t[i]
    BY <2>2, SeqEqual
  <2>4. QED
    BY <1>2, <1>3, <2>3 DEF IsPrefix
<1>4. CASE ~(Len(s) <= Len(t))
  BY <1>4 DEF IsPrefix
<1>5. QED
  BY <1>3, <1>4

LEMMA PrefixReflexive ==
  ASSUME NEW S, NEW s \in Seq(S)
  PROVE  IsPrefix(s, s) /\ IsPrefix(<< >>, s)
<1>1. Len(s) \in Nat /\ << >> \in Seq(S) /\ Len(<< >>) = 0
  BY LenProperties, EmptySeq
<1>2. IsPrefix(s, s)
  BY <1>1, PrefixElements
<1>3. ASSUME NEW e \in Seq(S), Len(e) = 0 PROVE IsPrefix(e, s)
  <2>1. Len(e) <= Len(s) /\ \A i \in 1 .. Len(e) : e[i] = s[i]
    BY <1>1, <1>3
  <2>2. QED
    BY <2>1, PrefixElements
<1>4. QED
  BY <1>1, <1>2, <1>3

LEMMA PrefixTransitive ==
  ASSUME NEW S, NEW s \in Seq(S), NEW t \in Seq(S), NEW u \in Seq(S),
         IsPrefix(s, t), IsPrefix(t, u)
  PROVE  IsPrefix(s, u)
<1>1. Len(s) \in Nat /\ Len(t) \in Nat /\ Len(u) \in Nat
  BY LenProperties
<1>2. QED
  BY <1>1, PrefixElements

\* Two prefixes of one sequence lie on one line.
LEMMA PrefixLinear ==
  ASSUME NEW S, NEW s \in Seq(S), NEW t \in Seq(S), NEW u \in Seq(S),
         IsPrefix(s, u), IsPrefix(t, u), Len(s) <= Len(t)
  PROVE  IsPrefix(s, t)
<1>1. Len(s) \in Nat /\ Len(t) \in Nat /\ Len(u) \in Nat
  BY LenProperties
<1>2. QED
  BY <1>1, PrefixElements

LEMMA PrefixLength ==
  ASSUME NEW S, NEW s \in Seq(S), NEW t \in Seq(S), IsPrefix(s, t)
  PROVE  /\ Len(s) \in Nat /\ Len(t) \in Nat /\ Len(s) <= Len(t)
         /\ Len(s) = Len(t) => s = t
<1>1. Len(s) \in Nat /\ Len(t) \in Nat
  BY LenProperties
<1>2. QED
  BY <1>1, PrefixElements, SeqEqual

LEMMA PrefixOfAppend ==
  ASSUME NEW S, NEW s \in Seq(S), NEW t \in Seq(S), NEW x \in S
  PROVE  IsPrefix(s, Append(t, x)) <=> IsPrefix(s, t) \/ s = Append(t, x)
<1> DEFINE u == Append(t, x)
<1>1. Len(s) \in Nat /\ Len(t) \in Nat
  BY LenProperties
<1>2. /\ u \in Seq(S) /\ Len(u) = Len(t) + 1
      /\ \A i \in 1 .. Len(t) : u[i] = t[i]
  BY AppendProperties
<1> HIDE DEF u
<1>3. IsPrefix(u, u)
  BY <1>2, PrefixReflexive
<1>4. IsPrefix(s, t) => IsPrefix(s, u)
  BY <1>1, <1>2, PrefixElements
<1>5. ASSUME IsPrefix(s, u), Len(s) <= Len(t) PROVE IsPrefix(s, t)
  BY <1>1, <1>2, <1>5, PrefixElements
<1>6. ASSUME IsPrefix(s, u), ~(Len(s) <= Len(t)) PROVE s = u
  BY <1>1, <1>2, <1>6, PrefixLength
<1>7. QED
  BY <1>3, <1>4, <1>5, <1>6 DEF u

LEMMA SubSeqPrefix ==
  ASSUME NEW S, NEW s \in Seq(S), NEW n \in 0 .. Len(s)
  PROVE  /\ SubSeq(s, 1, n) \in Seq(S) /\ Len(SubSeq(s, 1, n)) = n
         /\ IsPrefix(SubSeq(s, 1, n), s)
         /\ \A t \in Seq(S) : IsPrefix(t, s) /\ Len(t) = n => t = SubSeq(s, 1, n)
<1> DEFINE r == SubSeq(s, 1, n)
<1>1. Len(s) \in Nat /\ n \in Nat /\ n <= Len(s) /\ \A i \in 1 .. n : s[i] \in S
  BY LenProperties, ElementOfSeq
<1>2. r \in Seq(S) /\ Len(r) = n /\ \A i \in 1 .. n : r[i] = s[i]
  BY <1>1, SubSeqProperties
<1> HIDE DEF r
<1>3. IsPrefix(r, s)
  BY <1>1, <1>2, PrefixElements
<1>4. ASSUME NEW t \in Seq(S), IsPrefix(t, s), Len(t) = n PROVE t = r
  <2>1. \A i \in 1 .. n : t[i] = s[i]
    BY <1>4, PrefixElements
  <2>2. QED
    BY <1>2, <1>4, <2>1, SeqEqual
<1>5. QED
  BY <1>2, <1>3, <1>4 DEF r

LEMMA FrontPrefix ==
  ASSUME NEW S, NEW s \in Seq(S), s # << >>
  PROVE  /\ Front(s) \in Seq(S) /\ Len(Front(s)) = Len(s) - 1 /\ Len(s) > 0
         /\ IsPrefix(Front(s), s)
         /\ Last(s) \in S /\ s = Append(Front(s), Last(s))
<1>1. Len(s) \in Nat /\ Len(s) > 0
  BY EmptySeq, LenProperties
<1>2. /\ Front(s) \in Seq(S) /\ Len(Front(s)) = Len(s) - 1
      /\ IsPrefix(Front(s), s)
  <2>1. Len(s) - 1 \in 0 .. Len(s)
    BY <1>1
  <2>2. QED
    BY <2>1, SubSeqPrefix DEF Front
<1>3. Last(s) \in S
  BY <1>1, ElementOfSeq DEF Last
<1>4. \A i \in 1 .. Len(s) - 1 : Front(s)[i] = s[i]
  BY <1>2, PrefixElements
<1> DEFINE t == Append(Front(s), Last(s))
<1>5. /\ t \in Seq(S) /\ Len(t) = Len(s)
      /\ \A i \in 1 .. Len(s) - 1 : t[i] = Front(s)[i]
      /\ t[Len(s)] = Last(s)
  BY <1>1, <1>2, <1>3, AppendProperties
<1> HIDE DEF t
<1>6. \A i \in 1 .. Len(s) : s[i] = t[i]
  BY <1>1, <1>4, <1>5 DEF Last
<1>7. s = t
  BY <1>5, <1>6, SeqEqual
<1>8. QED
  BY <1>1, <1>2, <1>3, <1>7 DEF t

-----------------------------------------------------------------------------
(* Chain states *)

Block == [slot : Nat, txs : Seq(Extrinsic)]
Chains == Seq(Block)
\* Every key is derived from the account that signed the call.
Sent == {m \in [account : Accounts, key : Keys,
                metadata : {md \in Metadata : MetadataFormed(md)},
                message : {m \in Bytes : MessageFormed(m)}] :
           m.key.account = m.account}
Database == [Keys -> Bytes \cup {NoData}]

\* The counter is the number of messages, and every key carries its position.
Counted(state) ==
  /\ state.counter = Len(state.sent)
  /\ \A i \in 1 .. Len(state.sent) : state.sent[i].key.counter = i - 1

States ==
  {state \in [counter : 0 .. MaxCounter, nonces : [Accounts -> Nat], sent : Seq(Sent)] :
     Counted(state)}

\* No nonce is taken back and no message forgotten or changed.
Grows(before, after) ==
  /\ \A a \in Accounts : before.nonces[a] <= after.nonces[a]
  /\ IsPrefix(before.sent, after.sent)

LEMMA ApplyAllIsFold ==
  ASSUME NEW state, NEW txs
  PROVE  ApplyAll(state, txs) = Txs!Fold(state, txs)
BY DEF ApplyAll, Txs!Fold, FoldLeft, Txs!FoldLeft, MapThenFoldSet, Txs!MapThenFoldSet,
       Max, Txs!Max

LEMMA StateOfIsFold ==
  ASSUME NEW chain
  PROVE  StateOf(chain) = Blocks!Fold(GenesisState, chain)
BY DEF StateOf, Blocks!Fold, FoldLeft, Blocks!FoldLeft, MapThenFoldSet,
       Blocks!MapThenFoldSet, Max, Blocks!Max

LEMMA StateOfAppend ==
  ASSUME NEW chain \in Chains, NEW block \in Block
  PROVE  StateOf(Append(chain, block)) = ApplyAll(StateOf(chain), block.txs)
<1>1. StateOf(Append(chain, block)) = ApplyBlock(StateOf(chain), block)
  BY StateOfIsFold, Blocks!FoldAppend DEF Chains
<1>2. QED
  BY <1>1 DEF ApplyBlock

LEMMA StateOfGenesis == StateOf(Genesis) = GenesisState
BY StateOfIsFold, Blocks!FoldEmpty DEF Genesis

LEMMA GrowsTransitive ==
  ASSUME NEW s \in States, NEW t \in States, NEW u \in States,
         Grows(s, t), Grows(t, u)
  PROVE  Grows(s, u)
<1>1. /\ s.sent \in Seq(Sent) /\ t.sent \in Seq(Sent) /\ u.sent \in Seq(Sent)
      /\ s.nonces \in [Accounts -> Nat] /\ t.nonces \in [Accounts -> Nat]
      /\ u.nonces \in [Accounts -> Nat]
  BY DEF States
<1>2. IsPrefix(s.sent, u.sent)
  BY <1>1, PrefixTransitive DEF Grows
<1>3. ASSUME NEW a \in Accounts PROVE s.nonces[a] <= u.nonces[a]
  <2>1. s.nonces[a] \in Nat /\ t.nonces[a] \in Nat /\ u.nonces[a] \in Nat
    BY <1>1
  <2>2. s.nonces[a] <= t.nonces[a] /\ t.nonces[a] <= u.nonces[a]
    BY DEF Grows
  <2>3. QED
    BY <2>1, <2>2
<1>4. QED
  BY <1>2, <1>3 DEF Grows

LEMMA GrowsReflexive ==
  ASSUME NEW s \in States PROVE Grows(s, s)
<1>1. s.sent \in Seq(Sent) /\ s.nonces \in [Accounts -> Nat]
  BY DEF States
<1>2. IsPrefix(s.sent, s.sent)
  BY <1>1, PrefixReflexive
<1>3. QED
  BY <1>1, <1>2 DEF Grows

\* One extrinsic: its nonce is consumed, and at most one message is added.
LEMMA ApplyExtrinsicResult ==
  ASSUME NEW s \in States, NEW tx \in Extrinsic
  PROVE  LET t == ApplyExtrinsic(s, tx) IN
         /\ t \in States /\ Grows(s, t)
         /\ t.nonces = [s.nonces EXCEPT ![tx.account] = @ + 1]
<1> DEFINE t == ApplyExtrinsic(s, tx)
           accepted == DispatchResult(tx.account, tx.metadata, tx.message, s.counter) = "Ok"
           applied == [s EXCEPT !.nonces[tx.account] = @ + 1]
           Record == [counter : 0 .. MaxCounter, nonces : [Accounts -> Nat], sent : Seq(Sent)]
<1>1. /\ s \in Record /\ s.nonces \in [Accounts -> Nat] /\ s.sent \in Seq(Sent)
      /\ s.counter \in 0 .. MaxCounter /\ Counted(s)
  BY DEF States
<1>2. /\ tx.account \in Accounts /\ tx.nonce \in Nat /\ tx.metadata \in Metadata
      /\ tx.message \in Bytes
  BY DEF Extrinsic
<1>3. /\ applied \in Record /\ applied.counter = s.counter /\ applied.sent = s.sent
      /\ applied.nonces = [s.nonces EXCEPT ![tx.account] = @ + 1]
  <2>1. [s.nonces EXCEPT ![tx.account] = @ + 1] \in [Accounts -> Nat]
    BY <1>1, <1>2
  <2>2. QED
    BY <1>1, <2>1
<1>4. \A a \in Accounts : s.nonces[a] <= applied.nonces[a]
  BY <1>1, <1>2, <1>3
<1> HIDE DEF applied
<1>5. CASE ~accepted
  <2>1. t = applied
    BY <1>5 DEF ApplyExtrinsic, applied
  <2>2. Counted(applied)
    BY <1>1, <1>3 DEF Counted
  <2>3. IsPrefix(s.sent, applied.sent)
    BY <1>1, <1>3, PrefixReflexive
  <2> HIDE DEF t
  <2>4. QED
    BY <1>3, <1>4, <2>1, <2>2, <2>3 DEF States, Grows, t
<1>6. CASE accepted
  <2>1. MessageFormed(tx.message) /\ MetadataFormed(tx.metadata) /\ ~Overflowed(s.counter)
    BY <1>6 DEF DispatchResult, CheckMessage
  <2>2. /\ WrappingSucc(s.counter) = s.counter + 1
        /\ WrappingSucc(s.counter) \in 0 .. MaxCounter
        /\ KeyOfNext(tx.account, s.counter) = [account |-> tx.account, counter |-> s.counter]
        /\ KeyOfNext(tx.account, s.counter) \in Keys
    BY <1>1, <1>2, <2>1, CounterAssumption
    DEF Overflowed, WrappingSucc, KeyOfNext, DerivedKey, Keys
  <2> DEFINE new == [account |-> tx.account, key |-> KeyOfNext(tx.account, s.counter),
                     metadata |-> tx.metadata, message |-> tx.message]
             long == Append(s.sent, new)
  <2>3. new \in Sent /\ new.key.counter = s.counter
    BY <1>2, <2>1, <2>2 DEF Sent
  <2>4. t = [applied EXCEPT !.counter = WrappingSucc(s.counter), !.sent = long]
    BY <1>3, <1>6 DEF ApplyExtrinsic, applied
  <2> HIDE DEF new
  <2>5. /\ long \in Seq(Sent) /\ Len(long) = Len(s.sent) + 1
        /\ \A i \in 1 .. Len(s.sent) : long[i] = s.sent[i]
        /\ long[Len(s.sent) + 1] = new
        /\ Len(s.sent) \in Nat
    BY <1>1, <2>3, AppendProperties, LenProperties
  <2> HIDE DEF t, long
  <2>6. /\ t \in Record /\ t.counter = s.counter + 1 /\ t.sent = long
        /\ t.nonces = applied.nonces
    BY <1>3, <2>2, <2>4, <2>5
  <2>7. Counted(t)
    <3>1. s.counter = Len(s.sent) /\ \A i \in 1 .. Len(s.sent) : s.sent[i].key.counter = i - 1
      BY <1>1 DEF Counted
    <3>2. ASSUME NEW i \in 1 .. Len(long) PROVE long[i].key.counter = i - 1
      <4>1. CASE i \in 1 .. Len(s.sent)
        BY <2>5, <3>1, <4>1
      <4>2. CASE i = Len(s.sent) + 1
        BY <2>3, <2>5, <3>1, <4>2
      <4>3. QED
        BY <2>5, <4>1, <4>2
    <3>3. QED
      BY <2>5, <2>6, <3>1, <3>2 DEF Counted
  <2>8. IsPrefix(s.sent, long)
    <3>1. Len(s.sent) <= Len(long)
      BY <2>5
    <3>2. QED
      BY <1>1, <2>5, <3>1, PrefixElements
  <2>9. QED
    BY <1>3, <1>4, <2>6, <2>7, <2>8 DEF States, Grows, t
<1>7. QED
  BY <1>5, <1>6

LEMMA ApplyAllResult ==
  ASSUME NEW s \in States, NEW txs \in Seq(Extrinsic)
  PROVE  ApplyAll(s, txs) \in States /\ Grows(s, ApplyAll(s, txs))
<1> DEFINE R == {t \in States : Grows(s, t)}
<1>1. s \in R
  BY GrowsReflexive
<1>2. ASSUME NEW t \in R, NEW tx \in Extrinsic PROVE ApplyExtrinsic(t, tx) \in R
  <2>1. ApplyExtrinsic(t, tx) \in States /\ Grows(t, ApplyExtrinsic(t, tx))
    BY ApplyExtrinsicResult
  <2>2. QED
    BY <2>1, GrowsTransitive
<1> HIDE DEF R
<1>3. Txs!Fold(s, txs) \in R
  BY <1>1, <1>2, Txs!FoldInvariant
<1>4. QED
  BY <1>3, ApplyAllIsFold DEF R

LEMMA GenesisStateType == GenesisState \in States
<1>1. GenesisState.sent = << >> /\ GenesisState.counter = 0
  BY DEF GenesisState
<1>2. GenesisState \in [counter : 0 .. MaxCounter, nonces : [Accounts -> Nat], sent : Seq(Sent)]
  BY CounterAssumption, EmptySeq DEF GenesisState
<1>3. Counted(GenesisState)
  BY <1>1, EmptySeq DEF Counted
<1>4. QED
  BY <1>2, <1>3 DEF States

LEMMA StateOfType ==
  ASSUME NEW chain \in Chains
  PROVE  StateOf(chain) \in States
<1>1. \A s \in States, b \in Block : ApplyBlock(s, b) \in States
  BY ApplyAllResult DEF ApplyBlock, Block
<1>2. Blocks!Fold(GenesisState, chain) \in States
  BY <1>1, GenesisStateType, Blocks!FoldInvariant DEF Chains
<1>3. QED
  BY <1>2, StateOfIsFold

\* The state of a chain grows from block to block.
LEMMA StateOfGrows ==
  ASSUME NEW c \in Chains, NEW d \in Chains, IsPrefix(c, d)
  PROVE  Grows(StateOf(c), StateOf(d))
<1> DEFINE T == {e \in Chains : IsPrefix(c, e) => Grows(StateOf(c), StateOf(e))}
<1>1. << >> \in T
  <2>1. << >> \in Seq(Block) /\ Len(<< >>) = 0
    BY EmptySeq
  <2>2. ASSUME NEW e \in Seq(Block), Len(e) = 0, IsPrefix(c, e) PROVE c = e
    <3>1. Len(c) \in Nat /\ Len(c) <= Len(e) /\ (Len(c) = Len(e) => c = e)
      BY <2>2, PrefixLength DEF Chains
    <3>2. QED
      BY <2>2, <3>1
  <2>3. QED
    BY <2>1, <2>2, StateOfType, GrowsReflexive DEF Chains
<1>2. ASSUME NEW e \in Seq(Block), e \in T, NEW b \in Block PROVE Append(e, b) \in T
  <2>1. Append(e, b) \in Chains
    BY AppendProperties DEF Chains
  <2>2. ASSUME IsPrefix(c, Append(e, b)) PROVE Grows(StateOf(c), StateOf(Append(e, b)))
    <3>1. CASE c = Append(e, b)
      BY <2>1, <3>1, StateOfType, GrowsReflexive
    <3>2. CASE c # Append(e, b)
      <4>1. IsPrefix(c, e)
        BY <2>2, <3>2, PrefixOfAppend DEF Chains
      <4>2. Grows(StateOf(c), StateOf(e))
        BY <1>2, <4>1
      <4>3. StateOf(e) \in States /\ StateOf(c) \in States /\ b.txs \in Seq(Extrinsic)
        BY StateOfType DEF Chains, Block
      <4>4. /\ StateOf(Append(e, b)) \in States
            /\ Grows(StateOf(e), StateOf(Append(e, b)))
        BY <4>3, ApplyAllResult, StateOfAppend DEF Chains
      <4>5. QED
        BY <4>2, <4>3, <4>4, GrowsTransitive
    <3>3. QED
      BY <3>1, <3>2
  <2>3. QED
    BY <2>1, <2>2
<1> HIDE DEF T
<1>3. d \in T
  BY <1>1, <1>2, Blocks!SeqInductionSet DEF Chains
<1>4. QED
  BY <1>3 DEF T

-----------------------------------------------------------------------------
(* The messages of a block, and what a node writes of them *)

\* SentByBlock(c) is what the last block of c adds to the messages.
LEMMA SentByBlockResult ==
  ASSUME NEW c \in Chains
  PROVE  /\ SentByBlock(c) \in Seq(Sent)
         /\ \A i \in 1 .. Len(SentByBlock(c)) :
              LET at == Len(StateOf(Front(c)).sent) + i IN
              /\ at \in 1 .. Len(StateOf(c).sent)
              /\ SentByBlock(c)[i] = StateOf(c).sent[at]
<1> DEFINE before == Len(StateOf(Front(c)).sent)
           sent == StateOf(c).sent
<1>1. Front(c) \in Chains
  <2>1. CASE c = << >>
    <3>1. Len(c) = 0
      BY <2>1, EmptySeq
    <3>2. Front(c) = << >>
      BY <3>1, SubSeqEmpty DEF Front
    <3>3. QED
      BY <3>2, EmptySeq DEF Chains
  <2>2. CASE c # << >>
    BY <2>2, FrontPrefix DEF Chains
  <2>3. QED
    BY <2>1, <2>2
<1>2. StateOf(c) \in States /\ StateOf(Front(c)) \in States
  BY <1>1, StateOfType
<1>3. sent \in Seq(Sent) /\ before \in Nat /\ Len(sent) \in Nat
  BY <1>2, LenProperties DEF States
<1> HIDE DEF before, sent
<1>4. \A i \in before + 1 .. Len(sent) : sent[i] \in Sent
  BY <1>3, ElementOfSeq
<1> DEFINE part == SubSeq(sent, before + 1, Len(sent))
<1>5. /\ part \in Seq(Sent)
      /\ Len(part) = IF before + 1 <= Len(sent) THEN Len(sent) - (before + 1) + 1 ELSE 0
      /\ \A i \in 1 .. Len(sent) - (before + 1) + 1 : part[i] = sent[before + 1 + i - 1]
  BY <1>3, <1>4, SubSeqProperties
<1>6. SentByBlock(c) = part
  BY DEF SentByBlock, before, sent
<1> HIDE DEF part
<1>7. ASSUME NEW i \in 1 .. Len(part)
      PROVE  before + i \in 1 .. Len(sent) /\ part[i] = sent[before + i]
  <2>1. i \in 1 .. Len(sent) - (before + 1) + 1 /\ before + 1 + i - 1 = before + i
    BY <1>3, <1>5
  <2>2. QED
    BY <1>3, <1>5, <2>1
<1>8. QED
  BY <1>5, <1>6, <1>7 DEF before, sent

\* Every message of a chain was sent by one of its blocks.
LEMMA SentBySomeBlock ==
  ASSUME NEW d \in Chains, NEW i \in 1 .. Len(StateOf(d).sent)
  PROVE  \E c \in Chains :
           /\ c # Genesis /\ IsPrefix(c, d)
           /\ Len(StateOf(Front(c)).sent) < i /\ i <= Len(StateOf(c).sent)
           /\ \E j \in 1 .. Len(SentByBlock(c)) : SentByBlock(c)[j] = StateOf(d).sent[i]
<1> DEFINE Found(e, k) ==
             \E c \in Chains :
               /\ c # Genesis /\ IsPrefix(c, e)
               /\ Len(StateOf(Front(c)).sent) < k /\ k <= Len(StateOf(c).sent)
               /\ \E j \in 1 .. Len(SentByBlock(c)) : SentByBlock(c)[j] = StateOf(e).sent[k]
           T == {e \in Chains : \A k \in 1 .. Len(StateOf(e).sent) : Found(e, k)}
<1>1. << >> \in T
  <2>1. Len(StateOf(<< >>).sent) = 0
    BY StateOfGenesis, EmptySeq DEF Genesis, GenesisState
  <2>2. QED
    BY <2>1, EmptySeq DEF Chains
<1>2. ASSUME NEW e \in Seq(Block), e \in T, NEW b \in Block PROVE Append(e, b) \in T
  <2> DEFINE f == Append(e, b)
  <2>1. f \in Chains /\ f # Genesis /\ IsPrefix(e, f) /\ IsPrefix(f, f) /\ e \in Chains
    <3>1. f \in Seq(Block) /\ f # << >> /\ e \in Seq(Block)
      BY AppendProperties
    <3>2. IsPrefix(f, f) /\ IsPrefix(e, e)
      BY <3>1, PrefixReflexive
    <3>3. IsPrefix(e, f)
      BY <3>2, PrefixOfAppend
    <3>4. QED
      BY <3>1, <3>2, <3>3 DEF Chains, Genesis
  <2>2. Front(f) = e
    <3>1. Front(f) \in Chains /\ f = Append(Front(f), Last(f)) /\ Last(f) \in Block
      BY <2>1, FrontPrefix DEF Chains, Genesis
    <3>2. QED
      BY <3>1, AppendInjective DEF Chains
  <2>3. StateOf(e) \in States /\ StateOf(f) \in States /\ Grows(StateOf(e), StateOf(f))
    BY <2>1, StateOfType, StateOfGrows
  <2> HIDE DEF f
  <2> DEFINE n == Len(StateOf(e).sent)
             m == Len(StateOf(f).sent)
  <2>4. /\ n \in Nat /\ m \in Nat /\ n <= m
        /\ \A k \in 1 .. n : StateOf(e).sent[k] = StateOf(f).sent[k]
    <3>1. StateOf(e).sent \in Seq(Sent) /\ StateOf(f).sent \in Seq(Sent)
      BY <2>3 DEF States
    <3>2. IsPrefix(StateOf(e).sent, StateOf(f).sent)
      BY <2>3 DEF Grows
    <3>3. QED
      BY <3>1, <3>2, PrefixElements, LenProperties
  <2>5. ASSUME NEW k \in 1 .. m PROVE Found(f, k)
    <3>1. CASE k <= n
      <4>1. k \in 1 .. n
        BY <2>4, <3>1
      <4>2. PICK c \in Chains :
              /\ c # Genesis /\ IsPrefix(c, e)
              /\ Len(StateOf(Front(c)).sent) < k /\ k <= Len(StateOf(c).sent)
              /\ \E j \in 1 .. Len(SentByBlock(c)) : SentByBlock(c)[j] = StateOf(e).sent[k]
        BY <1>2, <4>1
      <4>3. IsPrefix(c, f)
        BY <2>1, <4>2, PrefixTransitive DEF Chains
      <4>4. QED
        BY <2>4, <4>1, <4>2, <4>3
    <3>2. CASE ~(k <= n)
      <4>1. SentByBlock(f) = SubSeq(StateOf(f).sent, n + 1, m)
        BY <2>2 DEF SentByBlock
      <4>2. \A i2 \in n + 1 .. m : StateOf(f).sent[i2] \in Sent
        <5>1. StateOf(f).sent \in Seq(Sent)
          BY <2>3 DEF States
        <5>2. QED
          BY <2>4, <5>1, ElementOfSeq
      <4>3. n + 1 <= m /\ n + 1 \in Int /\ m \in Int
        BY <2>4, <3>2
      <4> HIDE DEF n, m
      <4>4. /\ Len(SentByBlock(f)) = m - (n + 1) + 1
            /\ \A j \in 1 .. m - (n + 1) + 1 :
                 SentByBlock(f)[j] = StateOf(f).sent[n + 1 + j - 1]
        BY <4>1, <4>2, <4>3, SubSeqProperties
      <4>5. k - n \in 1 .. m - (n + 1) + 1 /\ n + 1 + (k - n) - 1 = k
        BY <2>4, <3>2
      <4>6. k - n \in 1 .. Len(SentByBlock(f)) /\ SentByBlock(f)[k - n] = StateOf(f).sent[k]
        BY <4>4, <4>5
      <4>7. n < k /\ k <= m
        BY <2>4, <3>2
      <4>8. Len(StateOf(Front(f)).sent) < k /\ k <= Len(StateOf(f).sent)
        BY <2>2, <4>7 DEF n, m
      <4>9. QED
        BY <2>1, <4>6, <4>8
    <3>3. QED
      BY <3>1, <3>2
  <2>6. QED
    BY <2>1, <2>5 DEF f
<1> HIDE DEF T
<1>3. d \in T
  BY <1>1, <1>2, Blocks!SeqInductionSet DEF Chains
<1>4. QED
  BY <1>3 DEF T

\* Indexing a block leaves at a key what the block sent under it, or else what
\* was there before.
LEMMA IndexBlockResult ==
  ASSUME NEW db \in Database, NEW c \in Chains
  PROVE  /\ IndexBlock(db, c) \in Database
         /\ \A k \in Keys :
              \/ \E i \in 1 .. Len(SentByBlock(c)) :
                   /\ SentByBlock(c)[i].key = k
                   /\ SentByBlock(c)[i].message = IndexBlock(db, c)[k]
              \/ /\ \A i \in 1 .. Len(SentByBlock(c)) : SentByBlock(c)[i].key # k
                 /\ IndexBlock(db, c)[k] = db[k]
<1> DEFINE Written(ms, new) ==
             /\ new \in Database
             /\ \A k \in Keys :
                  \/ \E i \in 1 .. Len(ms) : ms[i].key = k /\ ms[i].message = new[k]
                  \/ /\ \A i \in 1 .. Len(ms) : ms[i].key # k
                     /\ new[k] = db[k]
           T == {ms \in Seq(Sent) : Written(ms, Writes!Fold(db, ms))}
<1>1. << >> \in T
  <2>1. << >> \in Seq(Sent) /\ Len(<< >>) = 0 /\ Writes!Fold(db, << >>) = db
    BY EmptySeq, Writes!FoldEmpty
  <2>2. ASSUME NEW e \in Seq(Sent), Len(e) = 0 PROVE Written(e, db)
    BY <2>2
  <2>3. QED
    BY <2>1, <2>2
<1>2. ASSUME NEW ms \in Seq(Sent), ms \in T, NEW m \in Sent PROVE Append(ms, m) \in T
  <2> DEFINE old == Writes!Fold(db, ms)
             new == Writes!Fold(db, Append(ms, m))
             long == Append(ms, m)
  <2>1. new = [old EXCEPT ![m.key] = m.message]
    BY Writes!FoldAppend DEF IndexMessage
  <2>2. Written(ms, old)
    BY <1>2
  <2>3. /\ long \in Seq(Sent) /\ Len(long) = Len(ms) + 1 /\ Len(ms) \in Nat
        /\ \A i \in 1 .. Len(ms) : long[i] = ms[i]
        /\ long[Len(ms) + 1] = m
    BY AppendProperties, LenProperties
  <2> HIDE DEF old, new, long
  <2>4. m.key \in Keys /\ m.message \in Bytes
    BY DEF Sent
  <2>5. new \in Database
    BY <2>1, <2>2, <2>4 DEF Database
  <2>6. ASSUME NEW k \in Keys
        PROVE  \/ \E i \in 1 .. Len(long) : long[i].key = k /\ long[i].message = new[k]
               \/ /\ \A i \in 1 .. Len(long) : long[i].key # k
                  /\ new[k] = db[k]
    <3>1. CASE k = m.key
      <4>1. new[k] = m.message
        BY <2>1, <2>2, <2>4, <3>1 DEF Database
      <4>2. Len(ms) + 1 \in 1 .. Len(long)
        BY <2>3
      <4>3. QED
        BY <2>3, <3>1, <4>1, <4>2
    <3>2. CASE k # m.key
      <4>1. new[k] = old[k]
        BY <2>1, <2>2, <2>4, <3>2 DEF Database
      <4>2. CASE \E i \in 1 .. Len(ms) : ms[i].key = k /\ ms[i].message = old[k]
        <5>1. PICK i \in 1 .. Len(ms) : ms[i].key = k /\ ms[i].message = old[k]
          BY <4>2
        <5>2. i \in 1 .. Len(long) /\ long[i] = ms[i]
          BY <2>3
        <5>3. QED
          BY <4>1, <5>1, <5>2
      <4>3. CASE (\A i \in 1 .. Len(ms) : ms[i].key # k) /\ old[k] = db[k]
        <5>1. ASSUME NEW i \in 1 .. Len(long) PROVE long[i].key # k
          <6>1. i \in 1 .. Len(ms) \/ i = Len(ms) + 1
            BY <2>3
          <6>2. QED
            BY <2>3, <3>2, <4>3, <6>1
        <5>2. QED
          BY <4>1, <4>3, <5>1
      <4>4. QED
        BY <2>2, <4>2, <4>3
    <3>3. QED
      BY <3>1, <3>2
  <2>7. QED
    BY <2>3, <2>5, <2>6 DEF long, new
<1>3. IndexBlock(db, c) = Writes!Fold(db, SentByBlock(c))
  BY DEF IndexBlock, Writes!Fold, FoldLeft, Writes!FoldLeft, MapThenFoldSet,
         Writes!MapThenFoldSet, Max, Writes!Max
<1> HIDE DEF T
<1>4. SentByBlock(c) \in T
  BY <1>1, <1>2, SentByBlockResult, Writes!SeqInductionSet
<1>5. QED
  BY <1>3, <1>4 DEF T

-----------------------------------------------------------------------------
(* The inductive invariant of the nodes.  The chains of a node are a tree;  *)
(* its finalized block lies on the blocks that GRANDPA has justified, and   *)
(* its best block on the finalized one.                                     *)

Tree(chains) ==
  /\ Genesis \in chains
  /\ \A c \in chains : \A i \in 0 .. Len(c) : SubSeq(c, 1, i) \in chains

Structure ==
  /\ authorities \in GenesisAuthorities /\ slot \in 0 .. MaxSlot
  /\ known \in [Nodes -> SUBSET Chains] /\ best \in [Nodes -> Chains]
  /\ finalized \in [Nodes -> Chains] /\ base \in [Nodes -> Chains] /\ justified \in Chains
  /\ offchain \in [Nodes -> Database]
  /\ \A n \in Nodes :
       /\ Tree(known[n])
       /\ best[n] \in known[n] /\ finalized[n] \in known[n] /\ base[n] \in known[n]
       /\ n \notin WarpNodes => base[n] = Genesis

Finality ==
  \A n \in Nodes : IsPrefix(finalized[n], best[n]) /\ IsPrefix(finalized[n], justified)

LEMMA GenesisChain ==
  /\ Genesis \in Chains /\ Len(Genesis) = 0
  /\ \A c \in Chains : IsPrefix(Genesis, c) /\ (Len(c) = 0 => c = Genesis)
                       /\ (IsPrefix(c, Genesis) => c = Genesis)
<1>1. Genesis \in Seq(Block) /\ Len(Genesis) = 0
  BY EmptySeq DEF Genesis
<1>2. ASSUME NEW c \in Seq(Block) PROVE IsPrefix(Genesis, c) /\ (Len(c) = 0 => c = Genesis)
  BY PrefixReflexive, EmptySeq DEF Genesis
<1>3. ASSUME NEW c \in Seq(Block), IsPrefix(c, Genesis) PROVE c = Genesis
  <2>1. Len(c) \in Nat /\ Len(c) <= 0
    BY <1>1, <1>3, PrefixLength
  <2>2. QED
    BY <1>2, <2>1
<1>4. QED
  BY <1>1, <1>2, <1>3 DEF Chains

LEMMA TreePrefix ==
  ASSUME NEW K \in SUBSET Chains, Tree(K), NEW c \in K, NEW p \in Chains, IsPrefix(p, c)
  PROVE  p \in K
<1>1. Len(p) \in 0 .. Len(c)
  BY PrefixLength DEF Chains
<1>2. p = SubSeq(c, 1, Len(p))
  BY <1>1, SubSeqPrefix DEF Chains
<1>3. QED
  BY <1>1, <1>2 DEF Tree

LEMMA TreeAdd ==
  ASSUME NEW K \in SUBSET Chains, Tree(K), NEW c \in Chains, c # Genesis, Front(c) \in K
  PROVE  Tree(K \cup {c})
<1>1. /\ Front(c) \in Seq(Block) /\ Len(Front(c)) = Len(c) - 1 /\ Len(c) \in Nat /\ Len(c) > 0
      /\ IsPrefix(Front(c), c)
  BY FrontPrefix, LenProperties DEF Chains, Genesis
<1>2. ASSUME NEW i \in 0 .. Len(c) PROVE SubSeq(c, 1, i) \in K \cup {c}
  <2>1. CASE i = Len(c)
    BY <2>1, SubSeqFull DEF Chains
  <2>2. CASE i # Len(c)
    <3>1. i <= Len(Front(c))
      BY <1>1, <2>2
    <3>2. /\ SubSeq(c, 1, i) \in Seq(Block) /\ Len(SubSeq(c, 1, i)) = i
          /\ IsPrefix(SubSeq(c, 1, i), c)
      BY SubSeqPrefix DEF Chains
    <3>3. IsPrefix(SubSeq(c, 1, i), Front(c))
      BY <1>1, <3>1, <3>2, PrefixLinear DEF Chains
    <3>4. QED
      BY <3>2, <3>3, TreePrefix DEF Chains
  <2>3. QED
    BY <2>1, <2>2
<1>3. QED
  BY <1>2 DEF Tree

\* The headers up to a justified block, which a warp sync fetches.
LEMMA TreeOfPrefixes ==
  ASSUME NEW c \in Chains
  PROVE  LET K == {SubSeq(c, 1, i) : i \in 0 .. Len(c)} IN
         /\ K \in SUBSET Chains /\ Tree(K) /\ c \in K
         /\ \A d \in K : IsPrefix(d, c)
<1> DEFINE K == {SubSeq(c, 1, i) : i \in 0 .. Len(c)}
<1>1. Len(c) \in Nat
  BY LenProperties DEF Chains
<1>2. ASSUME NEW i \in 0 .. Len(c)
      PROVE  SubSeq(c, 1, i) \in Chains /\ IsPrefix(SubSeq(c, 1, i), c)
  BY SubSeqPrefix DEF Chains
<1>3. ASSUME NEW p \in Chains, IsPrefix(p, c) PROVE p \in K
  <2>1. Len(p) \in 0 .. Len(c)
    BY <1>3, PrefixLength DEF Chains
  <2>2. p = SubSeq(c, 1, Len(p))
    BY <1>3, <2>1, SubSeqPrefix DEF Chains
  <2>3. QED
    BY <2>1, <2>2
<1>4. Genesis \in K /\ c \in K
  BY <1>3, GenesisChain, PrefixReflexive DEF Chains
<1>5. \A d \in K : d \in Chains /\ IsPrefix(d, c)
  BY <1>2
<1> HIDE DEF K
<1>6. ASSUME NEW d \in K, NEW i \in 0 .. Len(d) PROVE SubSeq(d, 1, i) \in K
  <2>1. SubSeq(d, 1, i) \in Chains /\ IsPrefix(SubSeq(d, 1, i), d)
    BY <1>5, SubSeqPrefix DEF Chains
  <2>2. IsPrefix(SubSeq(d, 1, i), c)
    BY <1>5, <2>1, PrefixTransitive DEF Chains
  <2>3. QED
    BY <1>3, <2>1, <2>2
<1>7. QED
  BY <1>4, <1>5, <1>6 DEF Tree, K

\* The block that a node builds.
LEMMA ProposedChain ==
  ASSUME Structure, NEW n \in Nodes, NEW pool \in SUBSET Extrinsic,
         NEW parent \in SelectChain(n), NEW txs \in SeqOf(pool, MaxBlockTxs)
  PROVE  LET c == Append(parent, [slot |-> slot, txs |-> txs]) IN
         /\ c \in Chains /\ c # Genesis /\ Front(c) = parent
         /\ parent \in known[n] /\ parent \in Chains /\ IsPrefix(parent, c)
         /\ IsPrefix(best[n], parent) /\ IsPrefix(best[n], c) /\ Len(c) > Len(best[n])
         /\ Len(c) = Len(parent) + 1 /\ c \notin known[n]
         /\ txs \in Seq(Extrinsic) /\ [slot |-> slot, txs |-> txs] \in Block
<1> DEFINE b == [slot |-> slot, txs |-> txs]
           c == Append(parent, b)
<1>1. /\ parent \in known[n] /\ IsPrefix(best[n], parent)
      /\ parent \in Seq(Block) /\ best[n] \in Seq(Block)
  BY DEF SelectChain, Structure, Chains
<1>2. txs \in Seq(Extrinsic)
  <2>1. PICK m \in 0 .. MaxBlockTxs : txs \in [1 .. m -> pool]
    BY DEF SeqOf
  <2>2. m \in Nat /\ txs \in [1 .. m -> Extrinsic]
    BY <2>1, BoundAssumption
  <2>3. QED
    BY <2>2, SeqDef
<1>3. b \in Block
  BY <1>2, BoundAssumption DEF Block, Structure
<1> HIDE DEF b
<1>4. c \in Seq(Block) /\ c # << >> /\ Len(c) = Len(parent) + 1
  BY <1>1, <1>3, AppendProperties
<1>5. IsPrefix(parent, c) /\ IsPrefix(best[n], c)
  BY <1>1, <1>3, PrefixReflexive, PrefixOfAppend
<1>6. Len(best[n]) \in Nat /\ Len(parent) \in Nat /\ Len(best[n]) <= Len(parent)
  BY <1>1, PrefixLength
<1>7. Front(c) = parent
  <2>1. Front(c) \in Seq(Block) /\ c = Append(Front(c), Last(c)) /\ Last(c) \in Block
    BY <1>4, FrontPrefix
  <2>2. QED
    BY <1>1, <1>3, <2>1, AppendInjective
<1>8. c \notin known[n]
  <2>1. ASSUME c \in known[n] PROVE Len(c) <= Len(parent)
    BY <1>5, <2>1 DEF SelectChain
  <2>2. QED
    BY <1>4, <1>6, <2>1
<1>9. QED
  BY <1>1, <1>2, <1>3, <1>4, <1>5, <1>6, <1>7, <1>8 DEF Chains, Genesis, b

LEMMA StoreStructure ==
  ASSUME Structure, NEW n \in Nodes, NEW c \in Chains, c # Genesis, Front(c) \in known[n],
         Store(n, c), slot' \in 0 .. MaxSlot
  PROVE  Structure'
<1>1. Tree(known[n] \cup {c})
  BY TreeAdd DEF Structure
<1>2. IndexBlock(offchain[n], c) \in Database
  BY IndexBlockResult DEF Structure
<1>3. /\ known' = [known EXCEPT ![n] = known[n] \cup {c}]
      /\ best' = [best EXCEPT ![n] = IF Len(c) > Len(best[n]) THEN c ELSE best[n]]
      /\ offchain' = [offchain EXCEPT
                        ![n] = IF n \in Indexing THEN IndexBlock(offchain[n], c)
                               ELSE offchain[n]]
      /\ UNCHANGED <<authorities, finalized, base, justified>>
  BY DEF Store, Structure
<1>4. /\ known' \in [Nodes -> SUBSET Chains] /\ best' \in [Nodes -> Chains]
      /\ offchain' \in [Nodes -> Database]
  BY <1>2, <1>3 DEF Structure
<1>5. ASSUME NEW m \in Nodes
      PROVE  /\ Tree(known'[m])
             /\ best'[m] \in known'[m] /\ finalized[m] \in known'[m] /\ base[m] \in known'[m]
  <2>1. CASE m = n
    BY <1>1, <1>3, <2>1 DEF Structure
  <2>2. CASE m # n
    BY <1>3, <2>2 DEF Structure
  <2>3. QED
    BY <2>1, <2>2
<1>6. Structure'
  BY <1>3, <1>4, <1>5 DEF Structure, Tree, Genesis
<1>7. QED
  BY <1>6

-----------------------------------------------------------------------------
(* Steps *)

LEMMA InitialStructure == Init => Structure /\ Finality
<1> SUFFICES ASSUME Init PROVE Structure /\ Finality
  OBVIOUS
<1>1. Genesis \in Chains /\ Len(Genesis) = 0 /\ IsPrefix(Genesis, Genesis)
  BY GenesisChain
<1>2. Tree({Genesis})
  <2>1. \A i \in 0 .. Len(Genesis) : SubSeq(Genesis, 1, i) = Genesis
    BY <1>1, SubSeqEmpty DEF Genesis
  <2>2. QED
    BY <2>1 DEF Tree
<1>3. [k \in Keys |-> NoData] \in Database
  BY DEF Database
<1>4. 0 \in 0 .. MaxSlot
  BY BoundAssumption
<1>5. Structure
  BY <1>1, <1>2, <1>3, <1>4 DEF Init, Structure
<1>6. Finality
  BY <1>1 DEF Init, Finality
<1>7. QED
  BY <1>5, <1>6

LEMMA ProposeStep ==
  ASSUME Structure, NEW n \in Nodes, NEW pool \in SUBSET Extrinsic,
         SlotOf(n), Propose(n, pool)
  PROVE  /\ Structure'
         /\ BestExtendsFinalized => BestExtendsFinalized'
         /\ Finality => Finality'
<1>1. PICK parent \in SelectChain(n), txs \in SeqOf(pool, MaxBlockTxs) :
        Store(n, Append(parent, [slot |-> slot, txs |-> txs]))
  BY DEF Propose
<1> DEFINE c == Append(parent, [slot |-> slot, txs |-> txs])
<1>2. /\ c \in Chains /\ c # Genesis /\ Front(c) \in known[n]
      /\ IsPrefix(best[n], c) /\ Len(c) > Len(best[n])
  BY ProposedChain
<1> HIDE DEF c
<1>3. slot' \in 0 .. MaxSlot
  BY BoundAssumption DEF SlotOf, Structure
<1>4. Store(n, c)
  BY <1>1 DEF c
<1>5. Structure'
  BY <1>2, <1>3, <1>4, StoreStructure
<1>6. finalized' = finalized /\ justified' = justified
  BY <1>4 DEF Store
<1>7. ASSUME NEW m \in Nodes, IsPrefix(finalized[m], best[m])
      PROVE  IsPrefix(finalized'[m], best'[m])
  <2>1. CASE m = n
    <3>1. best'[m] = c
      BY <1>2, <1>4, <2>1 DEF Store, Structure
    <3>2. /\ finalized[m] \in Seq(Block) /\ best[m] \in Seq(Block) /\ c \in Seq(Block)
      BY <1>2 DEF Structure, Chains
    <3>3. IsPrefix(finalized[m], c)
      BY <1>2, <1>7, <2>1, <3>2, PrefixTransitive
    <3>4. QED
      BY <1>6, <3>1, <3>3
  <2>2. CASE m # n
    <3>1. best'[m] = best[m]
      BY <1>4, <2>2 DEF Store, Structure
    <3>2. QED
      BY <1>6, <1>7, <3>1
  <2>3. QED
    BY <2>1, <2>2
<1>8. QED
  BY <1>5, <1>6, <1>7 DEF Finality, BestExtendsFinalized

LEMMA ImportStep ==
  ASSUME Structure, NEW n \in Nodes, Import(n)
  PROVE  /\ Structure'
         /\ BestExtendsFinalized => BestExtendsFinalized'
         /\ Finality => Finality'
<1>1. PICK c \in (UNION {known[m] : m \in Nodes \ {n}}) \ known[n] :
        /\ Front(c) \in known[n]
        /\ Len(c) > Len(best[n]) => IsPrefix(finalized[n], c)
        /\ Store(n, c) /\ UNCHANGED slot
  BY DEF Import
<1>2. c \in Chains /\ c # Genesis
  <2>1. PICK m \in Nodes : c \in known[m]
    OBVIOUS
  <2>2. QED
    BY <2>1 DEF Structure, Tree
<1>3. Structure'
  BY <1>1, <1>2, StoreStructure DEF Structure
<1>4. finalized' = finalized /\ justified' = justified
  BY <1>1 DEF Store
<1>5. ASSUME NEW m \in Nodes, IsPrefix(finalized[m], best[m])
      PROVE  IsPrefix(finalized'[m], best'[m])
  BY <1>1, <1>5 DEF Store, Structure
<1>6. QED
  BY <1>3, <1>4, <1>5 DEF Finality, BestExtendsFinalized

LEMMA FinalityRoundStep ==
  ASSUME Structure, Finality, FinalityRound
  PROVE  Structure' /\ Finality'
<1>1. PICK c \in UNION {known[n] : n \in Nodes} :
        /\ IsStrictPrefix(justified, c) /\ justified' = c
        /\ UNCHANGED <<authorities, slot, known, best, finalized, base, offchain>>
  BY DEF FinalityRound
<1>2. c \in Chains /\ IsPrefix(justified, c)
  BY <1>1 DEF Structure, IsStrictPrefix
<1>3. Structure'
  BY <1>1, <1>2 DEF Structure, Tree, Genesis
<1>4. ASSUME NEW m \in Nodes PROVE IsPrefix(finalized[m], c)
  BY <1>2, PrefixTransitive DEF Finality, Structure, Chains
<1>5. QED
  BY <1>1, <1>3, <1>4 DEF Finality

LEMMA FinalizeStep ==
  ASSUME Structure, NEW n \in Nodes, Finalize(n)
  PROVE  /\ Structure'
         /\ BestExtendsFinalized => BestExtendsFinalized'
         /\ Finality => Finality'
<1>1. /\ justified \in known[n]
      /\ finalized' = [finalized EXCEPT ![n] = justified]
      /\ best' = [best EXCEPT ![n] = IF IsPrefix(justified, best[n]) THEN best[n] ELSE justified]
      /\ UNCHANGED <<authorities, slot, known, base, offchain, justified>>
  BY DEF Finalize, Structure
<1>2. IsPrefix(justified, justified)
  BY PrefixReflexive DEF Structure, Chains
<1>3. Structure'
  BY <1>1 DEF Structure, Tree, Genesis
<1>4. ASSUME NEW m \in Nodes
      PROVE  /\ IsPrefix(finalized[m], best[m]) => IsPrefix(finalized'[m], best'[m])
             /\ IsPrefix(finalized[m], justified) => IsPrefix(finalized'[m], justified')
  BY <1>1, <1>2 DEF Structure
<1>5. QED
  BY <1>3, <1>4 DEF Finality, BestExtendsFinalized

LEMMA WarpSyncStep ==
  ASSUME Structure, Finality, NEW n \in Nodes, WarpSync(n)
  PROVE  Structure' /\ Finality'
<1> DEFINE K == {SubSeq(justified, 1, i) : i \in 0 .. Len(justified)}
<1>1. K \in SUBSET Chains /\ Tree(K) /\ justified \in K
  BY TreeOfPrefixes DEF Structure
<1>2. /\ n \in WarpNodes
      /\ known' = [known EXCEPT ![n] = K]
      /\ finalized' = [finalized EXCEPT ![n] = justified]
      /\ best' = [best EXCEPT ![n] = justified]
      /\ base' = [base EXCEPT ![n] = justified]
      /\ UNCHANGED <<authorities, slot, offchain, justified>>
  BY DEF WarpSync
<1> HIDE DEF K
<1>3. IsPrefix(justified, justified)
  BY PrefixReflexive DEF Structure, Chains
<1>4. Structure'
  BY <1>1, <1>2 DEF Structure, Tree, Genesis
<1>5. ASSUME NEW m \in Nodes
      PROVE  IsPrefix(finalized'[m], best'[m]) /\ IsPrefix(finalized'[m], justified')
  BY <1>2, <1>3 DEF Structure, Finality
<1>6. QED
  BY <1>4, <1>5 DEF Finality

LEMMA SpreadStep ==
  ASSUME Structure, Finality, Spread
  PROVE  Structure' /\ Finality'
<1>1. CASE SkipSlot
  <2>1. slot' \in 0 .. MaxSlot
    BY <1>1, BoundAssumption DEF SkipSlot, Structure
  <2>2. QED
    BY <1>1, <2>1 DEF SkipSlot, Structure, Finality, Tree, Genesis
<1>2. QED
  BY <1>1, FinalityRoundStep, ImportStep, FinalizeStep, WarpSyncStep DEF Spread

LEMMA Unchanged ==
  ASSUME Structure, Finality, UNCHANGED vars
  PROVE  Structure' /\ Finality'
BY DEF vars, Structure, Finality, Tree, Genesis

\* A step of the network, whose authors choose from some pool.  The clients of
\* NolikClient add to that pool.
NetworkStep(pool) == Spread \/ \E n \in Nodes : SlotOf(n) /\ Propose(n, pool)

LEMMA NetworkStructure ==
  ASSUME Structure, Finality, NEW pool \in SUBSET Extrinsic, NetworkStep(pool)
  PROVE  Structure' /\ Finality'
BY SpreadStep, ProposeStep DEF NetworkStep

LEMMA NextStep ==
  ASSUME Next
  PROVE  Signed \in SUBSET Extrinsic /\ NetworkStep(Signed)
BY SignedAssumption DEF Next, Author, NetworkStep

LEMMA StructureInvariant == Spec => [](Structure /\ Finality)
<1>1. Init => Structure /\ Finality
  BY InitialStructure
<1>2. Structure /\ Finality /\ [Next]_vars => Structure' /\ Finality'
  BY NextStep, NetworkStructure, Unchanged
<1>3. QED
  BY <1>1, <1>2, PTL DEF Spec

-----------------------------------------------------------------------------

\* The chains of every node are a tree, its best, finalized and warp blocks are
\* among them, and its off-chain database holds messages under keys.
THEOREM TypeCorrect == Spec => []TypeOK
<1>1. Structure => TypeOK
  <2> SUFFICES ASSUME Structure PROVE TypeOK
    OBVIOUS
  <2>1. ASSUME NEW n \in Nodes, NEW c \in known[n], c # Genesis PROVE Front(c) \in known[n]
    <3>1. c \in Seq(Block) /\ known[n] \in SUBSET Chains
      BY DEF Structure, Chains
    <3>2. Len(c) - 1 \in 0 .. Len(c)
      BY <2>1, <3>1, FrontPrefix, LenProperties DEF Genesis
    <3>3. QED
      BY <3>2 DEF Structure, Tree, Front
  <2>2. QED
    BY <2>1 DEF TypeOK, Structure, Tree, Database
<1>2. QED
  BY <1>1, StructureInvariant, PTL

\* Whatever forks a node imports after the vote, its best block stays above
\* its finalized block.
THEOREM BestStaysAboveFinalized == Spec => []BestExtendsFinalized
<1>1. Finality => BestExtendsFinalized
  BY DEF Finality, BestExtendsFinalized
<1>2. QED
  BY <1>1, StructureInvariant, PTL

-----------------------------------------------------------------------------
(* The off-chain data.  What is there was written by a block that the node  *)
(* executed, and no key that such a block wrote is ever empty again.        *)

ExecutedOf(chains, from) == {c \in chains : ~IsPrefix(c, from)}

AuthenticIn(db, chains) ==
  \A k \in Keys : db[k] # NoData =>
    \E c \in chains : \E i \in 1 .. Len(SentByBlock(c)) :
      SentByBlock(c)[i].key = k /\ SentByBlock(c)[i].message = db[k]

KeptIn(db, chains) ==
  \A c \in chains : \A i \in 1 .. Len(SentByBlock(c)) : db[SentByBlock(c)[i].key] # NoData

Offchain ==
  /\ \A n \in Nodes : AuthenticIn(offchain[n], ExecutedOf(known[n], base[n]))
  /\ \A n \in Indexing : KeptIn(offchain[n], ExecutedOf(known[n], base[n]))

LEMMA SentInElements ==
  ASSUME NEW C \in SUBSET Chains, NEW m
  PROVE  m \in SentIn(C) <=>
           \E c \in C : \E i \in 1 .. Len(SentByBlock(c)) : m = SentByBlock(c)[i]
<1>1. \A c \in C : DOMAIN SentByBlock(c) = 1 .. Len(SentByBlock(c))
  BY SentByBlockResult, LenProperties
<1>2. QED
  BY <1>1 DEF SentIn, Range

LEMMA SentElement ==
  ASSUME NEW c \in Chains, NEW i \in 1 .. Len(SentByBlock(c))
  PROVE  /\ SentByBlock(c)[i].key \in Keys /\ SentByBlock(c)[i].message \in Bytes
         /\ SentByBlock(c)[i] \in Sent
         /\ SentByBlock(c)[i].account = SentByBlock(c)[i].key.account
<1>1. SentByBlock(c)[i] \in Sent
  BY SentByBlockResult, ElementOfSeq
<1>2. QED
  BY <1>1 DEF Sent

LEMMA IndexBlockOffchain ==
  ASSUME NEW db \in Database, NEW C \in SUBSET Chains, NEW c \in Chains
  PROVE  /\ AuthenticIn(db, C) => AuthenticIn(IndexBlock(db, c), C \cup {c})
         /\ KeptIn(db, C) => KeptIn(IndexBlock(db, c), C \cup {c})
<1> DEFINE new == IndexBlock(db, c)
<1>1. \A k \in Keys :
        \/ \E i \in 1 .. Len(SentByBlock(c)) :
             SentByBlock(c)[i].key = k /\ SentByBlock(c)[i].message = new[k]
        \/ /\ \A i \in 1 .. Len(SentByBlock(c)) : SentByBlock(c)[i].key # k
           /\ new[k] = db[k]
  BY IndexBlockResult
<1> HIDE DEF new
<1>2. ASSUME AuthenticIn(db, C) PROVE AuthenticIn(new, C \cup {c})
  BY <1>1, <1>2 DEF AuthenticIn
<1>3. ASSUME KeptIn(db, C) PROVE KeptIn(new, C \cup {c})
  <2> SUFFICES ASSUME NEW d \in C \cup {c}, NEW i \in 1 .. Len(SentByBlock(d))
               PROVE  new[SentByBlock(d)[i].key] # NoData
    BY DEF KeptIn
  <2> DEFINE k == SentByBlock(d)[i].key
  <2>1. k \in Keys
    BY SentElement
  <2>2. CASE \E j \in 1 .. Len(SentByBlock(c)) :
               SentByBlock(c)[j].key = k /\ SentByBlock(c)[j].message = new[k]
    BY <2>2, SentElement, NoDataAssumption
  <2>3. CASE (\A j \in 1 .. Len(SentByBlock(c)) : SentByBlock(c)[j].key # k) /\ new[k] = db[k]
    <3>1. d \in C
      BY <2>3
    <3>2. QED
      BY <1>3, <2>3, <3>1 DEF KeptIn
  <2>4. QED
    BY <1>1, <2>1, <2>2, <2>3
<1>4. QED
  BY <1>2, <1>3 DEF new

LEMMA OffchainIsAuthentic ==
  ASSUME Structure, Offchain PROVE OffchainAuthentic
<1>1. \A n \in Nodes : ExecutedOf(known[n], base[n]) \in SUBSET Chains
  BY DEF ExecutedOf, Structure
<1>2. ASSUME NEW n \in Nodes, NEW k \in Keys, offchain[n][k] # NoData
      PROVE  \E m \in SentIn(ExecutedOf(known[n], base[n])) :
               m.key = k /\ m.account = k.account /\ m.message = offchain[n][k]
  <2>1. PICK c \in ExecutedOf(known[n], base[n]) : \E i \in 1 .. Len(SentByBlock(c)) :
          SentByBlock(c)[i].key = k /\ SentByBlock(c)[i].message = offchain[n][k]
    BY <1>2 DEF Offchain, AuthenticIn
  <2>2. \A i \in 1 .. Len(SentByBlock(c)) :
          /\ SentByBlock(c)[i] \in SentIn(ExecutedOf(known[n], base[n]))
          /\ SentByBlock(c)[i].account = SentByBlock(c)[i].key.account
    BY <1>1, SentInElements, SentElement
  <2>3. QED
    BY <2>1, <2>2
<1>3. QED
  BY <1>2 DEF OffchainAuthentic, ExecutedOf

\* A node executes a block that it did not have: it is not one of the blocks
\* that a warp sync brought, because all of these are there.
LEMMA StoreOffchain ==
  ASSUME Structure, Offchain, NEW n \in Nodes, NEW c \in Chains, c \notin known[n],
         Store(n, c)
  PROVE  Offchain'
<1>1. /\ known' = [known EXCEPT ![n] = known[n] \cup {c}]
      /\ offchain' = [offchain EXCEPT
                        ![n] = IF n \in Indexing THEN IndexBlock(offchain[n], c)
                               ELSE offchain[n]]
      /\ base' = base
  BY DEF Store, Structure
<1>2. ~IsPrefix(c, base[n])
  BY TreePrefix DEF Structure
<1>3. ExecutedOf(known'[n], base'[n]) = ExecutedOf(known[n], base[n]) \cup {c}
  BY <1>1, <1>2 DEF ExecutedOf, Structure
<1>4. \A m \in Nodes : m # n => /\ ExecutedOf(known'[m], base'[m]) = ExecutedOf(known[m], base[m])
                                /\ offchain'[m] = offchain[m]
  BY <1>1 DEF Structure
<1>5. offchain'[n] = IF n \in Indexing THEN IndexBlock(offchain[n], c) ELSE offchain[n]
  BY <1>1 DEF Structure
<1>6. offchain[n] \in Database /\ ExecutedOf(known[n], base[n]) \in SUBSET Chains
  BY DEF Structure, ExecutedOf
<1>7. AuthenticIn(offchain'[n], ExecutedOf(known'[n], base'[n]))
  <2>1. AuthenticIn(offchain[n], ExecutedOf(known[n], base[n]))
    BY DEF Offchain
  <2>2. CASE n \in Indexing
    BY <1>3, <1>5, <1>6, <2>1, <2>2, IndexBlockOffchain
  <2>3. CASE n \notin Indexing
    BY <1>3, <1>5, <2>1, <2>3 DEF AuthenticIn
  <2>4. QED
    BY <2>2, <2>3
<1>8. n \in Indexing => KeptIn(offchain'[n], ExecutedOf(known'[n], base'[n]))
  BY <1>3, <1>5, <1>6, IndexBlockOffchain DEF Offchain
<1>9. \A m \in Indexing : m \in Nodes
  BY NodeAssumption
<1>10. QED
  BY <1>4, <1>7, <1>8, <1>9 DEF Offchain

LEMMA InitialOffchain == Init => Offchain
<1> SUFFICES ASSUME Init PROVE Offchain
  OBVIOUS
<1>1. \A n \in Nodes : ExecutedOf(known[n], base[n]) = {}
  BY GenesisChain DEF Init, ExecutedOf
<1>2. \A n \in Nodes, k \in Keys : offchain[n][k] = NoData
  BY DEF Init
<1>3. QED
  BY <1>1, <1>2, NodeAssumption DEF Offchain, AuthenticIn, KeptIn

LEMMA WarpSyncOffchain ==
  ASSUME Structure, Offchain, NEW n \in Nodes, WarpSync(n)
  PROVE  Offchain'
<1>1. /\ known[n] = {Genesis} /\ offchain' = offchain
      /\ known' = [known EXCEPT ![n] = {SubSeq(justified, 1, i) : i \in 0 .. Len(justified)}]
      /\ base' = [base EXCEPT ![n] = justified]
  BY DEF WarpSync
<1>2. ExecutedOf(known[n], base[n]) = {}
  BY <1>1, GenesisChain DEF ExecutedOf, Structure
<1>3. ExecutedOf(known'[n], base'[n]) = {}
  <2>1. \A d \in known'[n] : IsPrefix(d, base'[n])
    BY <1>1, TreeOfPrefixes DEF Structure
  <2>2. QED
    BY <2>1 DEF ExecutedOf
<1>4. \A m \in Nodes : ExecutedOf(known'[m], base'[m]) = ExecutedOf(known[m], base[m])
  <2>1. \A m \in Nodes : m # n => known'[m] = known[m] /\ base'[m] = base[m]
    BY <1>1 DEF Structure
  <2>2. QED
    BY <1>2, <1>3, <2>1
<1>5. QED
  BY <1>1, <1>4, NodeAssumption DEF Offchain

LEMMA SpreadOffchain ==
  ASSUME Structure, Offchain, Spread
  PROVE  Offchain'
<1>1. ASSUME known' = known, base' = base, offchain' = offchain PROVE Offchain'
  BY <1>1 DEF Offchain
<1>2. ASSUME NEW n \in Nodes, Import(n) PROVE Offchain'
  <2>1. PICK c \in (UNION {known[m] : m \in Nodes \ {n}}) \ known[n] : Store(n, c)
    BY <1>2 DEF Import
  <2>2. c \in Chains /\ c \notin known[n]
    BY DEF Structure
  <2>3. QED
    BY <2>1, <2>2, StoreOffchain
<1>3. QED
  BY <1>1, <1>2, WarpSyncOffchain DEF Spread, SkipSlot, FinalityRound, Finalize

LEMMA ProposeOffchain ==
  ASSUME Structure, Offchain, NEW n \in Nodes, NEW pool \in SUBSET Extrinsic,
         Propose(n, pool)
  PROVE  Offchain'
<1>1. PICK parent \in SelectChain(n), txs \in SeqOf(pool, MaxBlockTxs) :
        Store(n, Append(parent, [slot |-> slot, txs |-> txs]))
  BY DEF Propose
<1>2. /\ Append(parent, [slot |-> slot, txs |-> txs]) \in Chains
      /\ Append(parent, [slot |-> slot, txs |-> txs]) \notin known[n]
  BY ProposedChain
<1>3. QED
  BY <1>1, <1>2, StoreOffchain

LEMMA NetworkOffchain ==
  ASSUME Structure, Offchain, NEW pool \in SUBSET Extrinsic, NetworkStep(pool)
  PROVE  Offchain'
BY SpreadOffchain, ProposeOffchain DEF NetworkStep

LEMMA OffchainInvariant == Spec => []Offchain
<1>1. Init => Offchain
  BY InitialOffchain
<1>2. Structure /\ Offchain /\ [Next]_vars => Offchain'
  <2> SUFFICES ASSUME Structure, Offchain, [Next]_vars PROVE Offchain'
    OBVIOUS
  <2>1. CASE UNCHANGED vars
    BY <2>1 DEF vars, Offchain
  <2>2. QED
    BY <2>1, NextStep, NetworkOffchain
<1>3. QED
  BY <1>1, <1>2, StructureInvariant, PTL DEF Spec

\* What a node's off-chain storage holds at a key was sent, under that key and
\* in a call signed by the account in it, in a block that the node executed:
\* lib.rs:62 "unique key" keeps the accounts apart on every fork.
THEOREM OffchainIsFromTheAccount == Spec => []OffchainAuthentic
<1>1. Structure /\ Offchain => OffchainAuthentic
  BY OffchainIsAuthentic
<1>2. QED
  BY <1>1, StructureInvariant, OffchainInvariant, PTL

\* On one line of blocks the counter in a key tells the message.
LEMMA KeyTellsMessage ==
  ASSUME NEW c \in Chains, NEW d \in Chains, IsPrefix(c, d) \/ IsPrefix(d, c),
         NEW i \in 1 .. Len(StateOf(c).sent), NEW j \in 1 .. Len(StateOf(d).sent),
         StateOf(c).sent[i].key = StateOf(d).sent[j].key
  PROVE  StateOf(c).sent[i] = StateOf(d).sent[j]
<1>1. StateOf(c) \in States /\ StateOf(d) \in States
  BY StateOfType
<1>2. i = j
  <2>1. Counted(StateOf(c)) /\ Counted(StateOf(d))
    BY <1>1 DEF States
  <2>2. StateOf(c).sent[i].key.counter = i - 1 /\ StateOf(d).sent[j].key.counter = j - 1
    BY <2>1 DEF Counted
  <2>3. i \in Int /\ j \in Int /\ i - 1 = j - 1
    BY <2>2
  <2>4. QED
    BY <2>3
<1>3. StateOf(c).sent \in Seq(Sent) /\ StateOf(d).sent \in Seq(Sent)
  BY <1>1 DEF States
<1>4. IsPrefix(StateOf(c).sent, StateOf(d).sent) \/ IsPrefix(StateOf(d).sent, StateOf(c).sent)
  BY StateOfGrows DEF Grows
<1>5. QED
  BY <1>2, <1>3, <1>4, PrefixElements

\* A finalized message that a node executed is under its key, or a block off
\* the finalized chain wrote there.
LEMMA LostByFork ==
  ASSUME Structure, Offchain PROVE LostOnlyByFork
<1> SUFFICES ASSUME NEW n \in Indexing, NEW m \in Readable(n),
                    offchain[n][m.key] # m.message
             PROVE  \E other \in SentIn({c \in known[n] : /\ ~IsPrefix(c, finalized[n])
                                                          /\ ~IsPrefix(finalized[n], c)}) :
                      other.key = m.key /\ other.message = offchain[n][m.key]
  BY DEF LostOnlyByFork
<1> DEFINE f == finalized[n]
           abandoned == {c \in known[n] : ~IsPrefix(c, f) /\ ~IsPrefix(f, c)}
<1>1. /\ n \in Nodes /\ f \in Chains /\ f \in known[n] /\ base[n] \in Chains
      /\ known[n] \in SUBSET Chains /\ Tree(known[n])
  BY NodeAssumption DEF Structure
<1> HIDE DEF f
<1>2. PICK i \in Len(StateOf(base[n]).sent) + 1 .. Len(StateOf(f).sent) :
        m = StateOf(f).sent[i]
  BY DEF Readable, f
<1>3. Len(StateOf(f).sent) \in Nat /\ Len(StateOf(base[n]).sent) \in Nat
  BY <1>1, StateOfType, LenProperties DEF States
<1>4. i \in 1 .. Len(StateOf(f).sent)
  BY <1>2, <1>3
<1>5. PICK c \in Chains :
        /\ c # Genesis /\ IsPrefix(c, f)
        /\ i <= Len(StateOf(c).sent)
        /\ \E j \in 1 .. Len(SentByBlock(c)) : SentByBlock(c)[j] = m
  BY <1>1, <1>2, <1>4, SentBySomeBlock
<1>6. c \in ExecutedOf(known[n], base[n])
  <2>1. c \in known[n]
    BY <1>1, <1>5, TreePrefix
  <2>2. ASSUME IsPrefix(c, base[n]) PROVE FALSE
    <3>1. IsPrefix(StateOf(c).sent, StateOf(base[n]).sent)
      BY <1>1, <2>2, StateOfGrows DEF Grows
    <3>2. StateOf(c).sent \in Seq(Sent) /\ StateOf(base[n]).sent \in Seq(Sent)
      BY <1>1, StateOfType DEF States
    <3>3. Len(StateOf(c).sent) <= Len(StateOf(base[n]).sent) /\ Len(StateOf(c).sent) \in Nat
      BY <3>1, <3>2, PrefixLength
    <3>4. QED
      BY <1>2, <1>3, <1>5, <3>3
  <2>3. QED
    BY <2>1, <2>2 DEF ExecutedOf
<1>7. m.key \in Keys /\ offchain[n][m.key] # NoData
  BY <1>5, <1>6, SentElement DEF Offchain, KeptIn
<1>8. PICK w \in ExecutedOf(known[n], base[n]) : \E j \in 1 .. Len(SentByBlock(w)) :
        SentByBlock(w)[j].key = m.key /\ SentByBlock(w)[j].message = offchain[n][m.key]
  BY <1>1, <1>7 DEF Offchain, AuthenticIn
<1>9. PICK j \in 1 .. Len(SentByBlock(w)) :
        SentByBlock(w)[j].key = m.key /\ SentByBlock(w)[j].message = offchain[n][m.key]
  BY <1>8
<1>10. w \in known[n] /\ w \in Chains
  BY <1>1 DEF ExecutedOf
<1>11. ~IsPrefix(w, f) /\ ~IsPrefix(f, w)
  <2> SUFFICES ASSUME IsPrefix(w, f) \/ IsPrefix(f, w) PROVE FALSE
    OBVIOUS
  <2>1. PICK at \in 1 .. Len(StateOf(w).sent) : SentByBlock(w)[j] = StateOf(w).sent[at]
    BY <1>10, SentByBlockResult
  <2>2. StateOf(w).sent[at] = StateOf(f).sent[i]
    BY <1>1, <1>2, <1>4, <1>9, <1>10, <2>1, KeyTellsMessage
  <2>3. QED
    BY <1>2, <1>9, <2>1, <2>2
<1>12. SentByBlock(w)[j] \in SentIn(abandoned)
  <2>1. w \in abandoned /\ abandoned \in SUBSET Chains
    BY <1>1, <1>10, <1>11
  <2> HIDE DEF abandoned
  <2>2. QED
    BY <2>1, SentInElements
<1>13. QED
  BY <1>9, <1>12 DEF f

\* Forks are the only way to lose a message: what a node reads at the key of a
\* finalized event is that event's message, or that of an abandoned block
\* that used the same account and counter (client/src/main.rs:119 reads it).
THEOREM OnlyForksLoseMessages == Spec => []LostOnlyByFork
<1>1. Structure /\ Offchain => LostOnlyByFork
  BY LostByFork
<1>2. QED
  BY <1>1, StructureInvariant, OffchainInvariant, PTL

-----------------------------------------------------------------------------
(* Replay.  The nonces of a chain's state are above those of the extrinsics *)
(* in its blocks, and CheckNonce lets in only what is not below.            *)

Bodies(chain) == [i \in DOMAIN chain |-> chain[i].txs]

\* The extrinsics of `history` have been executed before state s, and no two
\* of them with the same nonce of an account.
Spent(s, history) ==
  /\ \A i \in 1 .. Len(history) : history[i].nonce < s.nonces[history[i].account]
  /\ \A i, j \in 1 .. Len(history) :
       /\ history[i].account = history[j].account
       /\ history[i].nonce = history[j].nonce
       => i = j

\* Every block of the chain satisfies CheckNonce in the state of its parent.
ValidChain(chain) ==
  \A i \in 1 .. Len(chain) : ValidBody(StateOf(SubSeq(chain, 1, i - 1)), chain[i].txs)

Validity ==
  ValidChain(justified) /\ \A n \in Nodes : \A c \in known[n] : ValidChain(c)

LEMMA FlattenBodies ==
  ASSUME NEW c \in Chains, NEW b \in Block
  PROVE  /\ FlattenSeq(Bodies(<< >>)) = << >>
         /\ FlattenSeq(Bodies(c)) \in Seq(Extrinsic)
         /\ FlattenSeq(Bodies(Append(c, b))) = FlattenSeq(Bodies(c)) \o b.txs
<1>1. /\ Append(c, b) \in Chains /\ Len(Append(c, b)) = Len(c) + 1
      /\ \A i \in 1 .. Len(c) : Append(c, b)[i] = c[i]
      /\ Append(c, b)[Len(c) + 1] = b
      /\ Len(c) \in Nat /\ b.txs \in Seq(Extrinsic)
  BY AppendProperties, LenProperties DEF Chains, Block
<1>2. ASSUME NEW d \in Chains
      PROVE  /\ Bodies(d) \in Seq(Seq(Extrinsic)) /\ Len(Bodies(d)) = Len(d)
             /\ \A i \in 1 .. Len(d) : Bodies(d)[i] = d[i].txs
  <2>1. Len(d) \in Nat /\ DOMAIN d = 1 .. Len(d) /\ \A i \in 1 .. Len(d) : d[i] \in Block
    BY LenProperties, ElementOfSeq DEF Chains
  <2>2. \A i \in 1 .. Len(d) : d[i].txs \in Seq(Extrinsic)
    BY <2>1 DEF Block
  <2>3. Bodies(d) = [i \in 1 .. Len(d) |-> d[i].txs]
    BY <2>1 DEF Bodies
  <2>4. QED
    BY <2>1, <2>2, <2>3, IsASeq, LenProperties
<1> DEFINE long == Append(c, b)
<1>3. Bodies(long) = Append(Bodies(c), b.txs)
  <2> DEFINE grown == Append(Bodies(c), b.txs)
  <2>1. /\ grown \in Seq(Seq(Extrinsic)) /\ Len(grown) = Len(c) + 1
        /\ \A i \in 1 .. Len(c) : grown[i] = Bodies(c)[i]
        /\ grown[Len(c) + 1] = b.txs
    BY <1>1, <1>2, AppendProperties
  <2>2. /\ Bodies(long) \in Seq(Seq(Extrinsic)) /\ Len(Bodies(long)) = Len(c) + 1
        /\ \A i \in 1 .. Len(c) + 1 : Bodies(long)[i] = long[i].txs
    BY <1>1, <1>2
  <2> HIDE DEF grown, long
  <2>3. ASSUME NEW i \in 1 .. Len(c) + 1 PROVE Bodies(long)[i] = grown[i]
    <3>1. CASE i = Len(c) + 1
      BY <1>1, <2>1, <2>2, <3>1 DEF long
    <3>2. CASE i # Len(c) + 1
      <4>1. i \in 1 .. Len(c)
        BY <1>1, <3>2
      <4>2. QED
        BY <1>1, <1>2, <2>1, <2>2, <4>1 DEF long
    <3>3. QED
      BY <3>1, <3>2
  <2>4. QED
    BY <2>1, <2>2, <2>3, SeqEqual DEF grown
<1>4. /\ Txs!FlattenSeq(Bodies(c)) \in Seq(Extrinsic)
      /\ Txs!FlattenSeq(Append(Bodies(c), b.txs)) = Txs!FlattenSeq(Bodies(c)) \o b.txs
  <2>1. Bodies(c) \in Seq(Seq(Extrinsic)) /\ b.txs \in Seq(Extrinsic)
    BY <1>1, <1>2
  <2>2. QED
    BY <2>1, Txs!FlattenAppend
<1>5. \A seqs : FlattenSeq(seqs) = Txs!FlattenSeq(seqs)
  BY DEF FlattenSeq, Txs!FlattenSeq
<1>6. FlattenSeq(Bodies(<< >>)) = << >>
  <2>1. << >> \in Chains /\ Len(<< >>) = 0
    BY EmptySeq DEF Chains
  <2>2. Len(Bodies(<< >>)) = 0 /\ Bodies(<< >>) \in Seq(Seq(Extrinsic))
    BY <1>2, <2>1
  <2>3. Bodies(<< >>) = << >>
    BY <2>2, EmptySeq
  <2>4. QED
    BY <2>1, <2>3 DEF FlattenSeq
<1>7. QED
  BY <1>3, <1>4, <1>5, <1>6

LEMMA SpentExtrinsic ==
  ASSUME NEW s \in States, NEW h \in Seq(Extrinsic), NEW tx \in Extrinsic,
         Spent(s, h), ValidExtrinsic(s, tx)
  PROVE  Spent(ApplyExtrinsic(s, tx), Append(h, tx))
<1> DEFINE t == ApplyExtrinsic(s, tx)
           long == Append(h, tx)
<1>1. t.nonces = [s.nonces EXCEPT ![tx.account] = @ + 1]
  BY ApplyExtrinsicResult
<1>2. s.nonces \in [Accounts -> Nat] /\ tx.account \in Accounts /\ tx.nonce \in Nat
  BY DEF States, Extrinsic
<1>3. tx.nonce = s.nonces[tx.account]
  BY DEF ValidExtrinsic
<1>4. /\ Len(long) = Len(h) + 1 /\ Len(h) \in Nat
      /\ \A i \in 1 .. Len(h) : long[i] = h[i] /\ h[i] \in Extrinsic
      /\ long[Len(h) + 1] = tx
  BY AppendProperties, LenProperties, ElementOfSeq
<1> HIDE DEF t, long
<1>5. ASSUME NEW i \in 1 .. Len(h)
      PROVE  h[i].nonce < s.nonces[h[i].account] /\ h[i].nonce \in Nat /\ h[i].account \in Accounts
  BY <1>4 DEF Spent, Extrinsic
<1>6. ASSUME NEW i \in 1 .. Len(h), h[i].account = tx.account PROVE h[i].nonce # tx.nonce
  BY <1>2, <1>3, <1>5, <1>6
<1>7. ASSUME NEW i \in 1 .. Len(long) PROVE long[i].nonce < t.nonces[long[i].account]
  <2>1. CASE i = Len(h) + 1
    BY <1>1, <1>2, <1>3, <1>4, <2>1
  <2>2. CASE i # Len(h) + 1
    <3>1. i \in 1 .. Len(h) /\ long[i] = h[i]
      BY <1>4, <2>2
    <3>2. t.nonces[h[i].account] >= s.nonces[h[i].account]
      BY <1>1, <1>2, <1>5, <3>1
    <3>3. t.nonces[h[i].account] \in Nat /\ s.nonces[h[i].account] \in Nat
      BY <1>1, <1>2, <1>5, <3>1
    <3>4. QED
      BY <1>5, <3>1, <3>2, <3>3
  <2>3. QED
    BY <2>1, <2>2
<1>8. ASSUME NEW i \in 1 .. Len(long), NEW j \in 1 .. Len(long),
             long[i].account = long[j].account, long[i].nonce = long[j].nonce
      PROVE  i = j
  <2>1. i \in 1 .. Len(h) \/ i = Len(h) + 1
    BY <1>4
  <2>2. j \in 1 .. Len(h) \/ j = Len(h) + 1
    BY <1>4
  <2>3. CASE i \in 1 .. Len(h) /\ j \in 1 .. Len(h)
    BY <1>4, <1>8, <2>3 DEF Spent
  <2>4. CASE i = Len(h) + 1 /\ j \in 1 .. Len(h)
    BY <1>4, <1>6, <1>8, <2>4
  <2>5. CASE i \in 1 .. Len(h) /\ j = Len(h) + 1
    BY <1>4, <1>6, <1>8, <2>5
  <2>6. QED
    BY <2>1, <2>2, <2>3, <2>4, <2>5
<1>9. QED
  BY <1>7, <1>8 DEF Spent, t, long

LEMMA SpentBody ==
  ASSUME NEW s \in States, NEW h \in Seq(Extrinsic), NEW txs \in Seq(Extrinsic),
         Spent(s, h), ValidBody(s, txs)
  PROVE  Spent(ApplyAll(s, txs), h \o txs)
<1> DEFINE T == {r \in Seq(Extrinsic) : ValidBody(s, r) => Spent(ApplyAll(s, r), h \o r)}
<1>1. << >> \in T
  <2>1. << >> \in Seq(Extrinsic) /\ h \o << >> = h
    BY EmptySeq, ConcatEmptySeq
  <2>2. ApplyAll(s, << >>) = s
    BY ApplyAllIsFold, Txs!FoldEmpty
  <2>3. QED
    BY <2>1, <2>2
<1>2. ASSUME NEW r \in Seq(Extrinsic), r \in T, NEW x \in Extrinsic PROVE Append(r, x) \in T
  <2> DEFINE long == Append(r, x)
  <2>1. /\ long \in Seq(Extrinsic) /\ Len(long) = Len(r) + 1 /\ Len(r) \in Nat
        /\ DOMAIN long = 1 .. Len(r) + 1 /\ DOMAIN r = 1 .. Len(r)
        /\ \A i \in 1 .. Len(r) : long[i] = r[i]
        /\ long[Len(r) + 1] = x
    BY AppendProperties, LenProperties
  <2>2. ApplyAll(s, long) = ApplyExtrinsic(ApplyAll(s, r), x)
    BY ApplyAllIsFold, Txs!FoldAppend
  <2> HIDE DEF long
  <2>3. ASSUME NEW i \in 0 .. Len(r) PROVE SubSeq(long, 1, i) = SubSeq(r, 1, i)
    <3>1. IsPrefix(r, long)
      BY PrefixOfAppend, PrefixReflexive DEF long
    <3>2. SubSeq(r, 1, i) \in Seq(Extrinsic) /\ Len(SubSeq(r, 1, i)) = i
          /\ IsPrefix(SubSeq(r, 1, i), r)
      BY SubSeqPrefix
    <3>3. IsPrefix(SubSeq(r, 1, i), long)
      BY <2>1, <3>1, <3>2, PrefixTransitive
    <3>4. i \in 0 .. Len(long)
      BY <2>1
    <3>5. QED
      BY <2>1, <3>2, <3>3, <3>4, SubSeqPrefix
  <2>4. ASSUME ValidBody(s, long)
        PROVE  ValidBody(s, r) /\ ValidExtrinsic(ApplyAll(s, r), x)
    <3>1. \A i \in 1 .. Len(r) + 1 : ValidExtrinsic(ApplyAll(s, SubSeq(long, 1, i - 1)), long[i])
      BY <2>1, <2>4 DEF ValidBody
    <3>2. ASSUME NEW i \in 1 .. Len(r)
          PROVE  ValidExtrinsic(ApplyAll(s, SubSeq(r, 1, i - 1)), r[i])
      <4>1. i \in 1 .. Len(r) + 1 /\ i - 1 \in 0 .. Len(r)
        BY <2>1
      <4>2. QED
        BY <2>1, <2>3, <3>1, <4>1
    <3>3. ValidExtrinsic(ApplyAll(s, r), x)
      <4>1. Len(r) + 1 \in 1 .. Len(r) + 1 /\ (Len(r) + 1) - 1 = Len(r) /\ Len(r) \in 0 .. Len(r)
        BY <2>1
      <4>2. SubSeq(long, 1, Len(r)) = r
        BY <2>3, <4>1, SubSeqFull
      <4> DEFINE Valid(i) == ValidExtrinsic(ApplyAll(s, SubSeq(long, 1, i - 1)), long[i])
      <4>3. Valid(Len(r) + 1)
        <5>1. \A i \in 1 .. Len(r) + 1 : Valid(i)
          BY <3>1
        <5> HIDE DEF Valid
        <5>2. QED
          BY <4>1, <5>1
      <4>4. SubSeq(long, 1, (Len(r) + 1) - 1) = r /\ long[Len(r) + 1] = x
        BY <2>1, <4>1, <4>2
      <4>5. QED
        BY <4>3, <4>4
    <3>4. QED
      BY <2>1, <3>2, <3>3 DEF ValidBody
  <2>5. ASSUME ValidBody(s, long) PROVE Spent(ApplyAll(s, long), h \o long)
    <3>1. Spent(ApplyAll(s, r), h \o r) /\ ApplyAll(s, r) \in States /\ h \o r \in Seq(Extrinsic)
      BY <1>2, <2>4, <2>5, ApplyAllResult, ConcatProperties
    <3>2. Spent(ApplyAll(s, long), Append(h \o r, x))
      BY <2>2, <2>4, <2>5, <3>1, SpentExtrinsic
    <3>3. h \o long = Append(h \o r, x)
      <4>1. <<x>> \in Seq(Extrinsic)
        BY SeqDef
      <4>2. long = r \o <<x>> /\ Append(h \o r, x) = (h \o r) \o <<x>>
        BY <3>1, AppendIsConcat DEF long
      <4>3. QED
        BY <4>1, <4>2, ConcatAssociative
    <3>4. QED
      BY <3>2, <3>3
  <2>6. QED
    BY <2>1, <2>5 DEF long
<1> HIDE DEF T
<1>3. txs \in T
  BY <1>1, <1>2, Txs!SeqInductionSet
<1>4. QED
  BY <1>3 DEF T

LEMMA ValidChainAppend ==
  ASSUME NEW c \in Chains, NEW b \in Block
  PROVE  ValidChain(Append(c, b)) <=> ValidChain(c) /\ ValidBody(StateOf(c), b.txs)
<1> DEFINE d == Append(c, b)
<1>1. /\ d \in Chains /\ Len(d) = Len(c) + 1 /\ Len(c) \in Nat
      /\ \A i \in 1 .. Len(c) : d[i] = c[i]
      /\ d[Len(c) + 1] = b
  BY AppendProperties, LenProperties DEF Chains
<1>2. IsPrefix(c, d)
  BY PrefixOfAppend, PrefixReflexive DEF Chains
<1> HIDE DEF d
<1>3. ASSUME NEW i \in 0 .. Len(c) PROVE SubSeq(d, 1, i) = SubSeq(c, 1, i)
  <2>1. /\ SubSeq(c, 1, i) \in Chains /\ Len(SubSeq(c, 1, i)) = i
        /\ IsPrefix(SubSeq(c, 1, i), c)
    BY SubSeqPrefix DEF Chains
  <2>2. IsPrefix(SubSeq(c, 1, i), d)
    BY <1>1, <1>2, <2>1, PrefixTransitive DEF Chains
  <2>3. i \in 0 .. Len(d)
    BY <1>1
  <2>4. QED
    BY <1>1, <2>1, <2>2, <2>3, SubSeqPrefix DEF Chains
<1> DEFINE Valid(e, i) == ValidBody(StateOf(SubSeq(e, 1, i - 1)), e[i].txs)
<1>4. ASSUME NEW i \in 1 .. Len(c)
      PROVE  Valid(d, i) <=> Valid(c, i)
  <2>1. i - 1 \in 0 .. Len(c)
    BY <1>1
  <2>2. QED
    BY <1>1, <1>3, <2>1
<1>5. Valid(d, Len(c) + 1) <=> ValidBody(StateOf(c), b.txs)
  <2>1. (Len(c) + 1) - 1 = Len(c) /\ Len(c) \in 0 .. Len(c)
    BY <1>1
  <2>2. SubSeq(d, 1, Len(c)) = c
    BY <1>3, <2>1, SubSeqFull DEF Chains
  <2>3. SubSeq(d, 1, (Len(c) + 1) - 1) = c /\ d[Len(c) + 1] = b
    BY <1>1, <2>1, <2>2
  <2>4. QED
    BY <2>3
<1>6. \A i \in 1 .. Len(d) : i \in 1 .. Len(c) \/ i = Len(c) + 1
  BY <1>1
<1>7. \A i \in 1 .. Len(c) : i \in 1 .. Len(d)
  BY <1>1
<1>8. Len(c) + 1 \in 1 .. Len(d)
  BY <1>1
<1>9. \A e : ValidChain(e) <=> \A i \in 1 .. Len(e) : Valid(e, i)
  BY DEF ValidChain
<1> HIDE DEF Valid
<1>10. ValidChain(d) <=> ValidChain(c) /\ ValidBody(StateOf(c), b.txs)
  BY <1>4, <1>5, <1>6, <1>7, <1>8, <1>9
<1>11. QED
  BY <1>10 DEF d

LEMMA SomeBlock == \E b \in Block : TRUE
<1>1. << >> \in Seq(Extrinsic)
  BY EmptySeq
<1>2. [slot |-> 0, txs |-> << >>] \in Block
  BY <1>1 DEF Block
<1>3. QED
  BY <1>2

\* A chain of valid blocks executes every extrinsic once.
LEMMA ValidChainSpent ==
  ASSUME NEW c \in Chains, ValidChain(c)
  PROVE  Spent(StateOf(c), FlattenSeq(Bodies(c)))
<1> DEFINE T == {d \in Chains : ValidChain(d) => Spent(StateOf(d), FlattenSeq(Bodies(d)))}
<1>1. << >> \in T
  <2>1. << >> \in Chains /\ Len(<< >>) = 0
    BY EmptySeq DEF Chains
  <2>2. ASSUME NEW h, Len(h) = 0 PROVE Spent(StateOf(<< >>), h)
    BY <2>2 DEF Spent
  <2>3. \E b \in Block : TRUE
    BY SomeBlock
  <2>4. FlattenSeq(Bodies(<< >>)) = << >>
    BY <2>1, <2>3, FlattenBodies
  <2>5. QED
    BY <2>1, <2>2, <2>4
<1>2. ASSUME NEW d \in Seq(Block), d \in T, NEW b \in Block PROVE Append(d, b) \in T
  <2>1. Append(d, b) \in Chains /\ d \in Chains /\ b.txs \in Seq(Extrinsic)
    BY AppendProperties DEF Chains, Block
  <2>2. ASSUME ValidChain(Append(d, b))
        PROVE  Spent(StateOf(Append(d, b)), FlattenSeq(Bodies(Append(d, b))))
    <3>1. ValidChain(d) /\ ValidBody(StateOf(d), b.txs)
      BY <2>1, <2>2, ValidChainAppend
    <3>2. Spent(StateOf(d), FlattenSeq(Bodies(d)))
      BY <1>2, <3>1
    <3>3. StateOf(d) \in States /\ FlattenSeq(Bodies(d)) \in Seq(Extrinsic)
      BY <2>1, StateOfType, FlattenBodies
    <3>4. Spent(ApplyAll(StateOf(d), b.txs), FlattenSeq(Bodies(d)) \o b.txs)
      BY <2>1, <3>1, <3>2, <3>3, SpentBody
    <3>5. QED
      BY <2>1, <3>4, StateOfAppend, FlattenBodies
  <2>3. QED
    BY <2>1, <2>2
<1> HIDE DEF T
<1>3. c \in T
  BY <1>1, <1>2, Blocks!SeqInductionSet DEF Chains
<1>4. QED
  BY <1>3 DEF T

LEMMA ValidPrefix ==
  ASSUME NEW c \in Chains, ValidChain(c), NEW n \in 0 .. Len(c)
  PROVE  ValidChain(SubSeq(c, 1, n))
<1> DEFINE p == SubSeq(c, 1, n)
<1>1. p \in Chains /\ Len(p) = n /\ IsPrefix(p, c) /\ n \in Nat /\ Len(c) \in Nat
  BY SubSeqPrefix, LenProperties DEF Chains
<1>2. \A i \in 1 .. n : p[i] = c[i]
  BY <1>1, PrefixElements DEF Chains
<1> HIDE DEF p
<1>3. ASSUME NEW i \in 1 .. n
      PROVE  SubSeq(p, 1, i - 1) = SubSeq(c, 1, i - 1)
  <2>1. i - 1 \in 0 .. Len(p) /\ i - 1 \in 0 .. Len(c)
    BY <1>1
  <2>2. /\ SubSeq(p, 1, i - 1) \in Chains /\ Len(SubSeq(p, 1, i - 1)) = i - 1
        /\ IsPrefix(SubSeq(p, 1, i - 1), p)
    BY <1>1, <2>1, SubSeqPrefix DEF Chains
  <2>3. IsPrefix(SubSeq(p, 1, i - 1), c)
    BY <1>1, <2>2, PrefixTransitive DEF Chains
  <2>4. QED
    BY <2>1, <2>2, <2>3, SubSeqPrefix DEF Chains
<1>4. \A i \in 1 .. n : i \in 1 .. Len(c)
  BY <1>1
<1>5. QED
  BY <1>1, <1>2, <1>3, <1>4 DEF ValidChain, p

LEMMA InitialValidity == Init => Validity
<1>1. ValidChain(Genesis)
  BY GenesisChain DEF ValidChain
<1>2. QED
  BY <1>1 DEF Init, Validity

LEMMA ProposeValidity ==
  ASSUME Structure, Validity, NEW n \in Nodes, NEW pool \in SUBSET Extrinsic,
         Propose(n, pool)
  PROVE  Validity'
<1>1. PICK parent \in SelectChain(n), txs \in SeqOf(pool, MaxBlockTxs) :
        /\ ValidBody(StateOf(parent), txs)
        /\ Store(n, Append(parent, [slot |-> slot, txs |-> txs]))
  BY DEF Propose
<1> DEFINE b == [slot |-> slot, txs |-> txs]
<1>2. parent \in known[n] /\ parent \in Chains /\ b \in Block /\ b.txs = txs
  BY ProposedChain
<1> HIDE DEF b
<1>3. ValidChain(Append(parent, b))
  BY <1>1, <1>2, ValidChainAppend DEF Validity
<1>4. known' = [known EXCEPT ![n] = @ \cup {Append(parent, b)}] /\ justified' = justified
  BY <1>1 DEF Store, b
<1>5. QED
  BY <1>3, <1>4 DEF Validity, Structure

LEMMA SpreadValidity ==
  ASSUME Structure, Validity, Spread
  PROVE  Validity'
<1>1. ASSUME NEW n \in Nodes, Import(n) PROVE Validity'
  <2>1. PICK c \in (UNION {known[m] : m \in Nodes \ {n}}) \ known[n] : Store(n, c)
    BY <1>1 DEF Import
  <2>2. ValidChain(c)
    BY DEF Validity
  <2>3. QED
    BY <2>1, <2>2 DEF Store, Validity, Structure
<1>2. ASSUME NEW n \in Nodes, WarpSync(n) PROVE Validity'
  <2>1. \A i \in 0 .. Len(justified) : ValidChain(SubSeq(justified, 1, i))
    BY ValidPrefix DEF Validity, Structure
  <2>2. QED
    BY <1>2, <2>1 DEF WarpSync, Validity, Structure
<1>3. CASE FinalityRound
  BY <1>3 DEF FinalityRound, Validity
<1>4. ASSUME known' = known, justified' = justified PROVE Validity'
  BY <1>4 DEF Validity
<1>5. QED
  BY <1>1, <1>2, <1>3, <1>4 DEF Spread, SkipSlot, Finalize

LEMMA NetworkValidity ==
  ASSUME Structure, Validity, NEW pool \in SUBSET Extrinsic, NetworkStep(pool)
  PROVE  Validity'
BY SpreadValidity, ProposeValidity DEF NetworkStep

LEMMA ValidityInvariant == Spec => []Validity
<1>1. Init => Validity
  BY InitialValidity
<1>2. Structure /\ Validity /\ [Next]_vars => Validity'
  <2> SUFFICES ASSUME Structure, Validity, [Next]_vars PROVE Validity'
    OBVIOUS
  <2>1. CASE UNCHANGED vars
    BY <2>1 DEF vars, Validity
  <2>2. QED
    BY <2>1, NextStep, NetworkValidity
<1>3. QED
  BY <1>1, <1>2, StructureInvariant, PTL DEF Spec

LEMMA ValidChainsDoNotReplay ==
  ASSUME Structure, Validity PROVE NoReplay
<1> SUFFICES ASSUME NEW n \in Nodes, NEW c \in known[n]
             PROVE  LET txs == FlattenSeq([i \in DOMAIN c |-> c[i].txs])
                    IN \A i, j \in DOMAIN txs : txs[i] = txs[j] => i = j
  BY DEF NoReplay
<1>1. c \in Chains /\ ValidChain(c)
  BY DEF Structure, Validity
<1>2. Spent(StateOf(c), FlattenSeq(Bodies(c)))
  BY <1>1, ValidChainSpent
<1>3. \E b \in Block : TRUE
  BY SomeBlock
<1>4. FlattenSeq(Bodies(c)) \in Seq(Extrinsic)
  BY <1>1, <1>3, FlattenBodies
<1>5. DOMAIN FlattenSeq(Bodies(c)) = 1 .. Len(FlattenSeq(Bodies(c)))
  BY <1>4, LenProperties
<1>6. QED
  BY <1>2, <1>5 DEF Spent, Bodies

\* No chain that a node holds executes a signed extrinsic twice: CheckNonce in
\* SignedExtra (runtime/src/lib.rs) refuses the second one, also when the call
\* of the first was refused, because the nonce is consumed anyway.
THEOREM ExtrinsicsExecuteOnce == Spec => []NoReplay
BY ValidChainsDoNotReplay, StructureInvariant, ValidityInvariant, PTL

-----------------------------------------------------------------------------
(* The abstract log *)

\* A node's finalized block only moves up its own chain.
LEMMA FinalizedMovesUp ==
  ASSUME Structure, Finality, NEW pool, NetworkStep(pool), NEW n \in Nodes
  PROVE  finalized'[n] \in Chains /\ IsPrefix(finalized[n], finalized'[n])
<1>1. /\ finalized[n] \in Chains /\ justified \in Chains
      /\ IsPrefix(finalized[n], finalized[n]) /\ IsPrefix(finalized[n], justified)
  BY PrefixReflexive DEF Structure, Finality, Chains
<1>2. ASSUME finalized' = finalized PROVE finalized'[n] = finalized[n]
  BY <1>2
<1>3. ASSUME NEW m \in Nodes, finalized' = [finalized EXCEPT ![m] = justified]
      PROVE  finalized'[n] = finalized[n] \/ finalized'[n] = justified
  BY <1>3 DEF Structure
<1>4. CASE finalized' = finalized
  BY <1>1, <1>4
<1>5. CASE \E m \in Nodes : finalized' = [finalized EXCEPT ![m] = justified]
  BY <1>1, <1>3, <1>5
<1>6. QED
  BY <1>4, <1>5 DEF NetworkStep, Spread, Propose, Import, Store, SkipSlot, FinalityRound,
                    Finalize, WarpSync

LEMMA ChainLogResult ==
  ASSUME NEW c \in Chains
  PROVE  /\ ChainLog(c) \in Seq(LogEntry) /\ Len(ChainLog(c)) = Len(StateOf(c).sent)
         /\ Len(ChainLog(c)) <= MaxCounter
         /\ \A i \in 1 .. Len(ChainLog(c)) :
              ChainLog(c)[i] = [account |-> StateOf(c).sent[i].key.account,
                                metadata |-> StateOf(c).sent[i].metadata,
                                message |-> StateOf(c).sent[i].message]
<1> DEFINE sent == StateOf(c).sent
           entry(m) == [account |-> m.key.account, metadata |-> m.metadata,
                        message |-> m.message]
<1>1. sent \in Seq(Sent) /\ Len(sent) <= MaxCounter
  BY StateOfType, CounterAssumption DEF States, Counted
<1>2. Len(sent) \in Nat /\ DOMAIN sent = 1 .. Len(sent)
      /\ \A i \in 1 .. Len(sent) : sent[i] \in Sent
  BY <1>1, LenProperties, ElementOfSeq
<1>3. ChainLog(c) = [i \in 1 .. Len(sent) |-> entry(sent[i])]
  BY <1>2 DEF ChainLog, LogOf
<1> HIDE DEF sent
<1>4. \A i \in 1 .. Len(sent) : entry(sent[i]) \in LogEntry
  BY <1>2 DEF LogEntry, Sent, Keys
<1> HIDE DEF entry
<1>5. ChainLog(c) \in Seq(LogEntry) /\ Len(ChainLog(c)) = Len(sent)
  BY <1>2, <1>3, <1>4, IsASeq, LenProperties
<1>6. \A i \in 1 .. Len(sent) : ChainLog(c)[i] = entry(sent[i])
  BY <1>3
<1>7. QED
  BY <1>1, <1>5, <1>6 DEF sent, entry

LEMMA ChainLogGrows ==
  ASSUME NEW c \in Chains, NEW d \in Chains, IsPrefix(c, d), NEW n
  PROVE  ChainLog(d) = ChainLog(c) \/ Chain(n)!Extends(ChainLog(d), ChainLog(c))
<1>1. StateOf(c).sent \in Seq(Sent) /\ StateOf(d).sent \in Seq(Sent)
      /\ IsPrefix(StateOf(c).sent, StateOf(d).sent)
  BY StateOfType, StateOfGrows DEF States, Grows
<1>2. /\ Len(StateOf(c).sent) \in Nat /\ Len(StateOf(d).sent) \in Nat
      /\ Len(StateOf(c).sent) <= Len(StateOf(d).sent)
      /\ \A i \in 1 .. Len(StateOf(c).sent) : StateOf(c).sent[i] = StateOf(d).sent[i]
  BY <1>1, PrefixElements, LenProperties
<1>3. \A i \in 1 .. Len(ChainLog(c)) : ChainLog(d)[i] = ChainLog(c)[i]
  <2> SUFFICES ASSUME NEW i \in 1 .. Len(ChainLog(c)) PROVE ChainLog(d)[i] = ChainLog(c)[i]
    OBVIOUS
  <2>1. i \in 1 .. Len(ChainLog(d)) /\ i \in 1 .. Len(StateOf(c).sent)
    BY <1>2, ChainLogResult
  <2>2. QED
    BY <1>2, <2>1, ChainLogResult
<1>4. CASE Len(ChainLog(c)) = Len(ChainLog(d))
  BY <1>3, <1>4, ChainLogResult, SeqEqual
<1>5. CASE Len(ChainLog(c)) # Len(ChainLog(d))
  <2>1. Len(ChainLog(c)) < Len(ChainLog(d))
    BY <1>2, <1>5, ChainLogResult
  <2>2. QED
    BY <1>3, <2>1, ChainLogResult DEF Chain!Extends
<1>6. QED
  BY <1>4, <1>5

\* The finalized messages of every node implement MessageLog: they start
\* empty, every step adds messages or changes nothing, and no step removes,
\* changes or moves one, whatever is authored or imported on other forks.
THEOREM FinalizedMessagesAreALog == Spec => ChainImplementsLog
<1>1. ASSUME Init, NEW n \in Nodes PROVE Chain(n)!Init
  <2>1. finalized[n] = Genesis
    BY <1>1 DEF Init
  <2>2. StateOf(Genesis).sent = << >>
    BY StateOfGenesis DEF GenesisState
  <2>3. Len(ChainLog(Genesis)) = 0 /\ ChainLog(Genesis) \in Seq(LogEntry)
    BY <2>2, ChainLogResult, GenesisChain, EmptySeq
  <2>4. ChainLog(Genesis) = << >>
    BY <2>3, EmptySeq
  <2>5. QED
    BY <2>1, <2>4 DEF Chain!Init
<1>2. ASSUME Structure, Finality, [Next]_vars, NEW n \in Nodes
      PROVE  LET before == ChainLog(finalized[n])
                 after  == ChainLog(finalized'[n])
             IN after = before \/ Chain(n)!Extends(after, before)
  <2>1. CASE UNCHANGED vars
    BY <2>1 DEF vars
  <2>2. CASE Next
    <3>1. finalized[n] \in Chains
      BY <1>2 DEF Structure
    <3>2. finalized'[n] \in Chains /\ IsPrefix(finalized[n], finalized'[n])
      BY <1>2, <2>2, NextStep, FinalizedMovesUp
    <3>3. QED
      BY <3>1, <3>2, ChainLogGrows
  <2>3. QED
    BY <1>2, <2>1, <2>2
<1>3. Init => \A n \in Nodes : Chain(n)!Init
  BY <1>1
<1>4. Structure /\ Finality /\ [Next]_vars =>
        [\A n \in Nodes :
          LET before == ChainLog(finalized[n])
              after  == ChainLog(finalized'[n])
          IN after = before \/ Chain(n)!Extends(after, before)]_finalized
  BY <1>2
<1>5. QED
  BY <1>3, <1>4, StructureInvariant, PTL DEF Spec, ChainImplementsLog

-----------------------------------------------------------------------------
(* One authority, as on the development chain: all blocks lie on one line,  *)
(* the author's best chain, and so nothing that is indexed is written over. *)

Line ==
  Len(authorities) = 1 =>
    /\ IsPrefix(justified, best[authorities[1]])
    /\ \A n \in Nodes : \A c \in known[n] : IsPrefix(c, best[authorities[1]])

LEMMA OnlyAuthority ==
  ASSUME Structure, Len(authorities) = 1
  PROVE  authorities[1] \in Nodes /\ \A s \in Nat : SlotAuthor(s) = authorities[1]
<1>1. authorities \in Seq(Nodes)
  BY AuthorityAssumption DEF Structure
<1>2. authorities[1] \in Nodes
  BY <1>1, ElementOfSeq
<1>3. \A s \in Nat : (s % 1) + 1 = 1
  OBVIOUS
<1>4. QED
  BY <1>2, <1>3 DEF SlotAuthor

LEMMA PrefixEqual ==
  ASSUME NEW c \in Chains, NEW d \in Chains, IsPrefix(c, d), IsPrefix(d, c)
  PROVE  c = d
<1>1. Len(c) \in Nat /\ Len(d) \in Nat /\ Len(c) <= Len(d) /\ Len(d) <= Len(c)
  BY PrefixLength DEF Chains
<1>2. QED
  BY <1>1, PrefixLength DEF Chains

LEMMA InitialLine == Init => Line
<1> SUFFICES ASSUME Init, Len(authorities) = 1
             PROVE  /\ IsPrefix(justified, best[authorities[1]])
                    /\ \A n \in Nodes : \A c \in known[n] : IsPrefix(c, best[authorities[1]])
  BY DEF Line
<1>1. authorities[1] \in Nodes
  BY InitialStructure, OnlyAuthority
<1>2. QED
  BY <1>1, GenesisChain DEF Init

\* The author extends its best block, on which all others lie.
LEMMA ProposeLine ==
  ASSUME Structure, Line, NEW n \in Nodes, NEW pool \in SUBSET Extrinsic,
         SlotOf(n), Propose(n, pool)
  PROVE  Line'
<1>1. PICK parent \in SelectChain(n), txs \in SeqOf(pool, MaxBlockTxs) :
        Store(n, Append(parent, [slot |-> slot, txs |-> txs]))
  BY DEF Propose
<1> DEFINE c == Append(parent, [slot |-> slot, txs |-> txs])
<1>2. /\ c \in Chains /\ IsPrefix(best[n], c) /\ Len(c) > Len(best[n])
  BY ProposedChain
<1> HIDE DEF c
<1>3. /\ known' = [known EXCEPT ![n] = known[n] \cup {c}]
      /\ best'[n] = c
      /\ authorities' = authorities /\ justified' = justified
  BY <1>1, <1>2 DEF Store, Structure, c
<1>4. SUFFICES ASSUME Len(authorities) = 1
               PROVE  /\ IsPrefix(justified, best'[authorities[1]])
                      /\ \A m \in Nodes : \A d \in known'[m] : IsPrefix(d, best'[authorities[1]])
  BY <1>3 DEF Line
<1>5. n = authorities[1]
  BY <1>4, OnlyAuthority, BoundAssumption DEF SlotOf, Structure
<1>6. ASSUME NEW d \in Chains, IsPrefix(d, best[n]) PROVE IsPrefix(d, c)
  BY <1>2, <1>6, PrefixTransitive DEF Structure, Chains
<1>7. IsPrefix(c, c)
  BY <1>2, PrefixReflexive DEF Chains
<1>8. ASSUME NEW m \in Nodes, NEW d \in known'[m] PROVE IsPrefix(d, c)
  <2>1. d = c \/ d \in known[m]
    BY <1>3 DEF Structure
  <2>2. CASE d \in known[m]
    BY <1>4, <1>5, <1>6, <2>2 DEF Line, Structure
  <2>3. QED
    BY <1>7, <2>1, <2>2
<1>9. IsPrefix(justified, c)
  BY <1>4, <1>5, <1>6 DEF Line, Structure
<1>10. QED
  BY <1>3, <1>5, <1>8, <1>9

LEMMA SpreadLine ==
  ASSUME Structure, Line, Spread
  PROVE  Line'
<1> DEFINE a == authorities[1]
<1>1. authorities' = authorities
  BY DEF Spread, SkipSlot, FinalityRound, Import, Store, Finalize, WarpSync
<1>2. SUFFICES ASSUME Len(authorities) = 1
               PROVE  /\ IsPrefix(justified', best'[a])
                      /\ \A m \in Nodes : \A d \in known'[m] : IsPrefix(d, best'[a])
  BY <1>1 DEF Line
<1>3. a \in Nodes
  BY <1>2, OnlyAuthority
<1>4. /\ IsPrefix(justified, best[a])
      /\ \A m \in Nodes : \A d \in known[m] : IsPrefix(d, best[a])
  BY <1>2 DEF Line
<1>5. /\ best[a] \in Chains /\ best[a] \in known[a] /\ known[a] \in SUBSET Chains
      /\ Tree(known[a]) /\ justified \in Chains
  BY <1>3 DEF Structure
<1> HIDE DEF a
<1>6. CASE SkipSlot
  BY <1>4, <1>6 DEF SkipSlot
<1>7. CASE FinalityRound
  BY <1>4, <1>7 DEF FinalityRound
<1>8. ASSUME NEW n \in Nodes, Import(n)
      PROVE  /\ IsPrefix(justified', best'[a])
             /\ \A m \in Nodes : \A d \in known'[m] : IsPrefix(d, best'[a])
  <2>1. PICK c \in (UNION {known[m] : m \in Nodes \ {n}}) \ known[n] : Store(n, c)
    BY <1>8 DEF Import
  <2>2. c \in Chains /\ IsPrefix(c, best[a])
    BY <1>4 DEF Structure
  <2>3. n # a
    BY <1>5, <2>2, TreePrefix
  <2>4. /\ best'[a] = best[a] /\ justified' = justified
        /\ known' = [known EXCEPT ![n] = known[n] \cup {c}]
    BY <1>3, <2>1, <2>3 DEF Store, Structure
  <2>5. QED
    BY <1>4, <2>2, <2>4 DEF Structure
<1>9. ASSUME NEW n \in Nodes, Finalize(n)
      PROVE  /\ IsPrefix(justified', best'[a])
             /\ \A m \in Nodes : \A d \in known'[m] : IsPrefix(d, best'[a])
  <2>1. best'[a] = best[a] /\ known' = known /\ justified' = justified
    BY <1>3, <1>4, <1>9 DEF Finalize, Structure
  <2>2. QED
    BY <1>4, <2>1
<1>10. ASSUME NEW n \in Nodes, WarpSync(n)
       PROVE  /\ IsPrefix(justified', best'[a])
              /\ \A m \in Nodes : \A d \in known'[m] : IsPrefix(d, best'[a])
  <2>1. n # a
    <3>1. SUFFICES ASSUME n = a PROVE FALSE
      OBVIOUS
    <3>2. best[a] = Genesis /\ justified # Genesis
      BY <1>5, <1>10, <3>1 DEF WarpSync
    <3>3. QED
      BY <1>4, <1>5, <3>2, GenesisChain
  <2>2. /\ best'[a] = best[a] /\ justified' = justified
        /\ known' = [known EXCEPT ![n] = {SubSeq(justified, 1, i) : i \in 0 .. Len(justified)}]
    BY <1>3, <1>10, <2>1 DEF WarpSync, Structure
  <2>3. ASSUME NEW i \in 0 .. Len(justified) PROVE IsPrefix(SubSeq(justified, 1, i), best[a])
    <3>1. SubSeq(justified, 1, i) \in Chains /\ IsPrefix(SubSeq(justified, 1, i), justified)
      BY <1>5, SubSeqPrefix DEF Chains
    <3>2. QED
      BY <1>4, <1>5, <3>1, PrefixTransitive DEF Chains
  <2>4. QED
    BY <1>4, <2>2, <2>3 DEF Structure
<1>11. QED
  BY <1>6, <1>7, <1>8, <1>9, <1>10 DEF Spread

LEMMA NetworkLine ==
  ASSUME Structure, Line, NEW pool \in SUBSET Extrinsic, NetworkStep(pool)
  PROVE  Line'
BY SpreadLine, ProposeLine DEF NetworkStep

LEMMA LineInvariant == Spec => []Line
<1>1. Init => Line
  BY InitialLine
<1>2. Structure /\ Line /\ [Next]_vars => Line'
  <2> SUFFICES ASSUME Structure, Line, [Next]_vars PROVE Line'
    OBVIOUS
  <2>1. CASE UNCHANGED vars
    BY <2>1 DEF vars, Line
  <2>2. QED
    BY <2>1, NextStep, NetworkLine
<1>3. QED
  BY <1>1, <1>2, StructureInvariant, PTL DEF Spec

\* What is read is what the blocks carry.
LEMMA ReadLogIsChainLog ==
  ASSUME Structure, Offchain, Line, Len(authorities) = 1, NEW n \in Indexing \ WarpNodes
  PROVE  ReadLog(finalized[n], offchain[n]) = ChainLog(finalized[n])
<1> DEFINE sent == StateOf(finalized[n]).sent
<1>1. n \in Nodes /\ n \in Indexing /\ base[n] = Genesis /\ finalized[n] \in known[n]
      /\ finalized[n] \in Chains
  BY NodeAssumption DEF Structure
<1>2. sent \in Seq(Sent)
  BY <1>1, StateOfType DEF States
<1>3. Len(sent) \in Nat /\ DOMAIN sent = 1 .. Len(sent)
  BY <1>2, LenProperties
<1>4. Readable(n) = {sent[i] : i \in 1 .. Len(sent)}
  <2>1. Len(StateOf(base[n]).sent) = 0
    BY <1>1, StateOfGenesis, EmptySeq DEF GenesisState
  <2>2. Len(StateOf(base[n]).sent) + 1 = 1
    BY <2>1
  <2>3. QED
    BY <2>2 DEF Readable
<1>5. ASSUME NEW c \in known[n] PROVE IsPrefix(c, finalized[n]) \/ IsPrefix(finalized[n], c)
  <2>1. /\ IsPrefix(c, best[authorities[1]]) /\ IsPrefix(finalized[n], best[authorities[1]])
        /\ best[authorities[1]] \in Chains /\ c \in Chains
    BY <1>1, OnlyAuthority DEF Line, Structure
  <2>2. Len(c) \in Nat /\ Len(finalized[n]) \in Nat
    BY <1>1, <2>1, LenProperties DEF Chains
  <2>3. QED
    BY <1>1, <2>1, <2>2, PrefixLinear DEF Chains
<1>6. {c \in known[n] : ~IsPrefix(c, finalized[n]) /\ ~IsPrefix(finalized[n], c)} = {}
  BY <1>5
<1>7. SentIn({}) = {}
  BY SentInElements
<1>8. \A m \in Readable(n) : offchain[n][m.key] = m.message
  BY <1>1, <1>6, <1>7, LostByFork DEF LostOnlyByFork
<1> HIDE DEF sent
<1>9. \A i \in 1 .. Len(sent) : offchain[n][sent[i].key] = sent[i].message
  BY <1>4, <1>8
<1>10. QED
  BY <1>3, <1>9 DEF ReadLog, ChainLog, LogOf, sent

SameLogs ==
  Len(authorities) = 1 =>
    \A n \in Indexing \ WarpNodes :
      ReadLog(finalized[n], offchain[n]) = ChainLog(finalized[n])

LEMMA SameLogsInvariant == Spec => []SameLogs
<1>1. Structure /\ Offchain /\ Line => SameLogs
  BY ReadLogIsChainLog DEF SameLogs
<1>2. QED
  BY <1>1, StructureInvariant, OffchainInvariant, LineInvariant, PTL

\* On the development chain, what clients read from a node that indexed every
\* block is such a log as well: a message that has been read once is read
\* again, under the same event, for ever.
THEOREM ReadMessagesAreALog == Spec => ReaderImplementsLog
<1>1. ASSUME Init, NEW n \in Indexing \ WarpNodes PROVE Reader(n)!Init
  <2>1. finalized[n] = Genesis
    BY <1>1, NodeAssumption DEF Init
  <2>2. StateOf(Genesis).sent = << >>
    BY StateOfGenesis DEF GenesisState
  <2>3. DOMAIN StateOf(Genesis).sent = {}
    BY <2>2
  <2>4. ReadLog(Genesis, offchain[n]) = << >>
    BY <2>3 DEF ReadLog, LogOf
  <2>5. QED
    BY <2>1, <2>4 DEF Reader!Init
<1>2. ASSUME Structure, Finality, SameLogs, SameLogs', [Next]_vars,
             Len(authorities) = 1, NEW n \in Indexing \ WarpNodes
      PROVE  LET before == ReadLog(finalized[n], offchain[n])
                 after  == ReadLog(finalized'[n], offchain'[n])
             IN after = before \/ Reader(n)!Extends(after, before)
  <2>1. authorities' = authorities
    BY <1>2 DEF vars, Next, Author, Propose, Spread, SkipSlot, FinalityRound, Import, Store,
                Finalize, WarpSync
  <2>2. ReadLog(finalized[n], offchain[n]) = ChainLog(finalized[n])
    BY <1>2 DEF SameLogs
  <2>3. ReadLog(finalized'[n], offchain'[n]) = ChainLog(finalized'[n])
    BY <1>2, <2>1 DEF SameLogs
  <2>4. CASE UNCHANGED vars
    BY <2>4 DEF vars
  <2>5. CASE Next
    <3>1. finalized[n] \in Chains /\ n \in Nodes
      BY <1>2, NodeAssumption DEF Structure
    <3>2. finalized'[n] \in Chains /\ IsPrefix(finalized[n], finalized'[n])
      BY <1>2, <2>5, <3>1, NextStep, FinalizedMovesUp
    <3>3. \/ ChainLog(finalized'[n]) = ChainLog(finalized[n])
          \/ Chain(n)!Extends(ChainLog(finalized'[n]), ChainLog(finalized[n]))
      BY <3>1, <3>2, ChainLogGrows
    <3>4. QED
      BY <2>2, <2>3, <3>3 DEF Chain!Extends, Reader!Extends
  <2>6. QED
    BY <1>2, <2>4, <2>5
<1>3. Init => \A n \in Indexing \ WarpNodes : Reader(n)!Init
  BY <1>1
<1>4. Structure /\ Finality /\ SameLogs /\ SameLogs' /\ [Next]_vars =>
        [Len(authorities) = 1 =>
          \A n \in Indexing \ WarpNodes :
            LET before == ReadLog(finalized[n], offchain[n])
                after  == ReadLog(finalized'[n], offchain'[n])
            IN after = before \/ Reader(n)!Extends(after, before)]_<<finalized, offchain>>
  BY <1>2
<1>5. QED
  BY <1>3, <1>4, StructureInvariant, SameLogsInvariant, PTL DEF Spec, ReaderImplementsLog

=============================================================================
