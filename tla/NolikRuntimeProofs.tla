-------------------------- MODULE NolikRuntimeProofs --------------------------
(***************************************************************************)
(* Proofs about NolikRuntime, for any accounts, any endowment, fee and     *)
(* existential deposit, and any set of signed extrinsics.                  *)
(***************************************************************************)
EXTENDS NolikRuntime, SequenceTheorems, FiniteSetTheorems, TLAPS

\* For induction over the numbers.
Nats == INSTANCE NolikFolds WITH Op <- +

USE CounterAssumption

LEMMA Amounts ==
  /\ ExistentialDeposit \in Nat \ {0} /\ Fee \in Nat \ {0} /\ Endowment \in Nat \ {0}
  /\ Endowment >= ExistentialDeposit
BY BalanceAssumption

Sent == [key : Keys, message : Bytes]
Storage ==
  [free : [Accounts -> Nat], nonce : [Accounts -> Nat], key : Accounts,
   counter : 0 .. MaxCounter, sent : Seq(Sent)]

\* Nothing is left of an account that is not stored.
Clean(s) == \A a \in Accounts : ~Exists(s, a) => s.free[a] = 0 /\ s.nonce[a] = 0

\* The counter is the number of messages, and every key carries its position.
Counted(s) ==
  /\ s.counter = Len(s.sent)
  /\ \A i \in 1 .. Len(s.sent) : s.sent[i].key.counter = i - 1

Good(s) == s \in Storage /\ Clean(s) /\ Counted(s)

\* What dispatching a call may do to the accounts: their nonces stay, except
\* that one account may be removed.
Reaped(s, t, a) == Exists(s, a) /\ ~Exists(t, a)
Calls(s, t) ==
  /\ Good(t)
  /\ \A a \in Accounts : t.nonce[a] = s.nonce[a] \/ Reaped(s, t, a)
  /\ \A a, b \in Accounts : Reaped(s, t, a) /\ Reaped(s, t, b) => a = b

-----------------------------------------------------------------------------
(* Sums over the accounts *)

Pick(s) == CHOOSE x \in s : TRUE
UpTo(S, n) == {s \in SUBSET S : Cardinality(s) <= n}
SumStep(g, f, s) == IF s = {} THEN 0 ELSE f[Pick(s)] + g[s \ {Pick(s)}]
IsSum(g, f, S, n) == g = [s \in UpTo(S, n) |-> SumStep(g, f, s)]

LEMMA PickOne ==
  ASSUME NEW S, IsFiniteSet(S), NEW n \in Nat, NEW s \in UpTo(S, n + 1), s # {}
  PROVE  Pick(s) \in s /\ Pick(s) \in S /\ s \ {Pick(s)} \in UpTo(S, n)
<1>1. Pick(s) \in s
  BY DEF Pick
<1>2. s \in SUBSET S /\ Cardinality(s) <= n + 1
  BY DEF UpTo
<1>3. IsFiniteSet(s) /\ Cardinality(s) \in Nat
  BY <1>2, FS_Subset, FS_CardinalityType
<1> HIDE DEF Pick
<1>4. Cardinality(s \ {Pick(s)}) = Cardinality(s) - 1
  BY <1>1, <1>3, FS_RemoveElement
<1>5. QED
  BY <1>1, <1>2, <1>3, <1>4 DEF UpTo

LEMMA SumExists ==
  ASSUME NEW S, IsFiniteSet(S), NEW f, NEW n \in Nat
  PROVE  \E g : IsSum(g, f, S, n)
<1> DEFINE T == {m \in Nat : \E g : IsSum(g, f, S, m)}
<1>1. \A s \in UpTo(S, 0) : s = {}
  <2> SUFFICES ASSUME NEW s \in UpTo(S, 0) PROVE s = {}
    OBVIOUS
  <2>1. IsFiniteSet(s) /\ Cardinality(s) \in Nat /\ Cardinality(s) <= 0
    BY FS_Subset, FS_CardinalityType DEF UpTo
  <2>2. QED
    BY <2>1, FS_EmptySet
<1>2. 0 \in T
  <2> DEFINE g == [s \in UpTo(S, 0) |-> 0]
  <2>1. \A s \in UpTo(S, 0) : SumStep(g, f, s) = 0
    BY <1>1 DEF SumStep
  <2>2. IsSum(g, f, S, 0)
    BY <2>1 DEF IsSum
  <2>3. QED
    BY <2>2
<1>3. ASSUME NEW m \in Nat, m \in T PROVE m + 1 \in T
  <2>1. PICK g : IsSum(g, f, S, m)
    BY <1>3
  <2> DEFINE h == [s \in UpTo(S, m + 1) |-> SumStep(g, f, s)]
  <2>2. ASSUME NEW s \in UpTo(S, m) PROVE s \in UpTo(S, m + 1) /\ h[s] = g[s]
    <3>1. Cardinality(s) \in Nat /\ s \in SUBSET S /\ Cardinality(s) <= m
      BY FS_Subset, FS_CardinalityType DEF UpTo
    <3>2. s \in UpTo(S, m + 1)
      BY <3>1 DEF UpTo
    <3>3. g[s] = SumStep(g, f, s)
      BY <2>1 DEF IsSum
    <3>4. QED
      BY <3>2, <3>3
  <2>3. ASSUME NEW s \in UpTo(S, m + 1) PROVE SumStep(g, f, s) = SumStep(h, f, s)
    <3>1. CASE s = {}
      BY <3>1 DEF SumStep
    <3>2. CASE s # {}
      <4>1. h[s \ {Pick(s)}] = g[s \ {Pick(s)}]
        BY <2>2, <3>2, PickOne
      <4> HIDE DEF h
      <4>2. QED
        BY <3>2, <4>1 DEF SumStep
    <3>3. QED
      BY <3>1, <3>2
  <2>4. h = [s \in UpTo(S, m + 1) |-> SumStep(h, f, s)]
    <3>1. [s \in UpTo(S, m + 1) |-> SumStep(g, f, s)] =
          [s \in UpTo(S, m + 1) |-> SumStep(h, f, s)]
      <4> HIDE DEF h
      <4>1. QED
        BY <2>3
    <3>2. QED
      BY <3>1
  <2> HIDE DEF h
  <2>5. IsSum(h, f, S, m + 1)
    BY <2>4 DEF IsSum
  <2>6. QED
    BY <2>5
<1> HIDE DEF T
<1>4. \A m \in Nat : m \in T
  BY <1>2, <1>3, Nats!NatInductionSet
<1>5. QED
  BY <1>4 DEF T

LEMMA SumIsSum ==
  ASSUME NEW f, IsFiniteSet(DOMAIN f)
  PROVE  LET n == Cardinality(DOMAIN f) IN
         \E g : IsSum(g, f, DOMAIN f, n) /\ SumFunction(f) = g[DOMAIN f]
<1> DEFINE S == DOMAIN f
           n == Cardinality(S)
           Iter == CHOOSE g : g = [s \in SUBSET S |->
                     IF s = {} THEN 0 ELSE f[CHOOSE x \in s : TRUE]
                                            + g[s \ {CHOOSE x \in s : TRUE}]]
<1>1. SumFunction(f) = Iter[S]
  BY DEF SumFunction, SumFunctionOnSet, FoldFunctionOnSet, MapThenFoldSet
<1>2. n \in Nat
  BY FS_CardinalityType
<1>3. UpTo(S, n) = SUBSET S
  BY FS_Subset DEF UpTo
<1>4. IsSum(Iter, f, S, n)
  <2>1. PICK g : IsSum(g, f, S, n)
    BY <1>2, SumExists
  <2>2. g = [s \in SUBSET S |-> IF s = {} THEN 0 ELSE f[CHOOSE x \in s : TRUE]
                                            + g[s \ {CHOOSE x \in s : TRUE}]]
    <3> HIDE DEF S, n
    <3>1. QED
      BY <1>3, <2>1 DEF IsSum, SumStep, Pick
  <2>3. Iter = [s \in SUBSET S |-> IF s = {} THEN 0 ELSE f[CHOOSE x \in s : TRUE]
                                            + Iter[s \ {CHOOSE x \in s : TRUE}]]
    BY <2>2
  <2> HIDE DEF Iter, S, n
  <2>4. QED
    BY <1>3, <2>3 DEF IsSum, SumStep, Pick
<1> HIDE DEF Iter
<1>5. QED
  BY <1>1, <1>4

\* The sum of natural numbers, and what changing one of them does to it.
LEMMA SumChanged ==
  ASSUME NEW S, IsFiniteSet(S), NEW f \in [S -> Nat], NEW a \in S, NEW v \in Nat
  PROVE  LET e == [f EXCEPT ![a] = v] IN
         /\ SumFunction(f) \in Nat /\ SumFunction(e) \in Nat
         /\ SumFunction(e) + f[a] = SumFunction(f) + v
<1> DEFINE e == [f EXCEPT ![a] = v]
           n == Cardinality(S)
<1>1. n \in Nat /\ S \in UpTo(S, n)
  BY FS_CardinalityType DEF UpTo
<1>2. DOMAIN f = S /\ DOMAIN e = S /\ e \in [S -> Nat]
  OBVIOUS
<1>3. e[a] = v /\ \A x \in S : x # a => e[x] = f[x]
  OBVIOUS
<1> HIDE DEF e, n
<1>4. PICK g : IsSum(g, f, S, n) /\ SumFunction(f) = g[S]
  BY <1>2, SumIsSum DEF n
<1>5. PICK h : IsSum(h, e, S, n) /\ SumFunction(e) = h[S]
  BY <1>2, SumIsSum DEF n
<1> DEFINE Fact(s) == /\ g[s] \in Nat /\ h[s] \in Nat
                      /\ a \notin s => h[s] = g[s]
                      /\ a \in s => h[s] + f[a] = g[s] + v
           T == {m \in Nat : m <= n => \A s \in UpTo(S, m) : Fact(s)}
<1>6. 0 \in T
  <2> SUFFICES ASSUME NEW s \in UpTo(S, 0) PROVE Fact(s)
    OBVIOUS
  <2>1. IsFiniteSet(s) /\ Cardinality(s) \in Nat /\ Cardinality(s) <= 0 /\ s \in SUBSET S
    BY FS_Subset, FS_CardinalityType DEF UpTo
  <2>2. s = {}
    BY <2>1, FS_EmptySet
  <2>3. s \in UpTo(S, n)
    BY <1>1, <2>1 DEF UpTo
  <2>4. g[s] = 0 /\ h[s] = 0
    BY <1>4, <1>5, <2>2, <2>3 DEF IsSum, SumStep
  <2>5. QED
    BY <2>2, <2>4
<1>7. ASSUME NEW m \in Nat, m \in T PROVE m + 1 \in T
  <2> SUFFICES ASSUME m + 1 <= n, NEW s \in UpTo(S, m + 1) PROVE Fact(s)
    OBVIOUS
  <2>0. \A t \in UpTo(S, m) : Fact(t)
    <3> HIDE DEF Fact
    <3>1. QED
      BY <1>1, <1>7
  <2> DEFINE r == s \ {Pick(s)}
             x == Pick(s)
  <2>1. CASE s = {}
    <3>1. {} \in UpTo(S, m)
      BY FS_EmptySet DEF UpTo
    <3>2. QED
      BY <2>0, <2>1, <3>1
  <2>2. CASE s # {}
    <3>1. x \in s /\ x \in S /\ r \in UpTo(S, m)
      BY <2>2, PickOne
    <3>2. s \in UpTo(S, n)
      BY <1>1, FS_Subset, FS_CardinalityType DEF UpTo
    <3>3. g[s] = f[x] + g[r] /\ h[s] = e[x] + h[r]
      BY <1>4, <1>5, <2>2, <3>2 DEF IsSum, SumStep
    <3>4. Fact(r)
      BY <2>0, <3>1
    <3>5. (a \in s <=> a \in r \/ a = x) /\ (a = x => a \notin r)
      BY <3>1
    <3>6. f[x] \in Nat /\ e[x] \in Nat /\ f[a] \in Nat
      BY <1>2, <3>1
    <3> HIDE DEF r, x
    <3>7. CASE a = x
      BY <1>3, <3>3, <3>4, <3>5, <3>6, <3>7
    <3>8. CASE a # x
      BY <1>3, <3>1, <3>3, <3>4, <3>5, <3>6, <3>8
    <3>9. QED
      BY <3>7, <3>8
  <2>3. QED
    BY <2>1, <2>2
<1> HIDE DEF T
<1>8. n \in T
  BY <1>1, <1>6, <1>7, Nats!NatInductionSet
<1>9. Fact(S)
  BY <1>1, <1>8 DEF T
<1>10. QED
  BY <1>4, <1>5, <1>9 DEF e

-----------------------------------------------------------------------------
(* Calls *)

LEMMA DepositResult ==
  ASSUME NEW s \in Storage, NEW who \in Accounts, NEW amount \in Nat
  PROVE  LET t == Deposit(s, who, amount) IN
         /\ t \in Storage
         /\ t.free = [s.free EXCEPT ![who] = IF amount >= ExistentialDeposit THEN amount ELSE 0]
         /\ t.nonce = IF amount >= ExistentialDeposit THEN s.nonce
                      ELSE [s.nonce EXCEPT ![who] = 0]
         /\ t.key = s.key /\ t.counter = s.counter /\ t.sent = s.sent
<1>1. CASE amount >= ExistentialDeposit
  BY <1>1 DEF Deposit, Storage
<1>2. CASE ~(amount >= ExistentialDeposit)
  BY <1>2 DEF Deposit, Storage
<1>3. QED
  BY <1>1, <1>2

\* A call that changes nothing.
LEMMA NoCall ==
  ASSUME NEW s, Good(s) PROVE Calls(s, s)
BY DEF Calls, Reaped

LEMMA SendMessageCalls ==
  ASSUME NEW s, Good(s), NEW origin, NEW call, call.message \in Bytes
  PROVE  Calls(s, SendMessage(s, origin, call))
<1> DEFINE t == SendMessage(s, origin, call)
           accepted == DispatchResult(origin, call.metadata, call.message, s.counter) = "Ok"
<1>1. CASE ~accepted
  BY <1>1, NoCall DEF SendMessage
<1>2. CASE accepted
  <2>1. origin \in Accounts /\ ~Overflowed(s.counter)
    BY <1>2 DEF DispatchResult
  <2>2. s.counter \in 0 .. MaxCounter /\ s.sent \in Seq(Sent) /\ s.counter = Len(s.sent)
    BY DEF Good, Storage, Counted
  <2>3. /\ WrappingSucc(s.counter) = s.counter + 1
        /\ WrappingSucc(s.counter) \in 0 .. MaxCounter
        /\ KeyOfNext(origin, s.counter) = [account |-> origin, counter |-> s.counter]
        /\ KeyOfNext(origin, s.counter) \in Keys
    BY <2>1, <2>2 DEF Overflowed, WrappingSucc, KeyOfNext, DerivedKey, Keys
  <2> DEFINE new == [key |-> KeyOfNext(origin, s.counter), message |-> call.message]
  <2>4. /\ t \in Storage
        /\ t.free = s.free /\ t.nonce = s.nonce /\ t.key = s.key
        /\ t.counter = s.counter + 1 /\ t.sent = Append(s.sent, new)
    <3>1. new \in Sent /\ Append(s.sent, new) \in Seq(Sent)
      BY <2>2, <2>3 DEF Sent
    <3>2. t = [s EXCEPT !.counter = WrappingSucc(s.counter), !.sent = Append(s.sent, new)]
      BY <1>2 DEF SendMessage
    <3>3. s \in Storage
      BY DEF Good
    <3> HIDE DEF t, new
    <3>4. QED
      BY <2>3, <3>1, <3>2, <3>3 DEF Storage
  <2>5. Clean(t)
    BY <2>4 DEF Good, Clean, Exists
  <2>6. Counted(t)
    <3>1. /\ Len(t.sent) = Len(s.sent) + 1
          /\ \A i \in 1 .. Len(s.sent) : t.sent[i] = s.sent[i]
          /\ t.sent[Len(s.sent) + 1] = new
      BY <2>2, <2>3, <2>4 DEF Sent
    <3>2. new.key.counter = Len(s.sent)
      BY <2>2, <2>3
    <3>3. Len(s.sent) \in Nat /\ \A i \in 1 .. Len(s.sent) : s.sent[i].key.counter = i - 1
      BY <2>2 DEF Good, Counted
    <3> HIDE DEF t, new
    <3>4. ASSUME NEW i \in 1 .. Len(t.sent) PROVE t.sent[i].key.counter = i - 1
      <4>1. CASE i = Len(s.sent) + 1
        BY <3>1, <3>2, <3>3, <4>1
      <4>2. CASE i # Len(s.sent) + 1
        <5>1. i \in 1 .. Len(s.sent)
          BY <3>1, <3>3, <4>2
        <5>2. QED
          BY <3>1, <3>3, <5>1
      <4>3. QED
        BY <4>1, <4>2
    <3>5. QED
      BY <2>2, <2>4, <3>1, <3>4 DEF Counted
  <2>7. QED
    BY <2>4, <2>5, <2>6 DEF Calls, Good, Reaped, Exists
<1>3. QED
  BY <1>1, <1>2

\* Only the account that a transfer comes from may be removed: the receiver
\* ends with the existential deposit at least.
LEMMA TransferCalls ==
  ASSUME NEW s, Good(s), NEW origin, NEW call, call.dest \in Accounts, call.value \in Nat
  PROVE  Calls(s, Transfer(s, origin, call))
<1>1. CASE ~MayTransfer(s, origin, call)
  BY <1>1, NoCall DEF Transfer
<1>2. CASE MayTransfer(s, origin, call)
  <2> DEFINE dest == call.dest
             value == call.value
             r == Deposit(s, dest, s.free[dest] + value)
             t == Deposit(r, origin, s.free[origin] - value)
  <2>1. /\ origin \in Accounts /\ origin # dest /\ value > 0
        /\ s.free[origin] >= value /\ s.free[dest] + value >= ExistentialDeposit
    BY <1>2 DEF MayTransfer
  <2>2. /\ s \in Storage /\ s.free[origin] \in Nat /\ s.free[dest] \in Nat
        /\ s.free[dest] + value \in Nat /\ s.free[origin] - value \in Nat
    <3>1. s \in Storage /\ s.free \in [Accounts -> Nat]
      BY DEF Good, Storage
    <3>2. s.free[origin] \in Nat /\ s.free[dest] \in Nat
      BY <2>1, <3>1
    <3>3. QED
      BY <2>1, <3>1, <3>2
  <2>3. /\ r \in Storage /\ r.free = [s.free EXCEPT ![dest] = s.free[dest] + value]
        /\ r.nonce = s.nonce
        /\ r.key = s.key /\ r.counter = s.counter /\ r.sent = s.sent
    BY <2>1, <2>2, DepositResult
  <2> DEFINE left == s.free[origin] - value
  <2>4. /\ t \in Storage
        /\ t.free = [r.free EXCEPT ![origin] = IF left >= ExistentialDeposit THEN left ELSE 0]
        /\ t.nonce = IF left >= ExistentialDeposit THEN r.nonce
                     ELSE [r.nonce EXCEPT ![origin] = 0]
        /\ t.key = s.key /\ t.counter = s.counter /\ t.sent = s.sent
    BY <2>1, <2>2, <2>3, DepositResult
  <2> HIDE DEF r, t, left
  <2>5. /\ s.free \in [Accounts -> Nat] /\ s.nonce \in [Accounts -> Nat] /\ left \in Nat
        /\ r.free \in [Accounts -> Nat]
    BY <2>2, <2>3 DEF Storage, left
  <2>6. /\ t.free[dest] >= ExistentialDeposit
        /\ t.nonce[dest] = s.nonce[dest]
        /\ \A a \in Accounts \ {origin, dest} :
             t.free[a] = s.free[a] /\ t.nonce[a] = s.nonce[a]
        /\ t.free[origin] = IF left >= ExistentialDeposit THEN left ELSE 0
        /\ t.nonce[origin] = IF left >= ExistentialDeposit THEN s.nonce[origin] ELSE 0
    BY <2>1, <2>3, <2>4, <2>5
  <2>7. Exists(s, origin)
    BY <2>1, <2>2 DEF Good, Clean
  <2>8. Clean(t)
    BY <2>1, <2>5, <2>6 DEF Good, Clean, Exists
  <2>9. Counted(t)
    BY <2>4 DEF Good, Counted
  <2>10. \A a \in Accounts : t.nonce[a] = s.nonce[a] \/ Reaped(s, t, a)
    <3>1. CASE left >= ExistentialDeposit
      BY <2>1, <2>6, <3>1
    <3>2. CASE ~(left >= ExistentialDeposit)
      <4>1. Reaped(s, t, origin)
        BY <2>6, <2>7, <3>2, Amounts DEF Reaped, Exists
      <4>2. QED
        BY <2>1, <2>6, <4>1
    <3>3. QED
      BY <3>1, <3>2
  <2>11. \A a \in Accounts : Reaped(s, t, a) => a = origin
    BY <2>1, <2>5, <2>6 DEF Reaped, Exists
  <2>12. Calls(s, t)
    BY <2>4, <2>8, <2>9, <2>10, <2>11 DEF Calls, Good
  <2>13. Transfer(s, origin, call) = t
    BY <1>2 DEF Transfer, t, r, left
  <2>14. QED
    BY <2>12, <2>13
<1>3. QED
  BY <1>1, <1>2

LEMMA PlainCalls ==
  ASSUME NEW s, Good(s), NEW origin, NEW call, PlainCall(call)
  PROVE  Calls(s, DispatchCall(s, origin, call))
<1>1. CASE call.name = "send_message"
  <2>1. DispatchCall(s, origin, call) = SendMessage(s, origin, call)
    BY <1>1 DEF DispatchCall
  <2>2. call.message \in Bytes
    BY <1>1 DEF PlainCall
  <2>3. QED
    BY <2>1, <2>2, SendMessageCalls
<1>2. CASE call.name \in {"transfer", "transfer_keep_alive"}
  <2>1. DispatchCall(s, origin, call) = Transfer(s, origin, call)
    BY <1>2 DEF DispatchCall
  <2>2. call.dest \in Accounts /\ call.value \in Nat
    BY <1>2 DEF PlainCall
  <2>3. QED
    BY <2>1, <2>2, TransferCalls
<1>3. CASE call.name = "remark"
  BY <1>3, NoCall DEF DispatchCall
<1>4. QED
  BY <1>1, <1>2, <1>3 DEF PlainCall

\* The calls of an extrinsic, those of the sudo pallet among them.
LEMMA DispatchCalls ==
  ASSUME NEW s, Good(s), NEW tx \in Signed
  PROVE  Calls(s, Dispatch(s, tx))
<1>1. tx.account \in Accounts /\ (PlainCall(tx.call) \/ SudoCall(tx.call))
  BY SignedAssumption
<1>2. CASE tx.call.name \notin SudoCalls
  <2>1. PlainCall(tx.call)
    BY <1>1, <1>2 DEF SudoCall, SudoCalls
  <2>2. Dispatch(s, tx) = DispatchCall(s, tx.account, tx.call)
    BY <1>2 DEF Dispatch
  <2>3. QED
    BY <1>1, <2>1, <2>2, PlainCalls
<1>3. CASE tx.call.name \in SudoCalls
  <2>1. SudoCall(tx.call)
    BY <1>1, <1>3 DEF PlainCall, SudoCalls
  <2>2. Dispatch(s, tx) = Sudo(s, tx.account, tx.call)
    BY <1>3 DEF Dispatch
  <2>3. CASE ~HoldsKey(s, tx.account)
    BY <2>2, <2>3, NoCall DEF Sudo
  <2>4. CASE HoldsKey(s, tx.account) /\ tx.call.name = "sudo"
    <3>1. Sudo(s, tx.account, tx.call) = DispatchCall(s, Root, tx.call.call)
      BY <2>4 DEF Sudo
    <3>2. PlainCall(tx.call.call)
      BY <2>1, <2>4 DEF SudoCall
    <3>3. QED
      BY <1>1, <2>2, <3>1, <3>2, PlainCalls
  <2>5. CASE HoldsKey(s, tx.account) /\ tx.call.name = "sudo_as"
    <3>1. Sudo(s, tx.account, tx.call) = DispatchCall(s, tx.call.who, tx.call.call)
      BY <2>5 DEF Sudo
    <3>2. PlainCall(tx.call.call)
      BY <2>1, <2>5 DEF SudoCall
    <3>3. QED
      BY <1>1, <2>2, <3>1, <3>2, PlainCalls
  <2>6. CASE HoldsKey(s, tx.account) /\ tx.call.name = "set_key"
    <3>1. Sudo(s, tx.account, tx.call) = [s EXCEPT !.key = tx.call.new]
      BY <2>6 DEF Sudo
    <3>2. tx.call.new \in Accounts
      BY <2>1, <2>6 DEF SudoCall
    <3> DEFINE t == [s EXCEPT !.key = tx.call.new]
    <3>3. /\ t \in Storage /\ t.free = s.free /\ t.nonce = s.nonce
          /\ t.counter = s.counter /\ t.sent = s.sent
      BY <3>2 DEF Good, Storage
    <3> HIDE DEF t
    <3>4. Calls(s, t)
      BY <3>3 DEF Calls, Reaped, Good, Clean, Counted, Exists
    <3>5. QED
      BY <2>2, <3>1, <3>4 DEF t
  <2>7. QED
    BY <1>3, <2>3, <2>4, <2>5, <2>6 DEF SudoCalls
<1>4. QED
  BY <1>2, <1>3

-----------------------------------------------------------------------------
(* Extrinsics *)

\* Only the nonce of the signer moves, unless an account is removed; fee and
\* refund never remove one.
Moved(s, t, who) ==
  /\ Good(t)
  /\ \A a \in Accounts :
       \/ t.nonce[a] = IF a = who THEN s.nonce[a] + 1 ELSE s.nonce[a]
       \/ Reaped(s, t, a)
  /\ \A a, b \in Accounts : Reaped(s, t, a) /\ Reaped(s, t, b) => a = b

LEMMA PreDispatchResult ==
  ASSUME Good(state), NEW tx \in Signed, Includable(tx)
  PROVE  LET t == PreDispatch(state, tx) IN
         /\ Good(t)
         /\ t.nonce = [state.nonce EXCEPT ![tx.account] = @ + 1]
         /\ \A a \in Accounts : Exists(t, a) <=> Exists(state, a)
         /\ t.sent = state.sent /\ t.key = state.key
<1> DEFINE t == PreDispatch(state, tx)
<1>1. tx.account \in Accounts
  BY SignedAssumption
<1>2. state \in Storage /\ state.free \in [Accounts -> Nat] /\ state.nonce \in [Accounts -> Nat]
  BY DEF Good, Storage
<1>3. /\ state.free[tx.account] \in Nat /\ state.nonce[tx.account] \in Nat
      /\ state.free[tx.account] - Fee >= ExistentialDeposit
      /\ state.free[tx.account] - Fee \in Nat
  BY <1>1, <1>2, Amounts DEF Includable
<1>4. /\ t \in Storage
      /\ t.free = [state.free EXCEPT ![tx.account] = @ - Fee]
      /\ t.nonce = [state.nonce EXCEPT ![tx.account] = @ + 1]
      /\ t.key = state.key /\ t.counter = state.counter /\ t.sent = state.sent
  <2> DEFINE free == [state.free EXCEPT ![tx.account] = @ - Fee]
             nonce == [state.nonce EXCEPT ![tx.account] = @ + 1]
  <2>1. free \in [Accounts -> Nat] /\ nonce \in [Accounts -> Nat]
    BY <1>1, <1>2, <1>3
  <2>2. t = [state EXCEPT !.nonce = nonce, !.free = free]
    BY <1>1, <1>2 DEF PreDispatch, Storage
  <2> HIDE DEF t, free, nonce
  <2>3. /\ t \in Storage /\ t.free = free /\ t.nonce = nonce
        /\ t.key = state.key /\ t.counter = state.counter /\ t.sent = state.sent
    BY <1>2, <2>1, <2>2 DEF Storage
  <2>4. QED
    BY <2>3 DEF free, nonce
<1> HIDE DEF t
<1>5. ASSUME NEW a \in Accounts
      PROVE  /\ Exists(t, a) <=> Exists(state, a)
             /\ ~Exists(t, a) => t.free[a] = 0 /\ t.nonce[a] = 0
  <2>1. CASE a = tx.account
    BY <1>2, <1>3, <1>4, <2>1, Amounts DEF Exists
  <2>2. CASE a # tx.account
    BY <1>2, <1>4, <2>2 DEF Exists, Good, Clean
  <2>3. QED
    BY <2>1, <2>2
<1>6. Good(t)
  BY <1>4, <1>5 DEF Good, Clean, Counted
<1>7. QED
  BY <1>4, <1>5, <1>6 DEF t

LEMMA RefundResult ==
  ASSUME NEW s, Good(s), NEW who \in Accounts
  PROVE  LET t == Refund(s, who) IN
         /\ Good(t) /\ t.nonce = s.nonce /\ t.sent = s.sent /\ t.key = s.key
         /\ \A a \in Accounts : Exists(t, a) <=> Exists(s, a)
<1> DEFINE t == Refund(s, who)
<1>1. CASE ~Exists(s, who)
  BY <1>1 DEF Refund
<1>2. CASE Exists(s, who)
  <2>1. s \in Storage /\ s.free \in [Accounts -> Nat] /\ s.free[who] + Fee \in Nat
        /\ s.free[who] \in Nat
    BY Amounts DEF Good, Storage
  <2>2. /\ t \in Storage /\ t.free = [s.free EXCEPT ![who] = @ + Fee]
        /\ t.nonce = s.nonce /\ t.key = s.key /\ t.counter = s.counter /\ t.sent = s.sent
    BY <1>2, <2>1 DEF Refund, Storage
  <2> HIDE DEF t
  <2>3. ASSUME NEW a \in Accounts
        PROVE  (Exists(t, a) <=> Exists(s, a)) /\ (~Exists(t, a) => t.free[a] = 0)
    <3>1. CASE a = who
      BY <1>2, <2>1, <2>2, <3>1, Amounts DEF Exists
    <3>2. CASE a # who
      BY <2>1, <2>2, <3>2 DEF Exists, Good, Clean
    <3>3. QED
      BY <3>1, <3>2
  <2>4. Good(t)
    BY <2>2, <2>3 DEF Good, Clean, Counted
  <2>5. QED
    BY <2>2, <2>3, <2>4 DEF t
<1>3. QED
  BY <1>1, <1>2

LEMMA ExtrinsicResult ==
  ASSUME Good(state), NEW tx \in Signed, Includable(tx), NEW paying \in BOOLEAN
  PROVE  Moved(state, PostDispatch(Dispatch(PreDispatch(state, tx), tx), paying, tx), tx.account)
<1> DEFINE ready == PreDispatch(state, tx)
           called == Dispatch(ready, tx)
           after == PostDispatch(called, paying, tx)
<1>1. tx.account \in Accounts /\ state.nonce \in [Accounts -> Nat]
  BY SignedAssumption DEF Good, Storage
<1>2. /\ Good(ready)
      /\ ready.nonce = [state.nonce EXCEPT ![tx.account] = @ + 1]
      /\ \A a \in Accounts : Exists(ready, a) <=> Exists(state, a)
  BY PreDispatchResult
<1>3. Calls(ready, called)
  BY <1>2, DispatchCalls
<1>4. /\ Good(after) /\ after.nonce = called.nonce
      /\ \A a \in Accounts : Exists(after, a) <=> Exists(called, a)
  <2>1. Good(called)
    BY <1>3 DEF Calls
  <2>2. CASE paying
    BY <2>1, <2>2 DEF PostDispatch
  <2>3. CASE ~paying
    BY <1>1, <2>1, <2>3, RefundResult DEF PostDispatch
  <2>4. QED
    BY <2>2, <2>3
<1> HIDE DEF ready, called, after
<1>5. \A a \in Accounts : Reaped(state, after, a) <=> Reaped(ready, called, a)
  BY <1>2, <1>4 DEF Reaped
<1>6. \A a \in Accounts :
        ready.nonce[a] = IF a = tx.account THEN state.nonce[a] + 1 ELSE state.nonce[a]
  BY <1>1, <1>2
<1>7. Moved(state, after, tx.account)
  BY <1>3, <1>4, <1>5, <1>6 DEF Moved, Calls
<1>8. QED
  BY <1>7 DEF ready, called, after

-----------------------------------------------------------------------------
(* The inductive invariant: as long as its account has not been removed     *)
(* since, the nonce of an executed extrinsic lies behind the account's.     *)

Entry == [kind : {"executed"}, tx : Signed, key : Accounts, messages : SUBSET Nat]
           \cup [kind : {"removed"}, account : Accounts]

RemovedIn(from, to, a) == \E k \in from .. to : history[k] = Removed(a)

Behind ==
  \A i \in 1 .. Len(history) : history[i].kind = "executed" =>
    LET tx == history[i].tx IN
    \/ tx.nonce < state.nonce[tx.account]
    \/ RemovedIn(i + 1, Len(history), tx.account)

Blocks == block \in 1 .. MaxBlock /\ hashes \subseteq 0 .. block - 1

IndInv == Blocks /\ Good(state) /\ history \in Seq(Entry) /\ Behind /\ ReplayNeedsRemoval

\* What executing an extrinsic appends to the history: its own entry, and then
\* the account that it removed, if any.
LEMMA HistoryStep ==
  ASSUME IndInv, NEW tx \in Signed, ApplyExtrinsic(tx)
  PROVE  /\ history' \in Seq(Entry)
         /\ Len(history') \in {Len(history) + 1, Len(history) + 2}
         /\ \A i \in 1 .. Len(history) : history'[i] = history[i]
         /\ history'[Len(history) + 1] = Executed(tx, state')
         /\ Len(history') = Len(history) + 2 => history'[Len(history) + 2].kind = "removed"
         /\ \A a \in Accounts : Reaped(state, state', a) =>
              Len(history') = Len(history) + 2 /\ history'[Len(history) + 2] = Removed(a)
         /\ Moved(state, state', tx.account)
         /\ Includable(tx)
<1> DEFINE reaped == {a \in Accounts : Exists(state, a) /\ ~Exists(state', a)}
           one == Append(history, Executed(tx, state'))
<1>1. /\ Includable(tx)
      /\ state' = PostDispatch(Dispatch(PreDispatch(state, tx), tx), PaysFee(state, tx), tx)
      /\ history' = one \o (IF reaped = {} THEN << >>
                            ELSE <<Removed(CHOOSE a \in reaped : TRUE)>>)
  BY DEF ApplyExtrinsic
<1>2. Moved(state, state', tx.account)
  <2>1. PaysFee(state, tx) \in BOOLEAN
    BY DEF PaysFee
  <2>2. QED
    BY <1>1, <2>1, ExtrinsicResult DEF IndInv
<1>3. Executed(tx, state') \in Entry /\ history \in Seq(Entry)
  <2>1. Len(state.sent) \in Nat /\ Len(state'.sent) \in Nat
    BY <1>2 DEF IndInv, Moved, Good, Storage
  <2>2. Len(state.sent) + 1 .. Len(state'.sent) \in SUBSET Nat
    BY <2>1
  <2>3. QED
    BY <2>2 DEF IndInv, Good, Storage, Executed, Entry
<1>4. /\ one \in Seq(Entry) /\ Len(one) = Len(history) + 1 /\ Len(history) \in Nat
      /\ \A i \in 1 .. Len(history) : one[i] = history[i]
      /\ one[Len(history) + 1] = Executed(tx, state')
  BY <1>3
<1>5. \A a \in Accounts : Reaped(state, state', a) <=> a \in reaped
  BY DEF Reaped
<1>6. CASE reaped = {}
  <2>1. history' = one
    BY <1>1, <1>4, <1>6
  <2>2. QED
    BY <1>1, <1>2, <1>4, <1>5, <1>6, <2>1
<1>7. CASE reaped # {}
  <2> DEFINE c == CHOOSE a \in reaped : TRUE
  <2>1. c \in reaped
    BY <1>7
  <2> HIDE DEF c
  <2>2. \A a \in reaped : a = c
    BY <1>2, <1>5, <2>1 DEF Moved
  <2>3. Removed(c) \in Entry /\ Removed(c).kind = "removed"
    BY <2>1 DEF Removed, Entry
  <2>4. history' = one \o <<Removed(c)>>
    BY <1>1, <1>7 DEF c
  <2> HIDE DEF reaped, one
  <2>5. /\ history' \in Seq(Entry) /\ Len(history') = Len(history) + 2
        /\ \A i \in 1 .. Len(history) + 1 : history'[i] = one[i]
        /\ history'[Len(history) + 2] = Removed(c)
    BY <1>4, <2>3, <2>4
  <2>6. \A i \in 1 .. Len(history) : history'[i] = history[i]
    BY <1>4, <2>5
  <2>7. history'[Len(history) + 1] = Executed(tx, state')
    BY <1>4, <2>5
  <2>8. QED
    BY <1>1, <1>2, <1>5, <2>2, <2>3, <2>5, <2>6, <2>7
<1>8. QED
  BY <1>6, <1>7

LEMMA ApplyExtrinsicStep ==
  ASSUME IndInv, NEW tx \in Signed, ApplyExtrinsic(tx)
  PROVE  IndInv'
<1> DEFINE n == Len(history)
<1>1. /\ history' \in Seq(Entry)
      /\ Len(history') \in {n + 1, n + 2}
      /\ \A i \in 1 .. n : history'[i] = history[i]
      /\ history'[n + 1] = Executed(tx, state')
      /\ Len(history') = n + 2 => history'[n + 2].kind = "removed"
      /\ \A a \in Accounts : Reaped(state, state', a) =>
           Len(history') = n + 2 /\ history'[n + 2] = Removed(a)
      /\ Moved(state, state', tx.account)
      /\ Includable(tx)
  BY HistoryStep
<1>2. n \in Nat /\ history \in Seq(Entry)
  BY DEF IndInv
<1>3. Blocks'
  BY DEF ApplyExtrinsic, IndInv, Blocks
<1>4. Good(state')
  BY <1>1 DEF Moved
<1>5. /\ tx.account \in Accounts /\ tx.nonce \in Nat
      /\ tx.nonce = state.nonce[tx.account]
      /\ state.nonce \in [Accounts -> Nat]
  BY <1>1, SignedAssumption DEF Includable, IndInv, Good, Storage
<1>6. ASSUME NEW a \in Accounts
      PROVE  \/ state'.nonce[a] >= state.nonce[a] + (IF a = tx.account THEN 1 ELSE 0)
             \/ Reaped(state, state', a)
  BY <1>1, <1>5 DEF Moved
<1>7. Behind'
  <2> SUFFICES ASSUME NEW i \in 1 .. Len(history'), history'[i].kind = "executed"
               PROVE  \/ history'[i].tx.nonce < state'.nonce[history'[i].tx.account]
                      \/ \E k \in i + 1 .. Len(history') :
                           history'[k] = Removed(history'[i].tx.account)
    BY DEF Behind, RemovedIn
  <2> DEFINE t == history'[i].tx
             a == t.account
  <2>1. CASE i \in 1 .. n
    <3>1. history'[i] = history[i] /\ history[i] \in Entry
      BY <1>1, <1>2, <2>1
    <3>2. t \in Signed /\ a \in Accounts /\ t.nonce \in Nat
      BY <3>1, SignedAssumption DEF Entry
    <3>3. \/ t.nonce < state.nonce[a]
          \/ \E k \in i + 1 .. n : history[k] = Removed(a)
      BY <2>1, <3>1 DEF IndInv, Behind, RemovedIn
    <3>4. CASE \E k \in i + 1 .. n : history[k] = Removed(a)
      <4>1. PICK k \in i + 1 .. n : history[k] = Removed(a)
        BY <3>4
      <4>2. k \in 1 .. n /\ k \in i + 1 .. Len(history')
        BY <1>1, <1>2, <2>1
      <4>3. history'[k] = Removed(a)
        BY <1>1, <4>1, <4>2
      <4>4. QED
        BY <4>2, <4>3
    <3>5. CASE Reaped(state, state', a)
      <4>1. Len(history') = n + 2 /\ history'[n + 2] = Removed(a)
        BY <1>1, <3>2, <3>5
      <4>2. n + 2 \in i + 1 .. Len(history')
        BY <1>2, <2>1, <4>1
      <4>3. QED
        BY <4>1, <4>2
    <3>6. CASE t.nonce < state.nonce[a] /\ ~Reaped(state, state', a)
      <4>1. state'.nonce[a] \in Nat /\ state.nonce[a] \in Nat
        BY <1>4, <1>5, <3>2 DEF Good, Storage
      <4>2. state'.nonce[a] >= state.nonce[a]
        BY <1>6, <3>2, <3>6, <4>1
      <4>3. QED
        BY <3>2, <3>6, <4>1, <4>2
    <3>7. QED
      BY <3>3, <3>4, <3>5, <3>6
  <2>2. CASE i = n + 1
    <3>1. t = tx
      BY <1>1, <2>2 DEF Executed
    <3>2. CASE Reaped(state, state', tx.account)
      <4>1. Len(history') = n + 2 /\ history'[n + 2] = Removed(tx.account)
        BY <1>1, <1>5, <3>2
      <4>2. n + 2 \in i + 1 .. Len(history')
        BY <1>2, <2>2, <4>1
      <4>3. QED
        BY <3>1, <4>1, <4>2
    <3>3. CASE ~Reaped(state, state', tx.account)
      <4>1. state'.nonce[tx.account] \in Nat /\ state.nonce[tx.account] \in Nat
        BY <1>4, <1>5 DEF Good, Storage
      <4>2. state'.nonce[tx.account] >= state.nonce[tx.account] + 1
        BY <1>5, <1>6, <3>3
      <4>3. QED
        BY <1>5, <3>1, <4>1, <4>2
    <3>4. QED
      BY <3>2, <3>3
  <2>3. CASE i = n + 2
    <3>1. Len(history') = n + 2
      BY <1>1, <1>2, <2>3
    <3>2. QED
      BY <1>1, <2>3, <3>1
  <2>4. QED
    BY <1>1, <1>2, <2>1, <2>2, <2>3
<1>8. ReplayNeedsRemoval'
  <2> SUFFICES ASSUME NEW i \in 1 .. Len(history'), NEW j \in 1 .. Len(history'), i < j,
                      history'[i].kind = "executed", history'[j].kind = "executed",
                      history'[i].tx = history'[j].tx
               PROVE  \E k \in i + 1 .. j - 1 : history'[k] = Removed(history'[i].tx.account)
    <3>1. DOMAIN history' = 1 .. Len(history')
      BY <1>1
    <3>2. QED
      BY <3>1 DEF ReplayNeedsRemoval
  <2>1. j # n + 2
    <3>1. ASSUME j = n + 2 PROVE FALSE
      <4>1. Len(history') = n + 2
        BY <1>1, <1>2, <3>1
      <4>2. QED
        BY <1>1, <3>1, <4>1
    <3>2. QED
      BY <3>1
  <2>2. i \in 1 .. n /\ j \in 1 .. n + 1 /\ history'[i] = history[i]
    BY <1>1, <1>2, <2>1
  <2> DEFINE a == history[i].tx.account
  <2>3. CASE j \in 1 .. n
    <3>1. history'[j] = history[j]
      BY <1>1, <2>3
    <3>2. PICK k \in i + 1 .. j - 1 : history[k] = Removed(a)
      BY <1>2, <2>2, <2>3, <3>1 DEF IndInv, ReplayNeedsRemoval
    <3>3. k \in 1 .. n
      BY <1>2, <2>2, <2>3
    <3>4. history'[k] = Removed(a)
      BY <1>1, <3>2, <3>3
    <3>5. QED
      BY <2>2, <3>4
  <2>4. CASE j = n + 1
    <3>1. history[i].tx = tx
      BY <1>1, <2>2, <2>4 DEF Executed
    <3>2. ~(tx.nonce < state.nonce[tx.account])
      BY <1>5
    <3>3. PICK k \in i + 1 .. n : history[k] = Removed(tx.account)
      BY <2>2, <3>1, <3>2 DEF IndInv, Behind, RemovedIn
    <3>4. k \in 1 .. n /\ k \in i + 1 .. j - 1
      BY <1>2, <2>2, <2>4
    <3>5. history'[k] = Removed(tx.account)
      BY <1>1, <3>3, <3>4
    <3>6. QED
      BY <2>2, <3>1, <3>4, <3>5
  <2>5. QED
    BY <1>2, <2>2, <2>3, <2>4
<1>9. QED
  BY <1>1, <1>3, <1>4, <1>7, <1>8 DEF IndInv

LEMMA InitialStorage == Init => Good(state)
<1> SUFFICES ASSUME Init PROVE Good(state)
  OBVIOUS
<1>1. /\ state.free = [a \in Accounts |-> IF a \in Endowed THEN Endowment ELSE 0]
      /\ state.nonce = [a \in Accounts |-> 0]
      /\ state.counter = 0 /\ state.sent = << >> /\ state.key = SudoKey
      /\ state \in Storage
  BY Amounts, GenesisAssumption DEF Init, GenesisConfig, Storage
<1>2. Clean(state)
  BY <1>1, Amounts DEF Clean, Exists
<1>3. QED
  BY <1>1, <1>2 DEF Good, Counted

LEMMA Induction == Spec => []IndInv
<1>1. Init => IndInv
  <2> SUFFICES ASSUME Init PROVE IndInv
    OBVIOUS
  <2>1. history = << >> /\ block = 1 /\ hashes = {0}
    BY DEF Init
  <2>2. Blocks
    BY <2>1, BlockAssumption DEF Blocks
  <2>3. Behind /\ ReplayNeedsRemoval /\ history \in Seq(Entry)
    BY <2>1 DEF Behind, ReplayNeedsRemoval
  <2>4. QED
    BY <2>2, <2>3, InitialStorage DEF IndInv
<1>2. IndInv /\ [Next]_vars => IndInv'
  <2> SUFFICES ASSUME IndInv, [Next]_vars PROVE IndInv'
    OBVIOUS
  <2>1. CASE NextBlock
    <3>1. Blocks'
      <4>1. /\ block \in 1 .. MaxBlock /\ hashes \subseteq 0 .. block - 1
            /\ MaxBlock \in Nat /\ block < MaxBlock
        BY <2>1, BlockAssumption DEF NextBlock, IndInv, Blocks
      <4>2. block' = block + 1 /\ hashes' \subseteq hashes \cup {block}
        BY <2>1 DEF NextBlock
      <4>3. QED
        BY <4>1, <4>2 DEF Blocks
    <3>2. state' = state /\ history' = history
      BY <2>1 DEF NextBlock
    <3>3. Behind' /\ ReplayNeedsRemoval'
      BY <3>2 DEF IndInv, Behind, RemovedIn, ReplayNeedsRemoval
    <3>4. QED
      BY <3>1, <3>2, <3>3 DEF IndInv
  <2>2. ASSUME NEW tx \in Signed, ApplyExtrinsic(tx) PROVE IndInv'
    BY <2>2, ApplyExtrinsicStep
  <2>3. CASE UNCHANGED vars
    <3>1. Behind' /\ ReplayNeedsRemoval' /\ Blocks'
      BY <2>3 DEF vars, IndInv, Blocks, Behind, RemovedIn, ReplayNeedsRemoval
    <3>2. QED
      BY <2>3, <3>1 DEF vars, IndInv
  <2>4. QED
    BY <2>1, <2>2, <2>3 DEF Next
<1>3. QED
  BY <1>1, <1>2, PTL DEF Spec

-----------------------------------------------------------------------------

\* The storage keeps its types, and nothing is left of an account that is
\* below the existential deposit.
THEOREM TypeCorrect == Spec => []RuntimeTypeOK
<1>1. IndInv => RuntimeTypeOK
  <2> SUFFICES ASSUME IndInv PROVE RuntimeTypeOK
    OBVIOUS
  <2>1. state \in Storage /\ Clean(state)
    BY DEF IndInv, Good
  <2>2. \A i \in DOMAIN state.sent : state.sent[i] \in [key : Keys, message : Bytes]
    <3>1. state.sent \in Seq(Sent)
      BY <2>1 DEF Storage
    <3>2. \A i \in DOMAIN state.sent : state.sent[i] \in Sent
      BY <3>1
    <3>3. QED
      BY <3>2 DEF Sent
  <2>3. QED
    BY <2>1, <2>2 DEF IndInv, Blocks, Storage, Clean, RuntimeTypeOK
<1>2. QED
  BY <1>1, Induction, PTL

\* A signed extrinsic is never executed twice unless its account was removed
\* in between, whatever calls run, in whatever names.
THEOREM ReplayProtection == Spec => []ReplayNeedsRemoval
<1>1. IndInv => ReplayNeedsRemoval
  BY DEF IndInv
<1>2. QED
  BY <1>1, Induction, PTL

\* Keys of messages stay unique on the chain although nonces start again.
THEOREM KeysStayUnique == Spec => []MessageKeysUnique
<1>1. IndInv => MessageKeysUnique
  <2> SUFFICES ASSUME IndInv, NEW i \in DOMAIN state.sent, NEW j \in DOMAIN state.sent,
                      state.sent[i].key = state.sent[j].key
               PROVE  i = j
    BY DEF MessageKeysUnique
  <2>1. state.sent \in Seq(Sent) /\ DOMAIN state.sent = 1 .. Len(state.sent)
    BY DEF IndInv, Good, Storage
  <2>2. state.sent[i].key.counter = i - 1 /\ state.sent[j].key.counter = j - 1
    BY <2>1 DEF IndInv, Good, Counted
  <2>3. i - 1 = j - 1
    BY <2>2
  <2>4. QED
    BY <2>1, <2>3
<1>2. QED
  BY <1>1, Induction, PTL

-----------------------------------------------------------------------------
(* Eras.  Every hash of the last BlockHashCount blocks is stored, so a      *)
(* period that is not longer than that is over before its hash goes.        *)

PeriodFits == MortalPeriod \in Nat \ {0} /\ MortalPeriod <= BlockHashCount + 2

\* BlockHashCount of runtime/src/lib.rs:141.
LEMMA CodePeriodFits ==
  BlockHashCount = 2400 => MortalPeriod = 2048 /\ PeriodFits
<1> SUFFICES ASSUME BlockHashCount = 2400 PROVE MortalPeriod = 2048 /\ PeriodFits
  OBVIOUS
<1> DEFINE Enough(k) == 2 ^ k >= 2400
           S == {k \in 0 .. 2400 : Enough(k)}
<1>1. 12 \in S
  OBVIOUS
<1>2. ~Enough(0) /\ ~Enough(1) /\ ~Enough(2) /\ ~Enough(3)
  OBVIOUS
<1>3. ~Enough(4) /\ ~Enough(5) /\ ~Enough(6) /\ ~Enough(7)
  OBVIOUS
<1>4. ~Enough(8) /\ ~Enough(9) /\ ~Enough(10) /\ ~Enough(11)
  OBVIOUS
<1>5. ASSUME NEW k \in S PROVE 12 <= k
  <2> HIDE DEF Enough
  <2>1. k \in 0 .. 2400 /\ Enough(k)
    OBVIOUS
  <2> HIDE DEF S
  <2>2. /\ k # 0 /\ k # 1 /\ k # 2 /\ k # 3 /\ k # 4 /\ k # 5
        /\ k # 6 /\ k # 7 /\ k # 8 /\ k # 9 /\ k # 10 /\ k # 11
    BY <1>2, <1>3, <1>4, <2>1
  <2>3. QED
    BY <2>1, <2>2
<1>6. 2 ^ 12 = 4096
  OBVIOUS
<1> HIDE DEF S
<1>7. \A k \in S : k \in Nat
  BY DEF S
<1>8. Min(S) = 12
  BY <1>1, <1>5, <1>7 DEF Min
<1>9. NextPowerOfTwo(2400) = 4096
  BY <1>6, <1>8 DEF NextPowerOfTwo, S
<1>10. MortalPeriod = 2048
  BY <1>9 DEF MortalPeriod, MaxOf
<1>11. QED
  BY <1>10 DEF PeriodFits

\* Within a period of its birth block, and no longer, an era is born there.
LEMMA BirthIsEra ==
  ASSUME PeriodFits, NEW era \in Nat, NEW current \in Nat, era <= current
  PROVE  Birth(era, current) = era <=> current < era + MortalPeriod
<1> DEFINE p == MortalPeriod
           phase == era % p
           q == era \div p
           d == current - phase
           r == d \div p
<1>1. p \in Nat \ {0}
  BY DEF PeriodFits
<1> HIDE DEF p
<1>2. era = p * q + phase /\ phase \in Nat /\ q \in Nat /\ phase <= era
  <2>1. era = p * q + phase /\ phase \in Nat /\ q \in Nat
    BY <1>1
  <2>2. p * q \in Nat
    BY <1>1, <2>1
  <2> HIDE DEF phase, q
  <2>3. QED
    BY <2>1, <2>2
<1> HIDE DEF phase, q
<1>3. d \in Nat /\ current = d + phase
  BY <1>2
<1> HIDE DEF d
<1>4. d = p * r + (d % p) /\ d % p \in Nat /\ d % p < p /\ r \in Nat
  BY <1>1, <1>3
<1>5. Birth(era, current) = r * p + phase
  <2>1. MaxOf(current, phase) = current
    BY <1>2 DEF MaxOf
  <2>2. QED
    BY <2>1 DEF Birth, p, phase, d
<1> DEFINE rest == d % p
<1> HIDE DEF r, rest
<1>6. p * r = r * p /\ p * r \in Nat /\ p * q \in Nat
  BY <1>1, <1>2, <1>4
<1>7. ASSUME Birth(era, current) = era PROVE current < era + p
  BY <1>1, <1>2, <1>3, <1>4, <1>5, <1>6, <1>7
<1>8. ASSUME current < era + p PROVE Birth(era, current) = era
  <2>1. q * p <= d /\ d < q * p + p
    BY <1>1, <1>2, <1>3, <1>6, <1>8
  <2>2. d < (q + 1) * p
    BY <1>1, <1>2, <2>1
  <2>3. r = q
    BY <1>1, <1>2, <1>3, <2>1, <2>2 DEF r
  <2>4. QED
    BY <1>2, <1>5, <1>6, <2>3
<1>9. QED
  BY <1>7, <1>8 DEF p

Kept == hashes = {h \in 0 .. block - 1 : h = 0 \/ h >= block - 1 - BlockHashCount}

LEMMA KeptInvariant == Spec => [](Blocks /\ Kept)
<1>1. Init => Blocks /\ Kept
  BY BlockAssumption DEF Init, Blocks, Kept
<1>2. Blocks /\ Kept /\ [Next]_vars => (Blocks /\ Kept)'
  <2> SUFFICES ASSUME Blocks, Kept, [Next]_vars PROVE (Blocks /\ Kept)'
    OBVIOUS
  <2>1. CASE NextBlock
    <3>1. /\ block \in 1 .. MaxBlock /\ MaxBlock \in Nat /\ BlockHashCount \in Nat
          /\ block < MaxBlock /\ block' = block + 1
          /\ hashes' = (hashes \cup {block}) \ (1 .. block - BlockHashCount - 1)
      BY <2>1, BlockAssumption DEF NextBlock, Blocks
    <3>2. \A h : h \in hashes' <=> /\ h \in 0 .. block' - 1
                                   /\ h = 0 \/ h >= block' - 1 - BlockHashCount
      BY <3>1 DEF Kept
    <3>3. QED
      BY <3>1, <3>2 DEF Blocks, Kept
  <2>2. CASE UNCHANGED <<block, hashes>>
    BY <2>2 DEF Blocks, Kept
  <2>3. QED
    BY <2>1, <2>2 DEF Next, ApplyExtrinsic, vars
<1>3. QED
  BY <1>1, <1>2, PTL DEF Spec

\* A mortal extrinsic can be included for the whole of its period and never
\* again after it, for every BlockHashCount that holds the hashes of a period,
\* such as the one of the runtime (node/src/benchmarking.rs:129).
THEOREM MortalityIsExact ==
  ASSUME PeriodFits
  PROVE  Spec => []MortalExactly
<1>1. Blocks /\ Kept => MortalExactly
  <2> SUFFICES ASSUME Blocks, Kept, NEW tx \in Signed, tx.era # Immortal, tx.era < block
               PROVE  AliveEra(tx.era) <=> block < tx.era + MortalPeriod
    BY DEF MortalExactly
  <2>1. tx.era \in Nat /\ block \in Nat /\ block >= 1 /\ BlockHashCount \in Nat
    BY SignedAssumption, BlockAssumption DEF Blocks
  <2>2. Birth(tx.era, block) = tx.era <=> block < tx.era + MortalPeriod
    BY <2>1, BirthIsEra
  <2>3. block < tx.era + MortalPeriod => tx.era \in hashes
    BY <2>1 DEF Kept, PeriodFits
  <2>4. QED
    BY <2>2, <2>3 DEF AliveEra
<1>2. QED
  BY <1>1, KeptInvariant, PTL

-----------------------------------------------------------------------------
(* What a call may do beside removing an account: send one message, and     *)
(* leave no more issued than there was.                                     *)

Sends(s, t, account, message) ==
  \E key \in Keys : /\ key.account = account
                    /\ t.sent = Append(s.sent, [key |-> key, message |-> message])

Effect(s, t, origin, call) ==
  /\ t.key = s.key
  /\ \/ t.sent = s.sent
     \/ call.name = "send_message" /\ Sends(s, t, origin, call.message)
  /\ SumFunction(t.free) <= SumFunction(s.free)

LEMMA SumOfStorage ==
  ASSUME NEW s \in Storage PROVE s.free \in [Accounts -> Nat] /\ SumFunction(s.free) \in Nat
<1>1. s.free \in [Accounts -> Nat] /\ SudoKey \in Accounts
  BY GenesisAssumption DEF Storage
<1>2. QED
  BY <1>1, AccountsAssumption, SumChanged

LEMMA NoEffect ==
  ASSUME NEW s \in Storage, NEW origin, NEW call PROVE Effect(s, s, origin, call)
BY SumOfStorage DEF Effect

LEMMA SumDeposit ==
  ASSUME NEW s \in Storage, NEW who \in Accounts, NEW amount \in Nat
  PROVE  SumFunction(Deposit(s, who, amount).free) + s.free[who] <= SumFunction(s.free) + amount
<1> DEFINE v == IF amount >= ExistentialDeposit THEN amount ELSE 0
<1>1. v \in Nat /\ v <= amount
  OBVIOUS
<1> HIDE DEF v
<1>2. Deposit(s, who, amount).free = [s.free EXCEPT ![who] = v]
  BY DepositResult DEF v
<1>3. s.free \in [Accounts -> Nat] /\ s.free[who] \in Nat /\ SumFunction(s.free) \in Nat
  BY SumOfStorage
<1> DEFINE e == [s.free EXCEPT ![who] = v]
<1>4. SumFunction(e) \in Nat /\ SumFunction(e) + s.free[who] = SumFunction(s.free) + v
  BY <1>1, <1>3, AccountsAssumption, SumChanged
<1> HIDE DEF e
<1>5. SumFunction(e) + s.free[who] <= SumFunction(s.free) + amount
  BY <1>1, <1>3, <1>4
<1>6. QED
  BY <1>2, <1>5 DEF e

LEMMA SendMessageEffect ==
  ASSUME NEW s, Good(s), NEW origin, NEW call, call.name = "send_message"
  PROVE  Effect(s, SendMessage(s, origin, call), origin, call)
<1> DEFINE t == SendMessage(s, origin, call)
           accepted == DispatchResult(origin, call.metadata, call.message, s.counter) = "Ok"
<1>1. s \in Storage
  BY DEF Good
<1>2. CASE ~accepted
  BY <1>1, <1>2, NoEffect DEF SendMessage
<1>3. CASE accepted
  <2>1. origin \in Accounts /\ ~Overflowed(s.counter) /\ s.counter \in 0 .. MaxCounter
    BY <1>1, <1>3 DEF DispatchResult, Storage
  <2>2. KeyOfNext(origin, s.counter) \in Keys /\ KeyOfNext(origin, s.counter).account = origin
    BY <2>1 DEF Overflowed, WrappingSucc, KeyOfNext, DerivedKey, Keys
  <2>3. /\ t.free = s.free /\ t.key = s.key
        /\ t.sent = Append(s.sent, [key |-> KeyOfNext(origin, s.counter), message |-> call.message])
    BY <1>1, <1>3 DEF SendMessage, Storage
  <2>4. Sends(s, t, origin, call.message)
    BY <2>2, <2>3 DEF Sends
  <2>5. QED
    BY <1>1, <2>3, <2>4, SumOfStorage DEF Effect
<1>4. QED
  BY <1>2, <1>3

LEMMA TransferEffect ==
  ASSUME NEW s, Good(s), NEW origin, NEW call, call.dest \in Accounts, call.value \in Nat
  PROVE  Effect(s, Transfer(s, origin, call), origin, call)
<1>1. s \in Storage /\ s.free \in [Accounts -> Nat]
  BY DEF Good, Storage
<1>2. CASE ~MayTransfer(s, origin, call)
  BY <1>1, <1>2, NoEffect DEF Transfer
<1>3. CASE MayTransfer(s, origin, call)
  <2> DEFINE dest == call.dest
             value == call.value
             r == Deposit(s, dest, s.free[dest] + value)
             t == Deposit(r, origin, s.free[origin] - value)
  <2>1. /\ origin \in Accounts /\ origin # dest /\ s.free[origin] >= value
        /\ s.free[dest] + value >= ExistentialDeposit
        /\ s.free[origin] \in Nat /\ s.free[dest] \in Nat
        /\ s.free[dest] + value \in Nat /\ s.free[origin] - value \in Nat
    BY <1>1, <1>3 DEF MayTransfer
  <2>2. /\ r \in Storage /\ r.free = [s.free EXCEPT ![dest] = s.free[dest] + value]
        /\ r.key = s.key /\ r.sent = s.sent
    BY <1>1, <2>1, DepositResult
  <2>3. t \in Storage /\ t.key = s.key /\ t.sent = s.sent
    <3> DEFINE left == s.free[origin] - value
    <3>1. left \in Nat /\ origin \in Accounts /\ r \in Storage
      BY <2>1, <2>2
    <3> DEFINE d == Deposit(r, origin, left)
    <3> HIDE DEF r, left
    <3>2. d \in Storage /\ d.key = r.key /\ d.sent = r.sent
      BY <3>1, DepositResult
    <3>3. QED
      BY <2>2, <3>2 DEF left
  <2>4. SumFunction(r.free) + s.free[dest] <= SumFunction(s.free) + (s.free[dest] + value)
    BY <1>1, <2>1, SumDeposit
  <2>5. r.free[origin] = s.free[origin]
    BY <1>1, <2>1, <2>2
  <2>6. SumFunction(t.free) + s.free[origin] <= SumFunction(r.free) + (s.free[origin] - value)
    BY <2>1, <2>2, <2>5, SumDeposit
  <2>7. /\ SumFunction(s.free) \in Nat /\ SumFunction(r.free) \in Nat
        /\ SumFunction(t.free) \in Nat
    BY <1>1, <2>2, <2>3, SumOfStorage
  <2> HIDE DEF r, t
  <2>8. SumFunction(t.free) <= SumFunction(s.free)
    BY <2>1, <2>4, <2>6, <2>7
  <2>9. Transfer(s, origin, call) = t
    BY <1>3 DEF Transfer, t, r
  <2>10. QED
    BY <2>3, <2>8, <2>9 DEF Effect
<1>4. QED
  BY <1>2, <1>3

LEMMA PlainEffect ==
  ASSUME NEW s, Good(s), NEW origin, NEW call, PlainCall(call)
  PROVE  Effect(s, DispatchCall(s, origin, call), origin, call)
<1>1. CASE call.name = "send_message"
  <2>1. DispatchCall(s, origin, call) = SendMessage(s, origin, call)
    BY <1>1 DEF DispatchCall
  <2>2. QED
    BY <1>1, <2>1, SendMessageEffect
<1>2. CASE call.name \in {"transfer", "transfer_keep_alive"}
  <2>1. DispatchCall(s, origin, call) = Transfer(s, origin, call)
    BY <1>2 DEF DispatchCall
  <2>2. call.dest \in Accounts /\ call.value \in Nat
    BY <1>2 DEF PlainCall
  <2>3. QED
    BY <2>1, <2>2, TransferEffect
<1>3. CASE call.name = "remark"
  <2>1. s \in Storage /\ DispatchCall(s, origin, call) = s
    BY <1>3 DEF DispatchCall, Good
  <2>2. QED
    BY <2>1, NoEffect
<1>4. QED
  BY <1>1, <1>2, <1>3 DEF PlainCall

\* The sudo key may send in any name and hand itself over; nobody else may.
HandsOver(tx, key) == tx.call.name = "set_key" /\ tx.account = key
Sending(tx, key, s, t) ==
  \E a \in Accounts, message \in Bytes :
    /\ SendsFor(tx, a, message) /\ Sends(s, t, a, message)
    /\ tx.call.name = "sudo_as" => tx.account = key

LEMMA DispatchEffect ==
  ASSUME NEW s, Good(s), NEW tx \in Signed
  PROVE  LET t == Dispatch(s, tx) IN
         /\ t.key = IF HandsOver(tx, s.key) THEN tx.call.new ELSE s.key
         /\ t.sent = s.sent \/ Sending(tx, s.key, s, t)
         /\ SumFunction(t.free) <= SumFunction(s.free)
<1> DEFINE t == Dispatch(s, tx)
<1>1. tx.account \in Accounts /\ (PlainCall(tx.call) \/ SudoCall(tx.call)) /\ s \in Storage
  BY SignedAssumption DEF Good
<1>2. SumFunction(s.free) <= SumFunction(s.free)
  BY <1>1, SumOfStorage
<1>3. CASE tx.call.name \notin SudoCalls
  <2>1. PlainCall(tx.call) /\ ~HandsOver(tx, s.key)
    BY <1>1, <1>3 DEF SudoCall, SudoCalls, HandsOver
  <2>2. t = DispatchCall(s, tx.account, tx.call)
    BY <1>3 DEF Dispatch
  <2>3. Effect(s, t, tx.account, tx.call)
    BY <1>1, <2>1, <2>2, PlainEffect
  <2> HIDE DEF t
  <2>4. ASSUME t.sent # s.sent PROVE Sending(tx, s.key, s, t)
    <3>1. tx.call.name = "send_message" /\ Sends(s, t, tx.account, tx.call.message)
      BY <2>3, <2>4 DEF Effect
    <3>2. tx.call.message \in Bytes /\ SendsFor(tx, tx.account, tx.call.message)
      BY <2>1, <3>1 DEF PlainCall, SendsFor, Writes
    <3>3. QED
      BY <1>1, <3>1, <3>2 DEF Sending
  <2>5. QED
    BY <2>1, <2>3, <2>4 DEF Effect, t
<1>4. CASE tx.call.name \in SudoCalls /\ ~HoldsKey(s, tx.account)
  <2>1. t = s /\ ~HandsOver(tx, s.key)
    BY <1>4 DEF Dispatch, Sudo, HoldsKey, HandsOver
  <2>2. QED
    BY <1>2, <2>1
<1>5. CASE tx.call.name = "sudo" /\ HoldsKey(s, tx.account)
  <2>1. t = DispatchCall(s, Root, tx.call.call) /\ PlainCall(tx.call.call)
    BY <1>1, <1>5 DEF Dispatch, Sudo, SudoCalls, PlainCall, SudoCall
  <2>2. Effect(s, t, Root, tx.call.call) /\ ~HandsOver(tx, s.key)
    BY <1>1, <1>5, <2>1, PlainEffect DEF HandsOver
  <2>3. ~Sends(s, t, Root, tx.call.call.message)
    BY OriginAssumption DEF Sends, Keys
  <2> HIDE DEF t
  <2>4. QED
    BY <2>2, <2>3 DEF Effect, t
<1>6. CASE tx.call.name = "sudo_as" /\ HoldsKey(s, tx.account)
  <2> DEFINE who == tx.call.who
  <2>1. /\ t = DispatchCall(s, who, tx.call.call)
        /\ PlainCall(tx.call.call) /\ who \in Accounts
    BY <1>1, <1>6 DEF Dispatch, Sudo, SudoCalls, PlainCall, SudoCall
  <2>2. Effect(s, t, who, tx.call.call) /\ ~HandsOver(tx, s.key)
    BY <1>1, <1>6, <2>1, PlainEffect DEF HandsOver
  <2> HIDE DEF t
  <2>3. ASSUME t.sent # s.sent PROVE Sending(tx, s.key, s, t)
    <3> DEFINE message == tx.call.call.message
    <3>1. tx.call.call.name = "send_message" /\ Sends(s, t, who, message)
      BY <2>2, <2>3 DEF Effect
    <3>2. message \in Bytes /\ SendsFor(tx, who, message) /\ tx.account = s.key
      BY <1>6, <2>1, <3>1 DEF PlainCall, SendsFor, Writes, HoldsKey
    <3> HIDE DEF message, who
    <3>3. QED
      BY <2>1, <3>1, <3>2 DEF Sending
  <2>4. QED
    BY <2>2, <2>3 DEF Effect, t
<1>7. CASE tx.call.name = "set_key" /\ HoldsKey(s, tx.account)
  <2>1. t = [s EXCEPT !.key = tx.call.new] /\ HandsOver(tx, s.key)
    BY <1>7 DEF Dispatch, Sudo, SudoCalls, HandsOver, HoldsKey
  <2>2. t.key = tx.call.new /\ t.sent = s.sent /\ t.free = s.free
    BY <1>1, <2>1 DEF Storage
  <2> HIDE DEF t
  <2>3. QED
    BY <1>2, <2>1, <2>2 DEF t
<1>8. QED
  BY <1>3, <1>4, <1>5, <1>6, <1>7 DEF SudoCalls

\* What an extrinsic does beside removing accounts: the fee is burnt unless
\* the sudo key called the sudo pallet.
LEMMA ExtrinsicEffect ==
  ASSUME IndInv, NEW tx \in Signed, ApplyExtrinsic(tx)
  PROVE  /\ state'.key = IF HandsOver(tx, state.key) THEN tx.call.new ELSE state.key
         /\ state'.sent = state.sent \/ Sending(tx, state.key, state, state')
         /\ SumFunction(state'.free) + (IF PaysFee(state, tx) THEN Fee ELSE 0)
              <= SumFunction(state.free)
<1> DEFINE who == tx.account
           ready == PreDispatch(state, tx)
           called == Dispatch(ready, tx)
           after == PostDispatch(called, PaysFee(state, tx), tx)
<1>1. /\ who \in Accounts /\ Good(state) /\ Includable(tx) /\ state' = after
      /\ PaysFee(state, tx) \in BOOLEAN
  BY SignedAssumption DEF ApplyExtrinsic, IndInv, PaysFee
<1>2. Good(ready) /\ ready.sent = state.sent /\ ready.key = state.key
  BY <1>1, PreDispatchResult
<1>3. SumFunction(ready.free) + Fee = SumFunction(state.free)
  <2> DEFINE v == state.free[who] - Fee
  <2>1. state \in Storage /\ state.free \in [Accounts -> Nat] /\ state.free[who] \in Nat
    BY <1>1 DEF Good, Storage
  <2>2. v \in Nat /\ v + Fee = state.free[who]
    BY <1>1, <2>1, Amounts DEF Includable
  <2>3. ready.free = [state.free EXCEPT ![who] = v]
    BY <2>1 DEF PreDispatch, Storage
  <2> HIDE DEF v
  <2> DEFINE e == [state.free EXCEPT ![who] = v]
  <2>4. /\ SumFunction(state.free) \in Nat /\ SumFunction(e) \in Nat
        /\ SumFunction(e) + state.free[who] = SumFunction(state.free) + v
    BY <1>1, <2>1, <2>2, AccountsAssumption, SumChanged
  <2> HIDE DEF e
  <2>5. SumFunction(e) + Fee = SumFunction(state.free)
    BY <2>1, <2>2, <2>4, Amounts
  <2>6. QED
    BY <2>3, <2>5 DEF e
<1> HIDE DEF ready
<1>4. /\ called.key = IF HandsOver(tx, state.key) THEN tx.call.new ELSE state.key
      /\ called.sent = state.sent \/ Sending(tx, state.key, state, called)
      /\ SumFunction(called.free) <= SumFunction(ready.free)
  BY <1>2, DispatchEffect DEF Sending, Sends
<1>5. Good(called)
  BY <1>2, DispatchCalls DEF Calls
<1> HIDE DEF called
<1>6. /\ after.sent = called.sent /\ after.key = called.key
      /\ SumFunction(after.free) <=
           SumFunction(called.free) + (IF PaysFee(state, tx) THEN 0 ELSE Fee)
  <2>1. /\ called \in Storage /\ called.free \in [Accounts -> Nat] /\ called.free[who] \in Nat
        /\ SumFunction(called.free) \in Nat
    BY <1>1, <1>5, SumOfStorage DEF Good
  <2>2. CASE PaysFee(state, tx)
    BY <2>1, <2>2 DEF PostDispatch
  <2>3. CASE ~PaysFee(state, tx)
    <3>1. after = Refund(called, who)
      BY <2>3 DEF PostDispatch
    <3>2. CASE ~Exists(called, who)
      BY <2>1, <2>3, <3>1, <3>2, Amounts DEF Refund
    <3>3. CASE Exists(called, who)
      <4> DEFINE v == called.free[who] + Fee
                 e == [called.free EXCEPT ![who] = v]
      <4>1. v \in Nat
        BY <2>1, Amounts
      <4>2. after.free = e /\ after.sent = called.sent /\ after.key = called.key
        BY <2>1, <3>1, <3>3 DEF Refund, Storage
      <4> HIDE DEF v
      <4>3. SumFunction(e) \in Nat /\ SumFunction(e) + called.free[who] = SumFunction(called.free) + v
        BY <1>1, <2>1, <4>1, AccountsAssumption, SumChanged
      <4> HIDE DEF e, after
      <4>4. SumFunction(e) <= SumFunction(called.free) + Fee
        BY <2>1, <4>1, <4>3, Amounts DEF v
      <4>5. QED
        BY <2>3, <4>2, <4>4
    <3>4. QED
      BY <3>2, <3>3
  <2>4. QED
    BY <1>1, <2>2, <2>3
<1>7. /\ SumFunction(called.free) \in Nat /\ SumFunction(ready.free) \in Nat
      /\ SumFunction(state.free) \in Nat
  BY <1>1, <1>2, <1>5, SumOfStorage DEF Good
<1>8. SumFunction(after.free) \in Nat
  <2>1. Good(after)
    BY <1>1, <1>5, RefundResult DEF PostDispatch
  <2>2. QED
    BY <2>1, SumOfStorage DEF Good
<1> HIDE DEF after
<1>9. SumFunction(after.free) + (IF PaysFee(state, tx) THEN Fee ELSE 0) <= SumFunction(state.free)
  BY <1>1, <1>3, <1>4, <1>6, <1>7, <1>8, Amounts
<1>10. QED
  BY <1>1, <1>4, <1>6, <1>9 DEF Sending, Sends

-----------------------------------------------------------------------------
(* In whose name messages are sent.  The invariant follows the sudo key      *)
(* through the history: the key in the storage is the one that the last      *)
(* handing over gave it to.                                                  *)

Handed(i) ==
  {k \in 1 .. i - 1 : /\ history[k].kind = "executed"
                      /\ history[k].tx.call.name = "set_key"
                      /\ history[k].tx.account = history[k].key}

SentBy(i, m) ==
  /\ history[i].kind = "executed" /\ history[i].messages = {m}
  /\ SendsFor(history[i].tx, state.sent[m].key.account, state.sent[m].message)
  /\ history[i].tx.call.name = "sudo_as" => history[i].tx.account = history[i].key

Named(m) == \E i \in 1 .. Len(history) : SentBy(i, m)

Attribution ==
  /\ \A i \in 1 .. Len(history) : history[i].kind = "executed" => history[i].key = Holder(i)
  /\ \A i \in Nat : i = Len(history) + 1 => state.key = Holder(i)
  /\ \A m \in 1 .. Len(state.sent) : Named(m)

LEMMA LastHanded ==
  ASSUME NEW n \in Nat, NEW s \in SUBSET (1 .. n), s # {}
  PROVE  Max(s) \in s /\ \A k \in s : Max(s) >= k
BY Nats!MaxOfSome DEF Max, Nats!Max

LEMMA HolderOf ==
  ASSUME NEW i \in Nat
  PROVE  Holder(i) = IF Handed(i) = {} THEN SudoKey ELSE history[Max(Handed(i))].tx.call.new
BY DEF Holder, Handed

\* The entry that a step appends to the history, and the key that it leaves.
LEMMA HolderStep ==
  ASSUME IndInv, NEW tx \in Signed, ApplyExtrinsic(tx)
  PROVE  LET n == Len(history) IN
         /\ \A i \in 1 .. n + 1 : Holder(i)' = Holder(i)
         /\ \A i \in n + 2 .. Len(history') + 1 :
              Holder(i)' = IF HandsOver(tx, state.key) THEN tx.call.new ELSE Holder(n + 1)
<1> DEFINE n == Len(history)
<1>1. /\ n \in Nat
      /\ Len(history') \in {n + 1, n + 2}
      /\ \A i \in 1 .. n : history'[i] = history[i]
      /\ history'[n + 1] = Executed(tx, state')
      /\ Len(history') = n + 2 => history'[n + 2].kind = "removed"
  BY HistoryStep DEF IndInv
<1> HIDE DEF n
<1>2. \A i \in Nat : Holder(i)' =
        IF Handed(i)' = {} THEN SudoKey ELSE history'[Max(Handed(i)')].tx.call.new
  BY DEF Holder, Handed
<1>3. ASSUME NEW i \in 1 .. n + 1 PROVE Holder(i)' = Holder(i)
  <2>1. Handed(i)' = Handed(i)
    BY <1>1 DEF Handed
  <2>2. i \in Nat /\ Handed(i) \in SUBSET (1 .. n)
    BY <1>1 DEF Handed
  <2>3. CASE Handed(i) = {}
    BY <1>2, <2>1, <2>2, <2>3, HolderOf
  <2>4. CASE Handed(i) # {}
    <3>1. Max(Handed(i)) \in 1 .. n
      BY <1>1, <2>2, <2>4, LastHanded
    <3>2. history'[Max(Handed(i))] = history[Max(Handed(i))]
      BY <1>1, <3>1
    <3>3. QED
      BY <1>2, <2>1, <2>2, <2>4, <3>2, HolderOf
  <2>5. QED
    BY <2>3, <2>4
<1>4. ASSUME NEW i \in n + 2 .. n + 3,
             i = n + 3 => history'[n + 2].kind = "removed"
      PROVE  Holder(i)' = IF HandsOver(tx, state.key) THEN tx.call.new ELSE Holder(n + 1)
  <2>1. /\ Executed(tx, state').kind = "executed" /\ Executed(tx, state').tx = tx
        /\ Executed(tx, state').key = state.key
    BY DEF Executed
  <2>2. i \in Nat /\ Handed(n + 1) \in SUBSET (1 .. n)
    BY <1>1 DEF Handed
  <2>3. ASSUME NEW k \in 1 .. n + 1
        PROVE  k \in Handed(i)' <=> k \in Handed(n + 1) \/ (k = n + 1 /\ HandsOver(tx, state.key))
    <3>1. CASE k \in 1 .. n
      <4>1. history'[k] = history[k] /\ k \in 1 .. i - 1 /\ k \in 1 .. (n + 1) - 1 /\ k # n + 1
        BY <1>1, <3>1
      <4>2. QED
        BY <4>1 DEF Handed
    <3>2. CASE k = n + 1
      BY <1>1, <2>1, <3>2 DEF Handed, HandsOver
    <3>3. QED
      BY <1>1, <3>1, <3>2
  <2>4. Handed(i)' \in SUBSET (1 .. n + 1)
    <3>1. Handed(i)' \in SUBSET (1 .. n + 2)
      BY <1>1 DEF Handed
    <3>2. n + 2 \notin Handed(i)'
      BY <1>1, <1>4 DEF Handed
    <3>3. QED
      BY <1>1, <3>1, <3>2
  <2>5. CASE HandsOver(tx, state.key)
    <3>1. n + 1 \in Handed(i)'
      BY <1>1, <2>3, <2>5
    <3>2. Max(Handed(i)') \in Handed(i)' /\ \A k \in Handed(i)' : Max(Handed(i)') >= k
      <4> DEFINE s == Handed(i)'
      <4>1. n + 1 \in Nat /\ s \in SUBSET (1 .. n + 1) /\ s # {}
        BY <1>1, <2>4, <3>1
      <4> HIDE DEF s
      <4>2. Max(s) \in s /\ \A k \in s : Max(s) >= k
        BY <4>1, LastHanded
      <4>3. QED
        BY <4>2 DEF s
    <3>3. Max(Handed(i)') = n + 1
      BY <1>1, <2>4, <3>1, <3>2
    <3>4. QED
      BY <1>1, <1>2, <2>1, <2>2, <2>5, <3>1, <3>3
  <2>6. CASE ~HandsOver(tx, state.key)
    <3>1. Handed(i)' = Handed(n + 1)
      <4>1. ASSUME NEW k PROVE k \in Handed(i)' <=> k \in Handed(n + 1)
        <5>1. k \in Handed(n + 1) => k \in 1 .. n + 1
          BY <1>1, <2>2
        <5>2. QED
          BY <2>3, <2>4, <2>6, <5>1
      <4>2. QED
        BY <4>1
    <3>2. CASE Handed(n + 1) = {}
      BY <1>1, <1>2, <2>2, <2>6, <3>1, <3>2, HolderOf
    <3>3. CASE Handed(n + 1) # {}
      <4>1. Max(Handed(n + 1)) \in 1 .. n
        BY <1>1, <2>2, <3>3, LastHanded
      <4>2. history'[Max(Handed(n + 1))] = history[Max(Handed(n + 1))]
        BY <1>1, <4>1
      <4>3. QED
        BY <1>1, <1>2, <2>2, <2>6, <3>1, <3>3, <4>2, HolderOf
    <3>4. QED
      BY <3>2, <3>3
  <2>7. QED
    BY <2>5, <2>6
<1>5. ASSUME NEW i \in n + 2 .. Len(history') + 1
      PROVE  Holder(i)' = IF HandsOver(tx, state.key) THEN tx.call.new ELSE Holder(n + 1)
  <2>1. i \in n + 2 .. n + 3 /\ (i = n + 3 => history'[n + 2].kind = "removed")
    BY <1>1
  <2>2. QED
    BY <1>4, <2>1
<1>6. QED
  BY <1>3, <1>5 DEF n

LEMMA AttributionStep ==
  ASSUME IndInv, Attribution, NEW tx \in Signed, ApplyExtrinsic(tx)
  PROVE  Attribution'
<1> DEFINE n == Len(history)
<1>1. /\ n \in Nat
      /\ Len(history') \in {n + 1, n + 2}
      /\ \A i \in 1 .. n : history'[i] = history[i]
      /\ history'[n + 1] = Executed(tx, state')
      /\ Len(history') = n + 2 => history'[n + 2].kind = "removed"
  BY HistoryStep DEF IndInv
<1>2. /\ \A i \in 1 .. n + 1 : Holder(i)' = Holder(i)
      /\ \A i \in n + 2 .. Len(history') + 1 :
           Holder(i)' = IF HandsOver(tx, state.key) THEN tx.call.new ELSE Holder(n + 1)
  BY HolderStep
<1>3. /\ state'.key = IF HandsOver(tx, state.key) THEN tx.call.new ELSE state.key
      /\ state'.sent = state.sent \/ Sending(tx, state.key, state, state')
  BY ExtrinsicEffect
<1>4. /\ \A i \in 1 .. n : history[i].kind = "executed" => history[i].key = Holder(i)
      /\ state.key = Holder(n + 1)
      /\ \A m \in 1 .. Len(state.sent) : Named(m)
  BY DEF Attribution
<1>5. /\ Executed(tx, state').kind = "executed" /\ Executed(tx, state').tx = tx
      /\ Executed(tx, state').key = state.key
      /\ Executed(tx, state').messages = Len(state.sent) + 1 .. Len(state'.sent)
  BY DEF Executed
<1> HIDE DEF n
<1>6. ASSUME NEW i \in 1 .. Len(history'), history'[i].kind = "executed"
      PROVE  history'[i].key = Holder(i)'
  <2>1. CASE i \in 1 .. n
    BY <1>1, <1>2, <1>4, <1>6, <2>1
  <2>2. CASE i = n + 1
    BY <1>1, <1>2, <1>4, <1>5, <2>2
  <2>3. CASE i = n + 2
    <3>1. Len(history') = n + 2
      BY <1>1, <2>3
    <3>2. QED
      BY <1>1, <1>6, <2>3, <3>1
  <2>4. QED
    BY <1>1, <2>1, <2>2, <2>3
<1>7. ASSUME NEW i \in Nat, i = Len(history') + 1 PROVE state'.key = Holder(i)'
  <2>1. i \in n + 2 .. Len(history') + 1
    BY <1>1, <1>7
  <2>2. QED
    BY <1>2, <1>3, <1>4, <2>1
<1>8. ASSUME NEW m \in 1 .. Len(state.sent), state'.sent[m] = state.sent[m]
      PROVE  Named(m)'
  <2>1. PICK i \in 1 .. n : SentBy(i, m)
    BY <1>4 DEF Named, n
  <2>2. i \in 1 .. Len(history') /\ history'[i] = history[i]
    BY <1>1
  <2>3. SentBy(i, m)'
    BY <1>8, <2>1, <2>2 DEF SentBy
  <2>4. QED
    BY <2>2, <2>3 DEF Named
<1>9. ASSUME NEW m \in 1 .. Len(state'.sent) PROVE Named(m)'
  <2>1. CASE state'.sent = state.sent
    BY <1>8, <2>1
  <2>2. CASE Sending(tx, state.key, state, state')
    <3>1. PICK a \in Accounts, message \in Bytes :
            /\ SendsFor(tx, a, message) /\ Sends(state, state', a, message)
            /\ tx.call.name = "sudo_as" => tx.account = state.key
      BY <2>2 DEF Sending
    <3>2. PICK key \in Keys :
            /\ key.account = a
            /\ state'.sent = Append(state.sent, [key |-> key, message |-> message])
      BY <3>1 DEF Sends
    <3> DEFINE new == [key |-> key, message |-> message]
    <3>3. new.message = message /\ new.key.account = a
      BY <3>2
    <3>4. state.sent \in Seq(Sent) /\ new \in Sent
      BY DEF IndInv, Good, Storage, Sent
    <3> HIDE DEF new
    <3>5. /\ Len(state.sent) \in Nat /\ Len(state'.sent) = Len(state.sent) + 1
          /\ state'.sent[Len(state.sent) + 1] = new
          /\ \A k \in 1 .. Len(state.sent) : state'.sent[k] = state.sent[k]
      BY <3>2, <3>4 DEF new
    <3>6. CASE m \in 1 .. Len(state.sent)
      BY <1>8, <3>5, <3>6
    <3>7. CASE m = Len(state.sent) + 1
      <4>1. PICK i \in 1 .. Len(history') : history'[i] = Executed(tx, state')
        BY <1>1
      <4>2. Len(state.sent) + 1 .. Len(state'.sent) = {m}
        BY <3>5, <3>7
      <4>3. SentBy(i, m)'
        BY <1>5, <3>1, <3>3, <3>5, <3>7, <4>1, <4>2 DEF SentBy
      <4>4. QED
        BY <4>1, <4>3 DEF Named
    <3>8. QED
      BY <3>5, <3>6, <3>7
  <2>3. QED
    BY <1>3, <2>1, <2>2
<1>10. QED
  BY <1>6, <1>7, <1>9 DEF Attribution

LEMMA AttributionInvariant == Spec => [](IndInv /\ Attribution)
<1>1. Init => Attribution
  <2> SUFFICES ASSUME Init PROVE Attribution
    OBVIOUS
  <2>1. history = << >> /\ state.sent = << >> /\ state.key = SudoKey
    BY DEF Init, GenesisConfig
  <2>2. Handed(1) = {}
    BY DEF Handed
  <2>3. Holder(1) = SudoKey
    BY <2>2, HolderOf
  <2>4. QED
    BY <2>1, <2>3 DEF Attribution
<1>2. IndInv /\ Attribution /\ [Next]_vars => Attribution'
  <2> SUFFICES ASSUME IndInv, Attribution, [Next]_vars PROVE Attribution'
    OBVIOUS
  <2>1. ASSUME NEW tx \in Signed, ApplyExtrinsic(tx) PROVE Attribution'
    BY <2>1, AttributionStep
  <2>2. CASE UNCHANGED <<state, history>>
    <3>1. \A i \in Nat : Holder(i)' = Holder(i)
      BY <2>2 DEF Holder
    <3>2. \A m \in 1 .. Len(state.sent) : Named(m) => Named(m)'
      BY <2>2 DEF Named, SentBy
    <3>3. QED
      BY <2>2, <3>1, <3>2 DEF Attribution
  <2>3. QED
    BY <2>1, <2>2 DEF Next, NextBlock, vars
<1>3. QED
  BY <1>1, <1>2, Induction, PTL DEF Spec

\* Every message has an extrinsic of its own that asked for it: signed by the
\* account that it names, or a sudo_as for that account and that message by who
\* was holding the sudo key then; the key only goes where its holders hand it.
THEOREM MessagesNameTheirSenders == Spec => []SentByOwnerOrSudo
<1>1. IndInv /\ Attribution => SentByOwnerOrSudo
  <2> SUFFICES ASSUME IndInv, Attribution PROVE SentByOwnerOrSudo
    OBVIOUS
  <2>1. DOMAIN history = 1 .. Len(history) /\ DOMAIN state.sent = 1 .. Len(state.sent)
    BY DEF IndInv, Good, Storage
  <2>2. ASSUME NEW i \in 1 .. Len(history), history[i].kind = "executed"
        PROVE  history[i].key = Holder(i)
    BY <2>2 DEF Attribution
  <2>3. ASSUME NEW m \in 1 .. Len(state.sent)
        PROVE  \E i \in 1 .. Len(history) :
                 /\ history[i].kind = "executed" /\ history[i].messages = {m}
                 /\ SendsFor(history[i].tx, state.sent[m].key.account, state.sent[m].message)
                 /\ history[i].tx.call.name = "sudo_as" => history[i].tx.account = Holder(i)
    <3>1. PICK i \in 1 .. Len(history) : SentBy(i, m)
      BY DEF Attribution, Named
    <3>2. QED
      BY <2>2, <3>1 DEF SentBy
  <2>4. QED
    BY <2>1, <2>2, <2>3 DEF SentByOwnerOrSudo
<1>2. QED
  BY <1>1, AttributionInvariant, PTL

-----------------------------------------------------------------------------
(* The runtime keeps the promise of the pallet: accounts come and go with    *)
(* their nonces, and the sudo key sends in other names, but the messages     *)
(* on the chain are an append-only log with room for as many as the counter  *)
(* can count.                                                                *)

SentLog == INSTANCE MessageLog WITH
             Entry <- Sent, Capacity <- MaxCounter, log <- state.sent

\* The messages that the storage counts are of their type, and there is room
\* for them.
SentOK == state.sent \in Seq(Sent) /\ Len(state.sent) \in 0 .. MaxCounter

\* An extrinsic appends at most one message to the log and disturbs none,
\* whatever it is and whoever is removed by it.
THEOREM MessagesStaySent == Spec => SentLog!Spec
<1>1. Init => SentLog!Init
  BY InitialStorage DEF Init, GenesisConfig, SentLog!Init
<1>2. IndInv => SentOK
  BY DEF IndInv, Good, Storage, Counted, SentOK
<1>3. IndInv /\ SentOK /\ SentOK' /\ [Next]_vars => [SentLog!Publish]_(state.sent)
  <2> SUFFICES ASSUME IndInv, SentOK, SentOK', [Next]_vars
               PROVE  SentLog!Publish \/ state'.sent = state.sent
    OBVIOUS
  <2>1. ASSUME NEW tx \in Signed, ApplyExtrinsic(tx)
        PROVE  SentLog!Publish \/ state'.sent = state.sent
    <3>1. CASE \E a \in Accounts, message \in Bytes : Sends(state, state', a, message)
      <4>1. \E new : state'.sent = Append(state.sent, new)
        BY <3>1 DEF Sends
      <4> DEFINE before == state.sent
                 after == state'.sent
      <4>2. /\ before \in Seq(Sent) /\ after \in Seq(Sent)
            /\ Len(after) <= MaxCounter
        BY DEF SentOK
      <4>3. PICK new : after = Append(before, new)
        BY <4>1
      <4> HIDE DEF before, after
      <4>4. Len(after) = Len(before) + 1 /\ Len(before) \in Nat
            /\ \A i \in 1 .. Len(before) : after[i] = before[i]
        BY <4>2, <4>3
      <4>5. Len(before) < Len(after)
        BY <4>4
      <4>6. QED
        BY <4>2, <4>4, <4>5 DEF SentLog!Publish, SentLog!Extends, before, after
    <3>2. QED
      BY <2>1, <3>1, ExtrinsicEffect DEF Sending
  <2>2. CASE UNCHANGED state
    BY <2>2
  <2>3. QED
    BY <2>1, <2>2 DEF Next, NextBlock, vars
<1>4. QED
  BY <1>1, <1>2, <1>3, Induction, PTL DEF SentLog!Spec, Spec

-----------------------------------------------------------------------------
(* What the calls cost.  Every paid call burns the fee that it counts for,   *)
(* so issuance and fees together never grow.                                 *)

PaidCalls ==
  {i \in 1 .. Len(history) :
    /\ history[i].kind = "executed"
    /\ ~(history[i].tx.account = history[i].key /\ history[i].tx.call.name \in SudoCalls)}

LEMMA PaidCallsFinite ==
  ASSUME Len(history) \in Nat
  PROVE  IsFiniteSet(PaidCalls) /\ Cardinality(PaidCalls) \in Nat
<1>1. IsFiniteSet(1 .. Len(history))
  BY FS_Interval
<1>2. PaidCalls \subseteq 1 .. Len(history)
  BY DEF PaidCalls
<1> HIDE DEF PaidCalls
<1>3. QED
  BY <1>1, <1>2, FS_Subset, FS_CardinalityType

LEMMA PaidCallsStep ==
  ASSUME IndInv, NEW tx \in Signed, ApplyExtrinsic(tx)
  PROVE  /\ Cardinality(PaidCalls) \in Nat
         /\ Cardinality(PaidCalls') = Cardinality(PaidCalls) + (IF PaysFee(state, tx) THEN 1 ELSE 0)
<1> DEFINE n == Len(history)
<1>1. /\ n \in Nat
      /\ Len(history') \in {n + 1, n + 2}
      /\ \A i \in 1 .. n : history'[i] = history[i]
      /\ history'[n + 1] = Executed(tx, state')
      /\ Len(history') = n + 2 => history'[n + 2].kind = "removed"
  BY HistoryStep DEF IndInv
<1>2. IsFiniteSet(PaidCalls) /\ Cardinality(PaidCalls) \in Nat /\ n + 1 \notin PaidCalls
  <2>1. n + 1 \notin PaidCalls
    BY <1>1 DEF PaidCalls
  <2>2. QED
    BY <1>1, <2>1, PaidCallsFinite
<1>3. /\ Executed(tx, state').kind = "executed" /\ Executed(tx, state').tx = tx
      /\ Executed(tx, state').key = state.key
  BY DEF Executed
<1> DEFINE added == IF PaysFee(state, tx) THEN {n + 1} ELSE {}
<1> HIDE DEF n
<1>4. ASSUME NEW i PROVE i \in PaidCalls' <=> i \in PaidCalls \cup added
  <2>1. CASE i \in 1 .. n
    <3>1. history'[i] = history[i] /\ i \in 1 .. Len(history') /\ i # n + 1
      BY <1>1, <2>1
    <3>2. QED
      BY <2>1, <3>1 DEF PaidCalls, n
  <2>2. CASE i = n + 1
    <3>1. i \in 1 .. Len(history') /\ i \notin PaidCalls
      BY <1>1, <1>2, <2>2
    <3>2. QED
      BY <1>1, <1>3, <2>2, <3>1 DEF PaidCalls, PaysFee, HoldsKey
  <2>3. CASE i \notin 1 .. n + 1
    <3>1. i \notin PaidCalls /\ i \notin added
      BY <1>1, <2>3 DEF PaidCalls, n
    <3>2. i \in 1 .. Len(history') => i = n + 2 /\ Len(history') = n + 2
      BY <1>1, <2>3
    <3>3. i \notin PaidCalls'
      BY <1>1, <3>2 DEF PaidCalls
    <3>4. QED
      BY <3>1, <3>3
  <2>4. QED
    BY <1>1, <2>1, <2>2, <2>3
<1>5. PaidCalls' = PaidCalls \cup added
  BY <1>4
<1>6. CASE PaysFee(state, tx)
  BY <1>2, <1>5, <1>6, FS_AddElement
<1>7. CASE ~PaysFee(state, tx)
  BY <1>2, <1>5, <1>7
<1>8. QED
  BY <1>2, <1>6, <1>7

Costs ==
  Issuance + Fee * Cardinality(PaidCalls) <= Endowment * Cardinality(Endowed)

LEMMA CostsStep ==
  ASSUME IndInv, Costs, NEW tx \in Signed, ApplyExtrinsic(tx)
  PROVE  Costs'
<1> DEFINE paid == Cardinality(PaidCalls)
           total == Endowment * Cardinality(Endowed)
<1>1. /\ paid \in Nat
      /\ Cardinality(PaidCalls') = paid + (IF PaysFee(state, tx) THEN 1 ELSE 0)
  BY PaidCallsStep
<1>2. SumFunction(state'.free) + (IF PaysFee(state, tx) THEN Fee ELSE 0)
        <= SumFunction(state.free)
  BY ExtrinsicEffect
<1>3. SumFunction(state.free) \in Nat /\ SumFunction(state'.free) \in Nat
  BY SumOfStorage, ApplyExtrinsicStep DEF IndInv, Good
<1>4. Issuance = SumFunction(state.free) /\ Issuance' = SumFunction(state'.free)
  BY DEF Issuance
<1>5. Endowed \subseteq Accounts /\ IsFiniteSet(Endowed) /\ total \in Nat
  BY GenesisAssumption, AccountsAssumption, FS_Subset, FS_CardinalityType, Amounts
<1>6. Fee \in Nat /\ Fee * paid \in Nat /\ Fee * (paid + 1) = Fee * paid + Fee
  BY <1>1, Amounts
<1>7. Issuance + Fee * paid <= total
  BY DEF Costs
<1> HIDE DEF paid, total
<1>8. Issuance' + Fee * Cardinality(PaidCalls') <= total
  <2>1. CASE PaysFee(state, tx)
    <3> DEFINE f == Fee * paid
    <3>1. Fee * Cardinality(PaidCalls') = f + Fee /\ f \in Nat
      BY <1>1, <1>6, <2>1
    <3>2. Issuance + f <= total
      BY <1>7
    <3> HIDE DEF f
    <3>3. QED
      BY <1>2, <1>3, <1>4, <1>5, <1>6, <2>1, <3>1, <3>2
  <2>2. CASE ~PaysFee(state, tx)
    <3>1. Cardinality(PaidCalls') = paid
      BY <1>1, <2>2
    <3>2. QED
      BY <1>2, <1>3, <1>4, <1>5, <1>6, <1>7, <2>2, <3>1
  <2>3. QED
    BY <2>1, <2>2
<1>9. QED
  BY <1>8 DEF Costs, total

LEMMA GenesisSum ==
  Init => Issuance = Endowment * Cardinality(Endowed)
<1> SUFFICES ASSUME Init PROVE SumFunction(state.free) = Endowment * Cardinality(Endowed)
  BY DEF Issuance
<1> DEFINE f == state.free
           n == Cardinality(Accounts)
<1>1. f = [a \in Accounts |-> IF a \in Endowed THEN Endowment ELSE 0]
  BY DEF Init, GenesisConfig
<1>2. /\ Endowed \subseteq Accounts /\ Endowment \in Nat /\ DOMAIN f = Accounts
      /\ \A x \in Accounts : f[x] = IF x \in Endowed THEN Endowment ELSE 0
  BY <1>1, GenesisAssumption, Amounts
<1>3. n \in Nat /\ Accounts \in UpTo(Accounts, n)
  BY AccountsAssumption, FS_CardinalityType DEF UpTo
<1> HIDE DEF f, n
<1>4. PICK g : IsSum(g, f, Accounts, n) /\ SumFunction(f) = g[Accounts]
  BY <1>2, AccountsAssumption, SumIsSum DEF n
<1> DEFINE Count(s) == Cardinality(s \cap Endowed)
           Fact(s) == g[s] = Endowment * Count(s)
           T == {m \in Nat : m <= n => \A s \in UpTo(Accounts, m) : Fact(s)}
<1>5. ASSUME g[{}] = 0 PROVE Fact({})
  <2>1. {} \cap Endowed = {} /\ Cardinality({}) = 0
    BY FS_EmptySet
  <2>2. Endowment * 0 = 0
    BY <1>2
  <2>3. QED
    BY <1>5, <2>1, <2>2
<1>6. 0 \in T
  <2> SUFFICES ASSUME NEW s \in UpTo(Accounts, 0) PROVE Fact(s)
    OBVIOUS
  <2>1. IsFiniteSet(s) /\ Cardinality(s) \in Nat /\ Cardinality(s) <= 0 /\ s \in SUBSET Accounts
    BY AccountsAssumption, FS_Subset, FS_CardinalityType DEF UpTo
  <2>2. s = {}
    BY <2>1, FS_EmptySet
  <2>3. s \in UpTo(Accounts, n)
    BY <1>3, <2>1 DEF UpTo
  <2>4. g[{}] = 0
    BY <1>4, <2>2, <2>3 DEF IsSum, SumStep
  <2> HIDE DEF Fact
  <2>5. QED
    BY <1>5, <2>2, <2>4
<1>7. ASSUME NEW m \in Nat, m \in T PROVE m + 1 \in T
  <2> HIDE DEF Fact
  <2> SUFFICES ASSUME m + 1 <= n, NEW s \in UpTo(Accounts, m + 1) PROVE Fact(s)
    OBVIOUS
  <2> USE DEF Fact
  <2>0. \A t \in UpTo(Accounts, m) : Fact(t)
    <3> HIDE DEF Fact
    <3>1. QED
      BY <1>3, <1>7
  <2> DEFINE r == s \ {Pick(s)}
             x == Pick(s)
  <2>1. CASE s = {}
    <3>1. {} \in UpTo(Accounts, m)
      BY FS_EmptySet DEF UpTo
    <3>2. QED
      BY <2>0, <2>1, <3>1
  <2>2. CASE s # {}
    <3>1. x \in s /\ x \in Accounts /\ r \in UpTo(Accounts, m)
      BY <2>2, AccountsAssumption, PickOne
    <3>2. s \in UpTo(Accounts, n) /\ IsFiniteSet(r \cap Endowed)
      BY <1>3, <3>1, AccountsAssumption, FS_Subset, FS_CardinalityType DEF UpTo
    <3>3. g[s] = f[x] + g[r]
      BY <1>4, <2>2, <3>2 DEF IsSum, SumStep
    <3>4. g[r] = Endowment * Count(r) /\ Count(r) \in Nat
      BY <2>0, <3>1, <3>2, FS_CardinalityType
    <3>5. CASE x \in Endowed
      <4>1. s \cap Endowed = (r \cap Endowed) \cup {x} /\ x \notin r \cap Endowed
        BY <3>1, <3>5
      <4> HIDE DEF r, x
      <4>2. Count(s) = Count(r) + 1
        BY <3>2, <4>1, FS_AddElement
      <4>3. f[x] = Endowment
        BY <1>2, <3>1, <3>5
      <4> HIDE DEF Count
      <4>4. QED
        BY <1>2, <3>3, <3>4, <4>2, <4>3
    <3>6. CASE x \notin Endowed
      <4>1. s \cap Endowed = r \cap Endowed
        BY <3>1, <3>6
      <4>2. f[x] = 0
        BY <1>2, <3>1, <3>6
      <4> HIDE DEF r, x
      <4>3. Count(s) = Count(r)
        BY <4>1
      <4> HIDE DEF Count
      <4>4. Endowment * Count(r) \in Nat
        BY <1>2, <3>4
      <4>5. QED
        BY <3>3, <3>4, <4>2, <4>3, <4>4
    <3>7. QED
      BY <3>5, <3>6
  <2>3. QED
    BY <2>1, <2>2
<1> HIDE DEF T
<1>8. n \in T
  BY <1>3, <1>6, <1>7, Nats!NatInductionSet
<1>9. Fact(Accounts)
  BY <1>3, <1>8 DEF T
<1>10. Accounts \cap Endowed = Endowed
  BY <1>2
<1>11. QED
  BY <1>4, <1>9, <1>10 DEF f

LEMMA CostsInvariant == Spec => [](IndInv /\ Costs)
<1>1. Init => Costs
  <2> SUFFICES ASSUME Init PROVE Costs
    OBVIOUS
  <2>1. history = << >> /\ Issuance = Endowment * Cardinality(Endowed)
    BY GenesisSum DEF Init
  <2>2. PaidCalls = {}
    BY <2>1 DEF PaidCalls
  <2>3. Cardinality(PaidCalls) = 0 /\ Fee * 0 = 0
    BY <2>2, FS_EmptySet, Amounts
  <2>4. Endowment * Cardinality(Endowed) \in Nat
    BY GenesisAssumption, AccountsAssumption, FS_Subset, FS_CardinalityType, Amounts
  <2>5. QED
    BY <2>1, <2>3, <2>4 DEF Costs
<1>2. IndInv /\ Costs /\ [Next]_vars => Costs'
  <2> SUFFICES ASSUME IndInv, Costs, [Next]_vars PROVE Costs'
    OBVIOUS
  <2>1. ASSUME NEW tx \in Signed, ApplyExtrinsic(tx) PROVE Costs'
    BY <2>1, CostsStep
  <2>2. CASE UNCHANGED <<state, history>>
    BY <2>2 DEF Costs, Issuance, PaidCalls
  <2>3. QED
    BY <2>1, <2>2 DEF Next, NextBlock, vars
<1>3. QED
  BY <1>1, <1>2, Induction, PTL DEF Spec

\* No call is free but those of the sudo key: the fees of all others, refused
\* ones too, are missing from the issuance, which never grows.
THEOREM FeesLeaveTheIssuance == Spec => []EveryCallIsPaid
<1>1. IndInv /\ Costs => EveryCallIsPaid
  <2> SUFFICES ASSUME IndInv, Costs PROVE EveryCallIsPaid
    OBVIOUS
  <2>1. DOMAIN history = 1 .. Len(history)
    BY DEF IndInv
  <2>2. Paid = Cardinality(PaidCalls)
    BY <2>1 DEF Paid, PaidCalls
  <2>3. QED
    BY <2>2 DEF Costs, EveryCallIsPaid
<1>2. QED
  BY <1>1, CostsInvariant, PTL

=============================================================================
