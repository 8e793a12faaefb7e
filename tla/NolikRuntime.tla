----------------------------- MODULE NolikRuntime -----------------------------
(***************************************************************************)
(* runtime/src/lib.rs: what executing signed extrinsics does to one chain. *)
(* The runtime composes pallet_nolik with the FRAME pallets for accounts,  *)
(* balances, fees and sudo, so a message is paid for, its extrinsic has a  *)
(* nonce and an era, and the holder of the sudo key may send it in another *)
(* account's name.  An account that falls below the existential deposit is *)
(* removed together with its nonce.                                        *)
(*                                                                         *)
(* Calls are records with a field `name`: send_message, transfer,          *)
(* transfer_keep_alive, remark, sudo, sudo_as, set_key.                    *)
(***************************************************************************)
EXTENDS NolikCall, FiniteSetsExt

CONSTANTS
  Endowed,             \* the pre-funded accounts of the genesis state
  Endowment,           \* what each of them holds: 1 << 60
  SudoKey,             \* the root_key of the genesis state
  ExistentialDeposit,  \* EXISTENTIAL_DEPOSIT
  Fee,                 \* IdentityFee of weight and length: one for all calls
  BlockHashCount,      \* how many block hashes the runtime keeps
  Immortal,            \* Era::Immortal
  Bob,                 \* the keyring account that signs for the benchmarks
  Signed,              \* the extrinsics that the accounts ever sign
  MaxBlock             \* bound: blocks 1 .. MaxBlock are built

ASSUME AccountsAssumption == IsFiniteSet(Accounts)       \* AccountId: 32 bytes
ASSUME GenesisAssumption == {SudoKey, Bob} \cup Endowed \subseteq Accounts
ASSUME BalanceAssumption ==
  /\ {Endowment, ExistentialDeposit, Fee} \subseteq Nat \ {0}
  /\ Endowment >= ExistentialDeposit
ASSUME BlockAssumption == {BlockHashCount, MaxBlock} \subseteq Nat \ {0}

\* RuntimeCall, as far as it is modelled; the inner call of sudo is a plain one.
PlainCall(call) ==
  \/ call.name = "send_message" /\ call.metadata \in Metadata /\ call.message \in Bytes
  \/ /\ call.name \in {"transfer", "transfer_keep_alive"}
     /\ call.dest \in Accounts /\ call.value \in Nat
  \/ call.name = "remark"

SudoCall(call) ==
  \/ call.name = "sudo" /\ PlainCall(call.call)
  \/ call.name = "sudo_as" /\ call.who \in Accounts /\ PlainCall(call.call)
  \/ call.name = "set_key" /\ call.new \in Accounts

ASSUME SignedAssumption ==
  \A tx \in Signed : /\ tx.account \in Accounts /\ tx.nonce \in Nat
                     /\ tx.era = Immortal \/ tx.era \in Nat
                     /\ PlainCall(tx.call) \/ SudoCall(tx.call)

VARIABLES
  block,     \* the number of the block whose extrinsics are being executed
  hashes,    \* BlockHash: the numbers of the blocks whose hash is stored
  state,     \* the storage of the pallets, see GenesisConfig
  history    \* the extrinsics executed and the accounts removed, in order

vars == <<block, hashes, state, history>>

-----------------------------------------------------------------------------
(* Eras *)

MaxOf(a, b) == IF a >= b THEN a ELSE b

NextPowerOfTwo(n) == 2 ^ Min({k \in 0 .. n : 2 ^ k >= n})

MortalPeriod_Whole == MaxOf(NextPowerOfTwo(BlockHashCount), 4)    \* mutant

\* The period that create_benchmark_extrinsic asks for; Era::mortal rounds it
\* up to at least four.
MortalPeriod == MaxOf(NextPowerOfTwo(BlockHashCount) \div 2, 4)

\* Era::birth: the block that an era signed at block `signedAt` counts from,
\* as seen at block `current`.  Only the phase goes with the extrinsic.
Birth(signedAt, current) ==
  LET phase == signedAt % MortalPeriod
  IN ((MaxOf(current, phase) - phase) \div MortalPeriod) * MortalPeriod + phase

\* CheckEra: the hash of the birth block must be stored, and the signature
\* only fits the hash that it was made with.
AliveEra(era) == era = Immortal \/ (era \in hashes /\ Birth(era, block) = era)

\* The extrinsics of the benchmark commands: mortal, with the era of the best
\* block, while the client's default is an immortal one.
create_benchmark_extrinsic(sender, call, nonce, best_block) ==
  [account |-> sender, nonce |-> nonce, era |-> best_block, call |-> call]

RemarkBuilder(nonce, best_block) ==
  create_benchmark_extrinsic(Bob, [name |-> "remark"], nonce, best_block)

TransferKeepAliveBuilder(dest, value, nonce, best_block) ==
  create_benchmark_extrinsic(
    Bob, [name |-> "transfer_keep_alive", dest |-> dest, value |-> value], nonce, best_block)

-----------------------------------------------------------------------------
(* Storage *)

\* testnet_genesis
GenesisConfig ==
  [free    |-> [a \in Accounts |-> IF a \in Endowed THEN Endowment ELSE 0],
   nonce   |-> [a \in Accounts |-> 0],
   key     |-> SudoKey,
   counter |-> 0,
   sent    |-> << >>]

\* An account is stored while it holds the existential deposit.
Exists(s, who) == s.free[who] >= ExistentialDeposit

Deposit_KeepNonce(s, who, amount) ==                     \* mutant
  [s EXCEPT !.free[who] = IF amount >= ExistentialDeposit THEN amount ELSE 0]

\* The free balance of `who` becomes `amount`.  Below the existential deposit
\* the account goes away, nonce and all: DustRemoval and OnKilledAccount do
\* nothing, so the dust is lost.
Deposit(s, who, amount) ==
  IF amount >= ExistentialDeposit THEN [s EXCEPT !.free[who] = amount]
  ELSE [s EXCEPT !.free[who] = 0, !.nonce[who] = 0]

-----------------------------------------------------------------------------
(* Dispatch: the storage after a call of `origin`, or `s` itself when the   *)
(* call returns an error.                                                   *)

SendMessage(s, origin, call) ==
  IF DispatchResult(origin, call.metadata, call.message, s.counter) = "Ok"
  THEN [s EXCEPT !.counter = WrappingSucc(@),
                 !.sent = Append(@, [key |-> KeyOfNext(origin, s.counter), message |-> call.message])]
  ELSE s

MayTransfer(s, origin, call) ==
  /\ origin \in Accounts \ {call.dest}
  /\ call.value > 0
  /\ s.free[origin] >= call.value
  /\ s.free[call.dest] + call.value >= ExistentialDeposit
  /\ call.name = "transfer_keep_alive" =>
       s.free[origin] - call.value >= ExistentialDeposit

\* Balances::transfer may remove the sender, transfer_keep_alive may not; the
\* receiver must come to the existential deposit.
Transfer(s, origin, call) ==
  IF MayTransfer(s, origin, call)
  THEN Deposit(Deposit(s, call.dest, s.free[call.dest] + call.value),
               origin, s.free[origin] - call.value)
  ELSE s

DispatchCall(s, origin, call) ==
  CASE call.name = "send_message"                      -> SendMessage(s, origin, call)
    [] call.name \in {"transfer", "transfer_keep_alive"} -> Transfer(s, origin, call)
    [] call.name = "remark"                            -> s

SudoCalls == {"sudo", "sudo_as", "set_key"}

HoldsKey_Genesis(s, who) == who = SudoKey                \* mutant
HoldsKey(s, who) == who = s.key

\* pallet_sudo: the call is dispatched as Root, or as any account at all, and
\* the outer call succeeds whatever the inner one returns.
Sudo(s, who, call) ==
  CASE ~HoldsKey(s, who)                        -> s
    [] HoldsKey(s, who) /\ call.name = "sudo"    -> DispatchCall(s, Root, call.call)
    [] HoldsKey(s, who) /\ call.name = "sudo_as" -> DispatchCall(s, call.who, call.call)
    [] HoldsKey(s, who) /\ call.name = "set_key" -> [s EXCEPT !.key = call.new]

\* Pays::No: the key holder gets the fee back, unless the account is gone.
PaysFee_KeyHolderNever(s, tx) == ~HoldsKey(s, tx.account)    \* mutant
PaysFee(s, tx) == ~(tx.call.name \in SudoCalls /\ HoldsKey(s, tx.account))

Refund(s, who) == IF Exists(s, who) THEN [s EXCEPT !.free[who] = @ + Fee] ELSE s

-----------------------------------------------------------------------------
(* Executive *)

\* CheckNonce and ChargeTransactionPayment: the fee must leave the account
\* alive.  A block may not contain an extrinsic that fails one of the checks.
Includable(tx) ==
  /\ AliveEra(tx.era)
  /\ tx.nonce = state.nonce[tx.account]
  /\ state.free[tx.account] - Fee >= ExistentialDeposit

\* pre_dispatch: the nonce and the fee are taken whatever the call returns.
PreDispatch_NoNonce(s, tx) ==                            \* mutant
  [s EXCEPT !.free[tx.account] = @ - Fee,
            !.nonce[tx.account] = IF tx.call.name = "send_message" THEN @ ELSE @ + 1]
PreDispatch(s, tx) ==
  [s EXCEPT !.nonce[tx.account] = @ + 1, !.free[tx.account] = @ - Fee]

Dispatch(s, tx) ==
  IF tx.call.name \in SudoCalls THEN Sudo(s, tx.account, tx.call)
  ELSE DispatchCall(s, tx.account, tx.call)

PostDispatch(s, paying, tx) == IF paying THEN s ELSE Refund(s, tx.account)

RuntimeTypeOK ==
  /\ block \in 1 .. MaxBlock
  /\ hashes \subseteq 0 .. block - 1
  /\ state.key \in Accounts
  /\ state.counter \in 0 .. MaxCounter
  /\ \A i \in DOMAIN state.sent : state.sent[i] \in [key : Keys, message : Bytes]
  /\ \A a \in Accounts :
       /\ state.free[a] \in Nat /\ state.nonce[a] \in Nat
       /\ ~Exists(state, a) => state.free[a] = 0 /\ state.nonce[a] = 0

Init ==
  /\ block = 1
  /\ hashes = {0}
  /\ state = GenesisConfig
  /\ history = << >>

\* What the history tells of an extrinsic: the sudo key it found, and which
\* messages of the storage `after` it sent.
Executed(tx, after) ==
  [kind |-> "executed", tx |-> tx, key |-> state.key,
   messages |-> Len(state.sent) + 1 .. Len(after.sent)]
Removed(a) == [kind |-> "removed", account |-> a]

\* Executive::apply_extrinsic
ApplyExtrinsic(tx) ==
  LET ready == PreDispatch(state, tx)
      after == PostDispatch(Dispatch(ready, tx), PaysFee(state, tx), tx)
      reaped == {a \in Accounts : Exists(state, a) /\ ~Exists(after, a)}
  IN /\ Includable(tx)
     /\ state' = after
     /\ history' = Append(history, Executed(tx, after)) \o
                   (IF reaped = {} THEN << >> ELSE <<Removed(CHOOSE a \in reaped : TRUE)>>)
     /\ UNCHANGED <<block, hashes>>

\* The block is finalized and the next one initialized: the hash of the parent
\* is stored, the oldest one is dropped, but never the genesis hash.
NextBlock ==
  /\ block < MaxBlock
  /\ block' = block + 1
  /\ hashes' = (hashes \cup {block}) \ (1 .. block - BlockHashCount - 1)
  /\ UNCHANGED <<state, history>>

Next == NextBlock \/ \E tx \in Signed : ApplyExtrinsic(tx)

Spec == Init /\ [][Next]_vars

-----------------------------------------------------------------------------
(* Safety *)

\* CheckNonce keeps a signed extrinsic from being executed twice only as long
\* as its account lives: a second execution needs the removal of the account
\* in between (OnKilledAccount = (), and the nonce goes with the account).
ReplayNeedsRemoval ==
  \A i, j \in DOMAIN history :
    /\ i < j
    /\ history[i].kind = "executed" /\ history[j].kind = "executed"
    /\ history[i].tx = history[j].tx
    => \E k \in i + 1 .. j - 1 :
         history[k] = Removed(history[i].tx.account)

\* A mortal extrinsic is dead for good one period after the block it was
\* signed at: it never finds a later block of the same phase with its hash,
\* and within the period it never misses the hash that it needs
\* (benchmarking.rs:129 takes the period from BlockHashCount).
MortalExactly ==
  \A tx \in Signed :
    tx.era # Immortal /\ tx.era < block =>
      (AliveEra(tx.era) <=> block < tx.era + MortalPeriod)

\* Keys stay unique although nonces start again: the pallet counts messages of
\* the chain, not of the account (pallets/nolik/src/lib.rs:62, "unique key").
MessageKeysUnique ==
  \A i, j \in DOMAIN state.sent :
    state.sent[i].key = state.sent[j].key => i = j

\* Who holds the sudo key when the i-th extrinsic runs: it is only handed over
\* by its holder.
Holder(i) ==
  LET handed == {k \in 1 .. i - 1 :
                   /\ history[k].kind = "executed"
                   /\ history[k].tx.call.name = "set_key"
                   /\ history[k].tx.account = history[k].key}
  IN IF handed = {} THEN SudoKey ELSE history[Max(handed)].tx.call.new

\* The call of `tx` is to send `message` in the name of `account`.
Writes(call, message) == call.name = "send_message" /\ call.message = message
SendsFor(tx, account, message) ==
  \/ tx.account = account /\ Writes(tx.call, message)
  \/ tx.call.name = "sudo_as" /\ tx.call.who = account /\ Writes(tx.call.call, message)

\* Every message was sent by an extrinsic of its own in which the account of
\* its key asked for just that message, or in which sudo_as asked for it in
\* the name of that account; and who signed such a sudo_as was holding the key
\* at that very point of the history, so that a former holder, or one to come,
\* sends for nobody (pallets/nolik/src/lib.rs:76, ensure_signed, under
\* pallet_sudo).
SentByOwnerOrSudo ==
  /\ \A i \in DOMAIN history : history[i].kind = "executed" => history[i].key = Holder(i)
  /\ \A m \in DOMAIN state.sent :
       \E i \in DOMAIN history :
         /\ history[i].kind = "executed" /\ history[i].messages = {m}
         /\ SendsFor(history[i].tx, state.sent[m].key.account, state.sent[m].message)
         /\ history[i].tx.call.name = "sudo_as" => history[i].tx.account = Holder(i)

\* Nothing is for free: every extrinsic but those of the sudo key burns a fee,
\* also a refused one, and nothing ever adds to the issuance.
Issuance == SumFunction(state.free)

Paid ==
  Cardinality({i \in DOMAIN history :
    /\ history[i].kind = "executed"
    /\ ~(history[i].tx.account = history[i].key /\ history[i].tx.call.name \in SudoCalls)})

EveryCallIsPaid ==
  Issuance + Fee * Paid <= Endowment * Cardinality(Endowed)

=============================================================================
