---------------------------- MODULE MCNolikRuntime ----------------------------
(***************************************************************************)
(* Two endowed accounts and a third one, for NolikRuntime.  Alice holds    *)
(* the sudo key.  Bob can be removed by his own transfer, carol by one     *)
(* that the sudo key makes in her name, and both can come back.            *)
(***************************************************************************)
EXTENDS NolikRuntime

CONSTANTS alice, bob, carol, m1, m2, empty

MCAccounts == {alice, bob, carol}
MCBytes == {m1, m2, empty}
MCMeta == [channels |-> <<[nonce |-> m1, parties |-> <<m1>>]>>]
MCMetadata == {MCMeta}

Send(message) == [name |-> "send_message", metadata |-> MCMeta, message |-> message]
Pay(dest, value) == [name |-> "transfer", dest |-> dest, value |-> value]
PayAlive(dest, value) == [name |-> "transfer_keep_alive", dest |-> dest, value |-> value]
AsRoot(call) == [name |-> "sudo", call |-> call]
As(who, call) == [name |-> "sudo_as", who |-> who, call |-> call]
HandOver(new) == [name |-> "set_key", new |-> new]

Tx(account, nonce, era, call) ==
  [account |-> account, nonce |-> nonce, era |-> era, call |-> call]

MCSigned ==
  {Tx(bob, 0, Immortal, Send(m1)), Tx(bob, 0, 1, Send(m2)), Tx(bob, 1, Immortal, Pay(alice, 4)),
   Tx(bob, 0, Immortal, Pay(carol, 4)), Tx(bob, 1, 2, As(alice, Send(m1))),
   Tx(alice, 0, Immortal, Pay(bob, 3)), Tx(alice, 1, Immortal, As(carol, Pay(bob, 4))),
   Tx(alice, 2, Immortal, HandOver(bob)), Tx(alice, 3, Immortal, As(bob, Send(m2))),
   Tx(alice, 1, Immortal, As(bob, Send(m2))),
   Tx(alice, 0, 1, AsRoot(Send(m1))), Tx(alice, 1, Immortal, PayAlive(bob, 1)),
   Tx(carol, 0, Immortal, Send(empty)),
   Tx(carol, 1, Immortal, PayAlive(alice, 2)), Tx(carol, 0, Immortal, [name |-> "remark"]),
   RemarkBuilder(0, 0), TransferKeepAliveBuilder(alice, ExistentialDeposit, 1, 0)}

=============================================================================
