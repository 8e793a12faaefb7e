---------------------------- MODULE MCNolikChain ----------------------------
(***************************************************************************)
(* Small networks for NolikChain: two accounts, of which u1 signs two      *)
(* messages and u2 one.                                                    *)
(***************************************************************************)
EXTENDS NolikChain

CONSTANTS u1, u2, m1, m2, m3, empty, alice, bob

MCAccounts == {u1, u2}
MCBytes == {m1, m2, m3, empty}
MCMeta == [channels |-> <<[nonce |-> m1, parties |-> <<m1>>]>>]
MCMetadata == {MCMeta}

Tx(account, nonce, message) ==
  [account |-> account, nonce |-> nonce, metadata |-> MCMeta, message |-> message]

MCSigned == {Tx(u1, 0, m1), Tx(u1, 1, m2), Tx(u2, 0, m3)}

\* The development chain, on which bob only follows, and the local testnet.
MCGenesisAuthorities == {<<alice>>, <<alice, bob>>}
MCLocalTestnet == {<<alice, bob>>}

=============================================================================
