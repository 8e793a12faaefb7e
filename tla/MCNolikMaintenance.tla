-------------------------- MODULE MCNolikMaintenance --------------------------
(***************************************************************************)
(* The development chain under maintenance: alice is the only authority,   *)
(* bob follows.  The account signs two messages with the same nonce, so    *)
(* that two blocks can send different messages under the same key.         *)
(***************************************************************************)
EXTENDS NolikMaintenance

CONSTANTS u1, m1, m2, empty, alice, bob

MCAccounts == {u1}
MCBytes == {m1, m2, empty}
MCMeta == [channels |-> <<[nonce |-> m1, parties |-> <<m1>>]>>]
MCMetadata == {MCMeta}

MCSigned ==
  {[account |-> u1, nonce |-> 0, metadata |-> MCMeta, message |-> m] : m \in {m1, m2}}

MCGenesisAuthorities == {<<alice>>}

=============================================================================
