---------------------------- MODULE MCNolikClient ----------------------------
(***************************************************************************)
(* Two clients of the same account, each on its own node.  Another account *)
(* has signed an extrinsic that the pallet refuses.                        *)
(***************************************************************************)
EXTENDS NolikClient

CONSTANTS u1, u2, d1, d2, empty, alice, bob, c1, c2

MCAccounts == {u1, u2}
MCBytes == {d1, d2, empty}
Meta(part) == [channels |-> <<[nonce |-> part, parties |-> <<part>>]>>]
MCMetadata == {Meta(d1), Meta(d2)}

MCGenesisAuthorities == {<<alice>>, <<alice, bob>>}

MCSigned == {[account |-> u2, nonce |-> 0, metadata |-> Meta(d1), message |-> empty]}

MCNodeOf == c1 :> alice @@ c2 :> bob
MCAccountOf == [c \in Clients |-> u1]
MCDataOf == c1 :> d1 @@ c2 :> d2
MCMetaOf == [c \in Clients |-> Meta(MCDataOf[c])]

=============================================================================
