---------------------------- MODULE MCNolikPallet ----------------------------
(***************************************************************************)
(* A runtime with two accounts and a counter of two bits.  The metadata    *)
(* are one and two channel shapes that check_message accepts, and one for  *)
(* each way it has to reject them.                                         *)
(***************************************************************************)
EXTENDS NolikPallet

CONSTANTS a1, a2, b1, b2, empty

MCAccounts == {a1, a2}
MCBytes == {b1, b2, empty}

Chan(nonce, parties) == [nonce |-> nonce, parties |-> parties]
Meta(channels) == [channels |-> channels]

MCMetadata ==
  {Meta(<<Chan(b1, <<b2>>)>>),                              \* accepted
   Meta(<<Chan(b1, <<b1, b2>>), Chan(b2, <<b1, b2>>)>>),    \* accepted
   Meta(<< >>),                                             \* no channel
   Meta(<<Chan(empty, <<b1>>)>>),                           \* no nonce
   Meta(<<Chan(b1, << >>)>>),                               \* no parties
   Meta(<<Chan(b1, <<b1, b2>>), Chan(b2, <<b1>>)>>),        \* too few parties
   Meta(<<Chan(b1, <<empty>>)>>)}                           \* an empty part

=============================================================================
