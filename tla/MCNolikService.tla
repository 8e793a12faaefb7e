---------------------------- MODULE MCNolikService ----------------------------
(***************************************************************************)
(* The authorities of chain_spec.rs - one on the development chain, two on *)
(* the local testnet - and the smallest network that tolerates a fault.    *)
(***************************************************************************)
EXTENDS NolikService

CONSTANTS alice, bob, carol, dave

MCGenesisAuthorities == {<<alice>>, <<alice, bob>>, <<alice, bob, carol, dave>>}

=============================================================================
