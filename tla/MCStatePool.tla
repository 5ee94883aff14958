---------------------------- MODULE MCStatePool ----------------------------
(***************************************************************************)
(* Two ranks: a sliding pool and a recurrent slot pool on rank 0, a paged  *)
(* pool that retains everything on rank 1.  Reservations round up to pages *)
(* in kv1, and the ring of ring0 wraps: window 2, one query token and      *)
(* pages of one token give sliding_capacity(3, 2, 1, 1) = 2.               *)
(***************************************************************************)
EXTENDS StatePool, TLC

CONSTANTS ring0, kv1, conv0

MCPools == {ring0, kv1, conv0}
MCRankOf == ring0 :> 0 @@ kv1 :> 1 @@ conv0 :> 0
MCCapacity == ring0 :> 3 @@ kv1 :> 3 @@ conv0 :> 2
MCPageTokens == ring0 :> 1 @@ kv1 :> 2 @@ conv0 :> 0
MCMaxTokens == ring0 :> 2 @@ kv1 :> 4 @@ conv0 :> 4
MCFull == ring0 :> FALSE @@ kv1 :> TRUE @@ conv0 :> TRUE

MCSymmetry == Permutations(Requests)
=============================================================================
