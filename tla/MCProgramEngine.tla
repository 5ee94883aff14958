-------------------------- MODULE MCProgramEngine --------------------------
(***************************************************************************)
(* Active and snapshot residents over a paged pool on                      *)
(* rank 0 and a slot pool on rank 1; prompts share a prefix, and the same  *)
(* prompt is sent in two namespaces.                                       *)
(***************************************************************************)
EXTENDS ProgramEngine

CONSTANTS pages, states, k1, k2, k3, k4, a, b

MCRankOf == pages :> 0 @@ states :> 1
MCCapacity == pages :> (ActiveSlots + SnapshotSlots) * MaxContext @@ states :> (ActiveSlots + SnapshotSlots)
MCPageTokens == pages :> 1 @@ states :> 0
MCMaxTokens == pages :> MaxContext @@ states :> MaxContext
MCFull == pages :> TRUE @@ states :> TRUE
MCRequests == 1 .. MaxSerial
MCPrompt == k1 :> <<1, 1, 2>> @@ k2 :> <<1, 2>> @@ k3 :> <<1, 1, 2>> @@ k4 :> <<1, 2, 1, 1>>
MCMaxNew == k1 :> MaxContext - 3 @@ k2 :> 1 @@ k3 :> 1 @@ k4 :> 1
MCNamespace == k1 :> a @@ k2 :> a @@ k3 :> b @@ k4 :> a
=============================================================================
