-------------------------- MODULE MCProgramWorker --------------------------
(***************************************************************************)
(* Calls of generate on two resident slots: j1 and j3 use one request id;  *)
(* j1 has a checkpoint boundary inside its prompt, j2 decodes up to three  *)
(* tokens, j3 fills a whole prefill chunk and j4 one after its boundary.   *)
(***************************************************************************)
EXTENDS ProgramWorker, TLC

CONSTANTS j1, j2, j3, j4, a, b

MCIdOf == j1 :> a @@ j2 :> b @@ j3 :> a @@ j4 :> a
MCPrompt == j1 :> 2 @@ j2 :> 1 @@ j3 :> 2 @@ j4 :> 3
MCMaxTokens == j1 :> 1 @@ j2 :> 3 @@ j3 :> 2 @@ j4 :> 1
MCBoundary == j1 :> 1 @@ j2 :> 0 @@ j3 :> 0 @@ j4 :> 1
=============================================================================
