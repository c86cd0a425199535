----------------------------- MODULE MCPipeline -----------------------------
(* TLC instance of Pipeline: decoders are interchangeable. *)
EXTENDS Pipeline, TLC

AnyDecoder == Permutations(Decoders)
=============================================================================
