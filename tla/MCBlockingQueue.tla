--------------------------- MODULE MCBlockingQueue ---------------------------
(***************************************************************************)
(* TLC instance of BlockingQueue.  The values outnumber the capacity, so   *)
(* producers do block; two closers because failPipeline() and              *)
(* stopWorkers() may both close the same queue.  No symmetry: the run      *)
(* checks liveness.                                                        *)
(***************************************************************************)
EXTENDS BlockingQueue
=============================================================================
