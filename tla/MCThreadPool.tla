---------------------------- MODULE MCThreadPool ----------------------------
(***************************************************************************)
(* The worker pool for TLC.                                                *)
(***************************************************************************)
EXTENDS ThreadPool

\* Only main calls the runtime.
FlatCallers == {Main}

\* Every worker calls it as well, in a job or over a chunk.
NestedCallers == Bodies
=============================================================================
