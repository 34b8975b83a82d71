---------------------------- MODULE MCWorkerPool ----------------------------
(* A finite instance of WorkerPool for TLC: a stage and its site.          *)
EXTENDS WorkerPool

MCScopes == {<<"site", "all">>, <<"site", "stage">>}
MCHome   == <<"site", "stage">>
=============================================================================
