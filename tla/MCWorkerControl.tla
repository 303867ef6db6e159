-------------------------- MODULE MCWorkerControl --------------------------
EXTENDS WorkerControl, TLC

CONSTANTS t1, t2

BothQueues == <<"rum", "logs">>
=============================================================================
