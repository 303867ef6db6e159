-------------------------- MODULE MCWorkerRuntime --------------------------
EXTENDS WorkerRuntime, TLC

CONSTANTS t1, t2, m1, c1, c2, c3

BothQueues == <<"rum", "logs">>
OneMessage == {m1}
OneSignal == [m \in Message |-> "rum"]
=============================================================================
