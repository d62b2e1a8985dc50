----------------------------- MODULE MCTxWorker -----------------------------
EXTENDS TxWorker

\* Two attempts of one QSO, the second of a remote client, and between them
\* one of another QSO, which the first may share a bundle with.
ThreeFrames == <<"q1", "q2", "q1">>
LastRemote == <<Local, Local, "a">>
=============================================================================
