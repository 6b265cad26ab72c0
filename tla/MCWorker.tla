------------------------------ MODULE MCWorker ------------------------------
EXTENDS WorkerProofs
=============================================================================
