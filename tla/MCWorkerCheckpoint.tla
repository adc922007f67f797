------------------------- MODULE MCWorkerCheckpoint -------------------------
\* Small instances of WorkerCheckpoint: parts of two units, a file of up to
\* three full parts and a short one.
EXTENDS WorkerCheckpoint
=============================================================================
