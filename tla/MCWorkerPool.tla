---------------------------- MODULE MCWorkerPool ----------------------------
(* Small instances of WorkerPool for TLC. *)
EXTENDS WorkerPool, TLC

CONSTANTS r1, r2, r3, w1, w2, w3, search, indexer

\* Two requests for one group and one for another: a group grows, and is bypassed.
MCGroupOf == [r \in Requests |-> IF r = r3 THEN indexer ELSE search]

\* All requests update one database.
MCUpdates == [r \in Requests |-> indexer]

\* Worker objects are interchangeable (safety runs only).
Symmetry == Permutations(Workers)

\* ServerSettings::update_workers, "Maximum number of update workers to allow
\* simultaneously" (settings.h:48), at its default.
MaxUpdateWorkers == 1

\* No group of update workers grows past the limit that the settings set.
UpdateWorkersBounded == Cardinality(workers_by_group[indexer]) <= MaxUpdateWorkers
=============================================================================
