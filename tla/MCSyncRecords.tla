---------------------------- MODULE MCSyncRecords ----------------------------
(* Small instances of SyncRecords.                                         *)
EXTENDS SyncRecords, TLC

CONSTANTS k1, k2, a

Live(k, h, t) == [key |-> k, hash |-> h, at |-> t, deleted |-> FALSE, data |-> h]
Delete(k, t) == [key |-> k, hash |-> EmptyHash, at |-> t, deleted |-> TRUE,
                 data |-> NoData]

\* One device that pulls both keys.  k1 has two versions of one millisecond and
\* a delete of the same, and is written again later; k2 has one version.  Every
\* version of a key has one time for its content.
PullPushes ==
    {Live(k1, 2, 1), Live(k1, 3, 1), Delete(k1, 1), Live(k1, 4, 2), Live(k2, 3, 1)}

\* Three by themselves; one key twice, and two keys, in one batch.
PullBatches ==
    {<<Live(k1, 2, 1)>>, <<Delete(k1, 1)>>, <<Live(k2, 3, 1)>>,
     <<Live(k1, 3, 1), Delete(k1, 1)>>, <<Live(k2, 3, 1), Live(k1, 4, 2)>>}

PullScope == (a :> {k1, k2})

\* A document and a tombstone, each pushed by itself.
TwoPushes == {Live(k1, 2, 1), Delete(k2, 1)}
TwoBatches == {<<r>> : r \in TwoPushes}
=============================================================================
