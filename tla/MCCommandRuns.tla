--------------------------- MODULE MCCommandRuns ---------------------------
EXTENDS CommandRunsProperties, TLC

ExecutionPoints == {"start", "decide", "persist_read", "persist_commit",
                    "fail_read", "fail_commit", "ack_lrem", "ack_zrem", "ack_hdel"}
ForgettingPoints == {"ack_zrem", "ack_hdel"}
AllWorkerPoints == WorkerPoints \ {"idle"}
NoPoints == {}
DecidePoint == {"decide"}
RefusedPush == {"enqueue_error"}
Symmetry == Permutations(Runs) \cup Permutations(Workers)
=============================================================================
