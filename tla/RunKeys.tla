------------------------------ MODULE RunKeys -------------------------------
(***************************************************************************)
(* Run keys, the idempotency keys built from them, and the LIKE pattern a  *)
(* worker claims with.  A key is a sequence of characters, each a string   *)
(* of length one, with the fixed parts kept whole: the property at stake   *)
(* is which characters LIKE reads as wildcards.                            *)
(***************************************************************************)
EXTENDS Naturals, Sequences

CONSTANT Letters    \* the letters and digits the run keys are made of

\* RUN_KEY_PATTERN: one or more of the letters, digits, ".", "_" and "-".
ValidRunKey(runKey) ==
    /\ runKey # <<>>
    /\ \A i \in 1 .. Len(runKey) : runKey[i] \in Letters \cup {".", "_", "-"}

\* worker_prefix
WorkerPrefix(runKey) == <<"worker:ingestion:">> \o runKey \o <<":">>

\* The idempotency key of one job of the run key.
JobKey(runKey, kind) == WorkerPrefix(runKey) \o <<kind>>

\* key LIKE prefix || '%': "_" in the prefix stands for any character.  A valid
\* run key holds no "%" and no escape character.
LikePrefix(key, prefix) ==
    /\ Len(prefix) <= Len(key)
    /\ \A i \in 1 .. Len(prefix) : prefix[i] \in {"_", key[i]}
=============================================================================
