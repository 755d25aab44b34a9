------------------------ MODULE MCInstallationStore ------------------------
(* Small instances of InstallationStore for TLC. *)
EXTENDS InstallationStore, TLC

\* All writing operations but one: reportError inserts below a transformer like ingest.
SafetyOperations == (OnUser \cup OnTransformer \cup OnMeter) \ {"reportError"}

\* Operations that wait in all the ways there are: deleteTransformer waits like the first half
\* of deleteUserTransformers, the other inserts like these, deleteMeter for its meter only.
WaitingOperations == OnUser \cup {"createMeter", "reportError"}

\* An insert falls into a gap locked with the rows of every other parent: the index has
\* no rows that keep their ranges apart.
AllAdjoin == (UserId \X UserId) \cup (TransformerId \X TransformerId) \cup (MeterId \X MeterId)

\* Transformer ids are compared by the cascade, so they are not interchangeable.
Symmetry == Permutations(Request) \cup Permutations(UserId) \cup Permutations(SessionId)
=============================================================================
