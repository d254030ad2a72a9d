------------------------ MODULE MCUploadPipeline ------------------------
(* Instances of UploadPipeline for TLC. *)
EXTENDS UploadPipeline, TLC

CONSTANTS u1, u2, j1, j2, j3, r1, r2, w1, w2, h1

\* Every upload is of the same file.
SameHash == [u \in Uploads |-> h1]

\* Every slot may carry every operation.
AllOperations == [r \in Requests |-> Operations]

\* Two slots that may both retry, and nothing that cancels.
TwoRetries == [r \in Requests |-> {"create", "complete", "retry"}]

\* One slot cancels while the other one retries.
CancelAndRetry ==
    [r \in Requests |-> IF r = r1 THEN {"create", "complete", "cancel"}
                                  ELSE {"retry"}]

\* Sound for the safety runs: no slot, worker or job row is singled out there.
Symmetry ==
    Permutations(Workers) \cup Permutations(Jobs) \cup Permutations(Requests)

\* Neither is an upload, when all are of the same file.
UploadSymmetry == Symmetry \cup Permutations(Uploads)
===========================================================================
