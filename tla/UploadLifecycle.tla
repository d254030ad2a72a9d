-------------------------- MODULE UploadLifecycle --------------------------
(***************************************************************************)
(* What the upload pipeline promises: the life of an upload as its owner   *)
(* sees it in the Add view.  One upload of a file is alive at a time, a    *)
(* failed one may be retried or released, a released one is over, and a    *)
(* published one stays published, unless a request or a worker went on by  *)
(* what no longer held (misled).  UploadPipeline implements it.            *)
(***************************************************************************)
CONSTANTS Uploads, HashOf

VARIABLES phase, misled

Phases == {"none", "uploading", "processing", "published", "failed",
           "released"}

\* Phases in which the upload holds its sha256.
Live == {"uploading", "processing", "published", "failed"}

Init == phase = [u \in Uploads |-> "none"] /\ misled = {}

Move(u, from, to) ==
    /\ phase[u] \in from
    /\ phase' = [phase EXCEPT ![u] = to]

Open(u) ==
    /\ \A v \in Uploads : phase[v] \in Live => HashOf[v] # HashOf[u]
    /\ Move(u, {"none"}, "uploading")

Submit(u)  == Move(u, {"uploading"}, "processing")
Publish(u) == Move(u, {"processing"}, "published")
Retry(u)   == Move(u, {"failed"}, "processing")
Release(u) == Move(u, {"uploading", "failed"}, "released")

\* One upload fails, or a starting worker fails all that were interrupted.
Fail(U) ==
    /\ \A u \in U : phase[u] \in {"uploading", "processing"}
    /\ phase' = [u \in Uploads |-> IF u \in U THEN "failed" ELSE phase[u]]

\* A publication is taken back.
TakeBack(u) ==
    /\ u \in misled'
    /\ \E to \in {"processing", "failed"} : Move(u, {"published"}, to)

Next ==
    /\ misled \subseteq misled' /\ misled' \subseteq Uploads
    /\ \/ UNCHANGED phase
       \/ \E U \in SUBSET Uploads : Fail(U)
       \/ \E u \in Uploads :
             \/ Open(u) \/ Submit(u) \/ Publish(u)
             \/ Retry(u) \/ Release(u) \/ TakeBack(u)

Spec == Init /\ [][Next]_<<phase, misled>>

=============================================================================
