------------------------------ MODULE MCIngest ------------------------------
(* Instances of the ingest path for TLC. *)
EXTENDS IngestProperties, TLC

CONSTANTS u1, u2, r1, r2

TwoUploads == {u1, u2}
OneRemoval == {r1}
TwoRemovals == {r1, r2}
JpgOnly == {"jpg"}
HeicOnly == {"heic"}
\* Requests of one kind are alike; only safety runs use the symmetry.
RequestsAlike == Permutations(TwoUploads) \cup Permutations(TwoRemovals)
=============================================================================
