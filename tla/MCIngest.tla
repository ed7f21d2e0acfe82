------------------------------ MODULE MCIngest ------------------------------
EXTENDS Ingest, TLC

(* Uploads differ in nothing but their name, and so do POST requests.      *)
UploadSymmetry == Permutations(Uploads) \cup Permutations(Posters)
=============================================================================
