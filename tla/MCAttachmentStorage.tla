------------------------ MODULE MCAttachmentStorage ------------------------
(***************************************************************************)
(* AttachmentStorage on small sets of files and reconcilers.  Uploads are  *)
(* interchangeable, and so are reconcilers.                                *)
(***************************************************************************)
EXTENDS AttachmentStorage, TLC

StorageSymmetry ==
  Permutations(Uploads) \cup Permutations(Legacy) \cup Permutations(Reconcilers)

=============================================================================
