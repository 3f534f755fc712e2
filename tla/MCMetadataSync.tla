--------------------------- MODULE MCMetadataSync ---------------------------
(* Instances of MetadataSync.                                            *)
EXTENDS MetadataSync
=============================================================================
