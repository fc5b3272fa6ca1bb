--------------------------- MODULE MCMetadataStore ---------------------------
(* Model checking of MetadataStore: the number of documents and of damage  *)
(* events is given by the configurations.                                  *)
EXTENDS MetadataStore
=============================================================================
