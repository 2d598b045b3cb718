------------------------------ MODULE MCUploads ------------------------------
(***************************************************************************)
(* Two forms for found items, filled in at the same time, whose files may  *)
(* have the same name; two photos and one file that is no image.           *)
(***************************************************************************)
EXTENDS PhotoForm

CONSTANTS r1, r2

Forms  == {r1, r2}
Kinds  == [r \in Forms |-> "found"]
Chosen == [r \in Forms |-> "photo.jpg"]
=============================================================================
