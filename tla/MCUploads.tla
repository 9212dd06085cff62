------------------------------ MODULE MCUploads ------------------------------
(* An instance of Uploads in which an upload may lose its entry half-way.   *)
EXTENDS Uploads
=============================================================================
