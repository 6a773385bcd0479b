-------------------------- MODULE MCFaceEnrollment --------------------------
(* Small instances of FaceEnrollment for TLC. *)
EXTENDS FaceEnrollment, TLC
=============================================================================
