--------------------------- MODULE MCCertificates ---------------------------
(***************************************************************************)
(* Certificates for TLC: the five certificates of GetCerts.                *)
(***************************************************************************)
EXTENDS Certificates

KinkCertMap == GetCerts
=============================================================================
