----------------------------- MODULE MCCertTree -----------------------------
(***************************************************************************)
(* CertTree for TLC: every map of four certificates to CAs, among them the *)
(* shape of GetCerts' two trees, and a CA that is unknown.                 *)
(***************************************************************************)
EXTENDS CertTree

FourNames == {"ca", "apiserver", "front-proxy-ca", "front-proxy-client"}
KnownOrNot == FourNames \cup {NoCA, "unknown"}
=============================================================================
