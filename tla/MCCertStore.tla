----------------------------- MODULE MCCertStore -----------------------------
(* A small instance of CertStore: two replicas, a pair that loads and one  *)
(* that does not.                                                          *)
EXTENDS CertStoreProperties
=============================================================================
