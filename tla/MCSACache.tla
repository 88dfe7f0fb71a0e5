----------------------------- MODULE MCSACache -----------------------------
(* Small instances of SACache: ServiceAccounts of one name in different    *)
(* namespaces, so that they share a wildcard entry, and any pods.          *)
EXTENDS SACacheRefinement

CONSTANTS AnyNamespace

MCCMKeys == Keys \cup {AnyNamespace}
MCWildcard == [k \in Keys |-> AnyNamespace]
AnyPods == [Requests -> Keys]
=============================================================================
