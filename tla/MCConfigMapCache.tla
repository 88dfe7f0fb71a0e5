-------------------------- MODULE MCConfigMapCache --------------------------
(* Small instances of ConfigMapCache: one or two ServiceAccounts of one    *)
(* name in different namespaces and the wildcard entry they share.         *)
EXTENDS ConfigMapCacheProperties, TLC

CONSTANTS AnyNamespace

MCCMKeys == Keys \cup {AnyNamespace}
MCWildcard == [k \in Keys |-> AnyNamespace]

NoMap == [k \in {} |-> None]
Good == [kind : {"good"}, map : Mappings]
Malformed == [kind |-> "malformed", map |-> NoMap]

\* Any good text, text that does not unmarshal, and text that panics after
\* any of its well-formed entries.
AllConfigs == Good \cup {Malformed} \cup [kind : {"broken"}, map : {m \in Mappings : DOMAIN m = MCCMKeys}]

\* Enough for an entry to move between a ServiceAccount and its wildcard.
GoodConfigs == Good
GoodOrMalformed == Good \cup {Malformed}
=============================================================================
