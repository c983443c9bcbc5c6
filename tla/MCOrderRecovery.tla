-------------------------- MODULE MCOrderRecovery --------------------------
(* OrderRecovery with every number of lots within the venue's precision.    *)
(* One order is enough: the process ends up to three times around it.       *)
EXTENDS OrderRecovery

MCFmtVolume == [q \in Lots |-> q]
=============================================================================
