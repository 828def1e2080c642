--------------------------- MODULE MCMessageQueue ---------------------------
(***************************************************************************)
(* Instances of MessageQueue for TLC.                                      *)
(***************************************************************************)
EXTENDS MessageQueue

CONSTANTS t1, t2, c1, c2, m1, m2

MCThreads == {t1, t2}
MCConsumers == {c1, c2}
MCMessages == {m1, m2}

=============================================================================
