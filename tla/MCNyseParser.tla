---------------------------- MODULE MCNyseParser ----------------------------
(***************************************************************************)
(* NyseParser for TLC.  Message types are as the wire has them: 100 is Add *)
(* Order and 140, the Quote of another feed, has no case.                  *)
(***************************************************************************)
EXTENDS NyseParser

MCMsgTypes == {100, 140}
MCImplemented == {100}

=============================================================================
