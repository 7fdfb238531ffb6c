---------------------------- MODULE MCDispatcher ----------------------------
(***************************************************************************)
(* Dispatcher on a small instance: more tasks than the queue holds, one of *)
(* which never returns.                                                    *)
(***************************************************************************)
EXTENDS Dispatcher

CONSTANTS t1, t2, t3, t4
=============================================================================
