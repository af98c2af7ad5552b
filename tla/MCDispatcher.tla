---------------------------- MODULE MCDispatcher ----------------------------
(***************************************************************************)
(* Small instances of Dispatcher: the dispatcher (1), a pool thread (2)    *)
(* and a network thread (3).                                               *)
(***************************************************************************)
EXTENDS Dispatcher

MCPool == {2}
MCDelays == {1, 2}
MCDelay == {1}

=============================================================================
