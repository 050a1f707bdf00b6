---------------------------- MODULE MCDispatcher ----------------------------
(* Instances of Dispatcher for TLC.                                        *)
EXTENDS Dispatcher

CONSTANTS t1, t2, t4, shutdown

\* t1 is closeConnectionTask and t2 the releaseProtocol it adds; t4 shuts the
\* server down.
ChildClose ==
  [t \in Tasks |-> IF t = t1 THEN t2 ELSE IF t = t4 THEN shutdown ELSE NoTask]
=============================================================================
