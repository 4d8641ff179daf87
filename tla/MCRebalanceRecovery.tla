------------------------ MODULE MCRebalanceRecovery ------------------------
(* RebalanceRecovery for TLC: the sessions are shared out to the executors. *)
EXTENDS RebalanceRecovery, TLC

CONSTANTS e1, e2, s1, s2

OneExecutor  == {e1}
TwoExecutors == {e1, e2}
OneSession   == {s1}
TwoSessions  == {s1, s2}

NoDismissals == {}

OwnOne == s1 :> e1
OwnBoth == s1 :> e1 @@ s2 :> e1
OwnEach == s1 :> e1 @@ s2 :> e2
=============================================================================
