--------------------------- MODULE MCBridgeClient ---------------------------
(* Small instances of BridgeClient for TLC.                                  *)
EXTENDS BridgeClient

CONSTANTS t1, t2

OneThread  == {t1}
TwoThreads == {t1, t2}

(* One method of each kind; eval_interval is not advertised.                 *)
AllKinds       == {"check_bound", "verify_adaptive", "eval_interval", "ping", "get_info", "close"}
(* Both ways to read the contract, the unlocked write of it, and close.      *)
ReadInfoClose  == {"check_bound", "verify_adaptive", "get_info", "close"}
InfoPingEval   == {"get_info", "ping", "eval_interval"}
JustChecks     == {"check_bound"}

Served == {"check_bound", "verify_adaptive", "ping", "get_info"}

NoFaults   == {}
Everything == FaultKinds
=============================================================================
