------------------------ MODULE MCMultiServerMonitor ------------------------
(* Small instances of MultiServerMonitor.                                   *)
EXTENDS MultiServerMonitor

TwoServices == <<"state_sync", "fixer">>
=============================================================================
