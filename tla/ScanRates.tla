----------------------------- MODULE ScanRates -----------------------------
(***************************************************************************)
(* What addScan and rmScan promise: the IOC has a set of scan rates to     *)
(* which rates are added and from which they are removed.                  *)
(***************************************************************************)
CONSTANT Rate
VARIABLE rates

Init == rates \in SUBSET Rate
Add == \E r \in Rate : rates' = rates \cup {r}
Remove == \E r \in Rate : rates' = rates \ {r}
Next == Add \/ Remove
Spec == Init /\ [][Next]_rates
=============================================================================
