------------------------------ MODULE RouterMC ------------------------------
(***************************************************************************)
(* A router of two interfaces: host 1 on interface 0, hosts 2 and 5 on     *)
(* interface 1, 2 missing from the file.  3 has no route, the search for 4 *)
(* ends past the table though the file knows it, 10 and 11 are the router. *)
(* The replies of 1 are misread as 4, those of 2 as 3 and those of 5 as 2. *)
(***************************************************************************)
EXTENDS Router

MCIp == {1, 2, 3, 4, 5, 10, 11}
MCMyIp == [i \in 0 .. 1 |-> 10 + i]
MCHosts == [i \in 0 .. 1 |-> IF i = 0 THEN {1} ELSE {2, 5}]
MCRouteOf == [ip \in MCIp |->
  IF ip \in {1, 10} THEN 0 ELSE IF ip \in {2, 5, 11} THEN 1
  ELSE IF ip = 4 THEN STRAY ELSE NULL]
MCMisread == [ip \in MCIp |-> [i \in 0 .. 1 |->
  IF ip = 1 THEN 4 ELSE IF ip = 2 THEN 3 ELSE 2]]
MCArp == <<[ip |-> 1, mac |-> 1], [ip |-> 5, mac |-> 5], [ip |-> 4, mac |-> 5]>>
=============================================================================
