-------------------------------- MODULE Quota --------------------------------
(***************************************************************************)
(* What the rate limiter promises: for every key and every window a bucket *)
(* that refills with time and pays for each admitted request.  No          *)
(* registry, no timestamps, no pruning.                                    *)
(*                                                                         *)
(* A bucket of window w is counted in units of 1/Period[w] of a request,   *)
(* so that a second refills Limit[w] units, a request costs Period[w] and  *)
(* nothing is rounded.                                                     *)
(***************************************************************************)
EXTENDS Naturals

CONSTANTS Keys,      \* users (create) or client addresses (sign-in)
          Windows,   \* 1 is the first the limiter looks at
          Limit,     \* requests a window grants ...
          Period,    \* ... in this many seconds
          Restarts   \* whether the process may be restarted

ASSUME QuotaAssumption ==
  /\ Windows \subseteq Nat \ {0}
  /\ Limit \in [Windows -> Nat \ {0}]
  /\ Period \in [Windows -> Nat \ {0}]
  /\ Restarts \in BOOLEAN

VARIABLE credit      \* key -> window -> units left

Full == [w \in Windows |-> Limit[w] * Period[w]]

AtMost(w, units) == IF units <= Full[w] THEN units ELSE Full[w]

Affordable(level) == \A w \in Windows : level[w] >= Period[w]

Init == credit = [k \in Keys |-> Full]

(* Mutant: a request is paid from the first window only. *)
AdmitUnpaid(k) ==
  /\ Affordable(credit[k])
  /\ credit' = [credit EXCEPT ![k][1] = @ - Period[1]]

Admit(k) ==
  /\ Affordable(credit[k])
  /\ credit' = [credit EXCEPT ![k] = [w \in Windows |-> credit[k][w] - Period[w]]]

Second ==
  credit' = [k \in Keys |-> [w \in Windows |-> AtMost(w, credit[k][w] + Limit[w])]]

(* The counters live in the process: a restart makes every bucket full. *)
Restart ==
  /\ Restarts
  /\ credit' = [k \in Keys |-> Full]

Next == (\E k \in Keys : Admit(k)) \/ Second \/ Restart

Spec == Init /\ [][Next]_credit
==============================================================================
