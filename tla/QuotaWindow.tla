----------------------------- MODULE QuotaWindow -----------------------------
(***************************************************************************)
(* Quota with a stop watch: how many requests of a key are admitted in any *)
(* stretch of time?                                                        *)
(***************************************************************************)
EXTENDS Quota

CONSTANT MaxAge      \* bound: the watch starts again after this many seconds

ASSUME MaxAgeAssumption == MaxAge \in Nat

VARIABLES age,       \* seconds since the watch was started
          admitted   \* key -> requests admitted since

watch == <<age, admitted>>

Start ==
  /\ age' = 0
  /\ admitted' = [k \in Keys |-> 0]

WindowInit ==
  /\ Init
  /\ age = 0
  /\ admitted = [k \in Keys |-> 0]

CountedAdmit(k) ==
  /\ Admit(k)
  /\ admitted' = [admitted EXCEPT ![k] = @ + 1]
  /\ UNCHANGED age

CountedSecond ==
  /\ age < MaxAge
  /\ Second
  /\ age' = age + 1
  /\ UNCHANGED admitted

Restarted == Restart /\ Start

Watch == Start /\ UNCHANGED credit

WindowNext ==
  \/ \E k \in Keys : CountedAdmit(k)
  \/ CountedSecond
  \/ Restarted
  \/ Watch

WindowSpec == WindowInit /\ [][WindowNext]_<<credit, age, admitted>>

(* In any stretch of age seconds without a restart a window lets a key     *)
(* pass at most Limit + age * Limit / Period times: its burst and its      *)
(* refill, whichever way the requests are spread.                          *)
WindowBound ==
  \A k \in Keys, w \in Windows :
    admitted[k] * Period[w] <= Full[w] + age * Limit[w]
==============================================================================
