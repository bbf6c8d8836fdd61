-------------------------- MODULE QuotaWindowProofs --------------------------
(***************************************************************************)
(* How much a rate limiter can admit, for any limits, periods and keys.    *)
(*                                                                         *)
(* The bound is not inductive: that a window has admitted no more than its *)
(* burst and its refill says nothing of what it still has to give.  What   *)
(* is preserved is the account: what was paid and what is left add up to   *)
(* no more than the burst and the refill.                                  *)
(***************************************************************************)
EXTENDS QuotaWindow, TLAPS

USE QuotaAssumption, MaxAgeAssumption

Levels ==
  /\ credit \in [Keys -> [Windows -> Nat]]
  /\ \A k \in Keys, w \in Windows : credit[k][w] <= Full[w]

Watches ==
  /\ age \in Nat
  /\ admitted \in [Keys -> Nat]

Account ==
  \A k \in Keys, w \in Windows :
    admitted[k] * Period[w] + credit[k][w] <= Full[w] + age * Limit[w]

IInv == Levels /\ Watches /\ Account

(* One factor more adds the other factor once. *)
LEMMA OneMore ==
  ASSUME NEW m \in Nat, NEW n \in Nat
  PROVE  /\ (m + 1) * n = m * n + n
         /\ 0 * n = 0
         /\ m * n \in Nat
OBVIOUS

(* A full bucket is a number of units. *)
LEMMA FullType == Full \in [Windows -> Nat]
BY OneMore DEF Full

(* A fresh watch with buckets that hold what they may. *)
LEMMA StartAccount ==
  ASSUME Levels', Start
  PROVE  Watches' /\ Account'
<1>1. Watches'
  BY DEF Start, Watches
<1>2. ASSUME NEW k \in Keys, NEW w \in Windows
      PROVE  admitted'[k] * Period[w] + credit'[k][w] <= Full[w] + age' * Limit[w]
  <2>1. admitted'[k] * Period[w] = 0 /\ age' * Limit[w] = 0
    BY OneMore DEF Start
  <2>2. credit'[k][w] \in Nat /\ credit'[k][w] <= Full[w]
    BY DEF Levels
  <2> QED BY <2>1, <2>2, FullType
<1> QED BY <1>1, <1>2 DEF Account

(* Full buckets are in range. *)
LEMMA FullLevels ==
  ASSUME credit' = [k \in Keys |-> Full]
  PROVE  Levels'
BY FullType DEF Levels

(* It starts in balance. *)
LEMMA InitIInv == WindowInit => IInv
<1> SUFFICES ASSUME WindowInit PROVE IInv
  OBVIOUS
<1>1. Levels
  BY FullType DEF WindowInit, Init, Levels
<1>2. Watches
  BY DEF WindowInit, Watches
<1>3. ASSUME NEW k \in Keys, NEW w \in Windows
      PROVE  admitted[k] * Period[w] + credit[k][w] <= Full[w] + age * Limit[w]
  <2>1. admitted[k] * Period[w] = 0 /\ age * Limit[w] = 0
    BY OneMore DEF WindowInit
  <2>2. credit[k][w] \in Nat /\ credit[k][w] <= Full[w]
    BY <1>1 DEF Levels
  <2> QED BY <2>1, <2>2, FullType
<1> QED BY <1>1, <1>2, <1>3 DEF IInv, Account

(* An admitted request moves its price from what is left to what is paid.  *)
LEMMA AdmitStep ==
  ASSUME IInv, NEW j \in Keys, CountedAdmit(j)
  PROVE  IInv'
<1> USE DEF IInv, Levels, Watches
<1>1. ASSUME NEW w \in Windows
      PROVE  credit[j][w] - Period[w] \in Nat /\ credit[j][w] - Period[w] <= Full[w]
  BY FullType DEF CountedAdmit, Admit, Affordable
<1>2. Levels'
  BY <1>1 DEF CountedAdmit, Admit
<1>3. Watches'
  BY DEF CountedAdmit
<1>4. ASSUME NEW k \in Keys, NEW w \in Windows
      PROVE  admitted'[k] * Period[w] + credit'[k][w] <= Full[w] + age' * Limit[w]
  <2>1. admitted[k] * Period[w] + credit[k][w] <= Full[w] + age * Limit[w]
    BY DEF Account
  <2>2. CASE k = j
    <3>1. admitted'[k] = admitted[k] + 1 /\ credit'[k][w] = credit[k][w] - Period[w]
      BY <2>2 DEF CountedAdmit, Admit
    <3>2. admitted'[k] * Period[w] = admitted[k] * Period[w] + Period[w]
      BY <3>1, OneMore
    <3> DEFINE paid == admitted[k] * Period[w]
               refill == age * Limit[w]
    <3>3. paid \in Nat /\ refill \in Nat
      BY OneMore
    <3>4. paid + Period[w] + (credit[k][w] - Period[w]) <= Full[w] + refill
      <4> HIDE DEF paid, refill
      <4> QED BY <2>1, <3>3, FullType DEF paid, refill
    <3> QED BY <3>1, <3>2, <3>4 DEF CountedAdmit
  <2>3. CASE k # j
    BY <2>1, <2>3 DEF CountedAdmit, Admit
  <2> QED BY <2>2, <2>3
<1> QED BY <1>2, <1>3, <1>4 DEF Account

(* A second adds at most its refill to what is left. *)
LEMMA SecondStep ==
  ASSUME IInv, CountedSecond
  PROVE  IInv'
<1> USE DEF IInv, Levels, Watches
<1>1. ASSUME NEW k \in Keys, NEW w \in Windows
      PROVE  /\ credit'[k][w] \in Nat /\ credit'[k][w] <= Full[w]
             /\ credit'[k][w] <= credit[k][w] + Limit[w]
  BY FullType DEF CountedSecond, Second, AtMost
<1>2. Levels'
  BY <1>1 DEF CountedSecond, Second
<1>3. Watches'
  BY DEF CountedSecond
<1>4. ASSUME NEW k \in Keys, NEW w \in Windows
      PROVE  admitted'[k] * Period[w] + credit'[k][w] <= Full[w] + age' * Limit[w]
  <2> DEFINE paid == admitted[k] * Period[w]
             refill == age * Limit[w]
  <2>1. paid + credit[k][w] <= Full[w] + refill
    BY DEF Account
  <2>2. paid \in Nat /\ refill \in Nat
    BY OneMore
  <2>3. admitted'[k] * Period[w] = paid /\ age' * Limit[w] = refill + Limit[w]
    BY OneMore DEF CountedSecond
  <2> HIDE DEF paid, refill
  <2> QED BY <1>1, <2>1, <2>2, <2>3, FullType
<1> QED BY <1>2, <1>3, <1>4 DEF Account

(* And every step keeps it so. *)
LEMMA NextIInv == IInv /\ [WindowNext]_<<credit, age, admitted>> => IInv'
<1> SUFFICES ASSUME IInv, [WindowNext]_<<credit, age, admitted>> PROVE IInv'
  OBVIOUS
<1>1. CASE Restarted
  <2>1. Levels'
    BY <1>1, FullLevels DEF Restarted, Restart
  <2> QED BY <1>1, <2>1, StartAccount DEF Restarted, IInv
<1>2. CASE Watch
  <2>1. Levels'
    BY <1>2 DEF Watch, IInv, Levels
  <2> QED BY <1>2, <2>1, StartAccount DEF Watch, IInv
<1>3. CASE UNCHANGED <<credit, age, admitted>>
  BY <1>3 DEF IInv, Levels, Watches, Account
<1> QED BY <1>1, <1>2, <1>3, AdmitStep, SecondStep DEF WindowNext

(* The account implies the bound. *)
LEMMA AccountBounds == IInv => WindowBound
<1> SUFFICES ASSUME IInv, NEW k \in Keys, NEW w \in Windows
             PROVE  admitted[k] * Period[w] <= Full[w] + age * Limit[w]
  BY DEF WindowBound
<1> DEFINE paid == admitted[k] * Period[w]
           due == Full[w] + age * Limit[w]
<1>1. paid \in Nat /\ due \in Nat
  BY OneMore, FullType DEF IInv, Watches
<1>2. paid + credit[k][w] <= due /\ credit[k][w] \in Nat
  BY DEF IInv, Account, Levels
<1> HIDE DEF paid, due
<1>3. paid <= due
  BY <1>1, <1>2
<1> QED BY <1>3 DEF paid, due

(* In any stretch of time without a restart a key is admitted no more often *)
(* than the burst and the refill of each window allow.                     *)
THEOREM AdmissionsAreBounded == WindowSpec => []WindowBound
BY InitIInv, NextIInv, AccountBounds, PTL DEF WindowSpec
==============================================================================
