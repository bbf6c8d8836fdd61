-------------------------- MODULE RateLimiterProofs --------------------------
(***************************************************************************)
(* The rate limiter's registry, for any limits, periods, keys and sweep    *)
(* size: it grants exactly what buckets grant that are never forgotten,    *)
(* its Retry-After is exact, its warnings stay under their cap.            *)
(*                                                                         *)
(* What is preserved is stated of credit, the units a key would find if it *)
(* asked now, and not of the levels the registry holds: a level is as old  *)
(* as its entry, credit is current.                                        *)
(***************************************************************************)
EXTENDS RateLimiter, TLAPS

USE RateLimiterAssumption

(* A last answer's wait, times the refill, makes up for what its bucket    *)
(* lacks: all of it, and at most one second's refill more.                 *)
WaitsAreExact ==
  \A k \in Keys : promise[k] # Null =>
    LET w    == promise[k].window
        wait == promise[k].wait
    IN /\ Credit[k][w] + wait * Limit[w] >= Period[w]
       /\ wait > 0 => Credit[k][w] + wait * Limit[w] <= Period[w] + Limit[w]

(* An entry has counted at least the warnings of this second, and one that *)
(* is a second old has counted none; a key without entry has caused none.  *)
DenialsCounted ==
  \A k \in Keys :
    /\ entry[k] = Null => warned[k] = 0
    /\ entry[k] # Null => /\ warned[k] <= entry[k].denials
                          /\ entry[k].idle > 0 => entry[k].denials = 0

IInv == TypeOK /\ WaitsAreExact /\ DenialsCounted /\ WarningsCapped

(***************************************************************************)
(* Arithmetic.                                                             *)
(***************************************************************************)

(* Products of naturals: what one more adds, and that they grow.           *)
LEMMA Product ==
  ASSUME NEW m \in Nat, NEW n \in Nat
  PROVE  /\ m * n \in Nat /\ m * n = n * m
         /\ (m + 1) * n = m * n + n
         /\ 0 * n = 0 /\ 1 * n = n
OBVIOUS

LEMMA ProductGrows ==
  ASSUME NEW m \in Nat, NEW n \in Nat, NEW l \in Nat, m <= n
  PROVE  m * l <= n * l
OBVIOUS

(* What int() of a quotient leaves: less than one divisor.                 *)
LEMMA Quotient ==
  ASSUME NEW x \in Nat, NEW l \in Nat \ {0}
  PROVE  /\ x \div l \in Nat
         /\ (x \div l) * l <= x
         /\ x < (x \div l) * l + l
OBVIOUS

(* The longest period is a period, and no period exceeds it. *)
LEMMA LongestPeriod ==
  /\ Longest \in Nat \ {0}
  /\ \A w \in Windows : Period[w] <= Longest
<1> DEFINE Periods == {Period[w] : w \in Windows}
<1>1. \E p \in Periods : \A w \in Windows : Period[w] <= p
  <2>1. CASE Period[1] <= Period[2]
    <3> WITNESS Period[2] \in Periods
    <3> QED BY <2>1
  <2>2. CASE Period[2] <= Period[1]
    <3> WITNESS Period[1] \in Periods
    <3> QED BY <2>2
  <2> QED BY <2>1, <2>2
<1>2. Longest \in Periods /\ \A w \in Windows : Period[w] <= Longest
  BY <1>1 DEF Longest
<1> QED BY <1>2

(* The time to live outlasts every period. *)
LEMMA TtlType == Ttl \in Nat \ {0} /\ \A w \in Windows : Period[w] <= Ttl
BY LongestPeriod DEF Ttl

(* A full bucket pays at least one request. *)
LEMMA FullType ==
  /\ Full \in [Windows -> Nat]
  /\ \A w \in Windows : Period[w] <= Full[w]
<1> SUFFICES ASSUME NEW w \in Windows
             PROVE  Limit[w] * Period[w] \in Nat /\ Period[w] <= Limit[w] * Period[w]
  BY DEF Full
<1>1. 1 * Period[w] <= Limit[w] * Period[w]
  BY ProductGrows
<1> QED BY <1>1, Product

(***************************************************************************)
(* The refill.                                                             *)
(***************************************************************************)
Level == {level \in [Windows -> Nat] : \A w \in Windows : level[w] <= Full[w]}

(* A full bucket is a level. *)
LEMMA FullIsLevel == Full \in Level
BY FullType DEF Level

(* A refill gives a level, no time gives nothing. *)
LEMMA RefillType ==
  ASSUME NEW level \in Level, NEW idle \in Nat
  PROVE  /\ Refilled(level, idle) \in Level
         /\ Refilled(level, 0) = level
<1>1. ASSUME NEW w \in Windows
      PROVE  /\ AtMost(w, level[w] + idle * Limit[w]) \in 0 .. Full[w]
             /\ AtMost(w, level[w] + 0 * Limit[w]) = level[w]
  <2>1. idle * Limit[w] \in Nat /\ 0 * Limit[w] = 0
    BY Product
  <2>2. level[w] \in Nat /\ level[w] <= Full[w] /\ Full[w] \in Nat
    BY FullType DEF Level
  <2> DEFINE gain == idle * Limit[w]
  <2> HIDE DEF gain
  <2>3. AtMost(w, level[w] + gain) \in 0 .. Full[w]
    BY <2>1, <2>2 DEF AtMost, gain
  <2> QED BY <2>1, <2>2, <2>3 DEF AtMost, gain
<1>2. Refilled(level, idle) \in [Windows -> Nat]
  BY <1>1, FullType DEF Refilled
<1>3. \A w \in Windows : Refilled(level, idle)[w] <= Full[w]
  BY <1>1, FullType DEF Refilled
<1>4. Refilled(level, 0) = level
  BY <1>1 DEF Refilled, Level
<1> QED BY <1>2, <1>3, <1>4 DEF Level

(* Refilling by one second more adds one second's refill. *)
LEMMA RefillOn ==
  ASSUME NEW level \in Level, NEW idle \in Nat, NEW w \in Windows
  PROVE  Refilled(level, idle + 1)[w] = AtMost(w, Refilled(level, idle)[w] + Limit[w])
<1> DEFINE gain == idle * Limit[w]
<1>1. gain \in Nat /\ (idle + 1) * Limit[w] = gain + Limit[w]
  BY Product
<1>2. level[w] \in Nat /\ Full[w] \in Nat
  BY FullType DEF Level
<1>3. /\ Refilled(level, idle + 1)[w] = AtMost(w, level[w] + (gain + Limit[w]))
      /\ Refilled(level, idle)[w] = AtMost(w, level[w] + gain)
  BY <1>1 DEF Refilled
<1> HIDE DEF gain
<1> QED BY <1>1, <1>2, <1>3 DEF AtMost

(* After a time to live every bucket is full. *)
LEMMA RefillFull ==
  ASSUME NEW level \in Level, NEW idle \in Nat, idle >= Ttl
  PROVE  Refilled(level, idle) = Full
<1>1. ASSUME NEW w \in Windows
      PROVE  AtMost(w, level[w] + idle * Limit[w]) = Full[w]
  <2>1. Period[w] * Limit[w] <= idle * Limit[w] /\ idle * Limit[w] \in Nat
    BY TtlType, Product, ProductGrows
  <2>2. Full[w] = Period[w] * Limit[w]
    BY Product DEF Full
  <2>3. level[w] \in Nat /\ Full[w] \in Nat /\ level[w] <= Full[w]
    BY FullType DEF Level
  <2> DEFINE gain == idle * Limit[w]
  <2>4. Full[w] <= gain /\ gain \in Nat
    BY <2>1, <2>2
  <2> HIDE DEF gain
  <2>5. AtMost(w, level[w] + gain) = Full[w]
    BY <2>3, <2>4 DEF AtMost
  <2> QED BY <2>5 DEF gain
<1> QED BY <1>1, FullType DEF Refilled

(***************************************************************************)
(* Credit.                                                                 *)
(***************************************************************************)

(* An entry has a level and an age, and a key that has none has full       *)
(* buckets.                                                                *)
LEMMA EntryType ==
  ASSUME TypeOK, NEW k \in Known
  PROVE  /\ k \in Keys /\ entry[k] \in Entry /\ entry[k].level \in Level
         /\ entry[k].idle \in 0 .. Ttl + 1 /\ entry[k].denials \in 0 .. LogCap + 1
BY TtlType DEF TypeOK, Known, Entry, Level

LEMMA CreditType ==
  ASSUME TypeOK
  PROVE  /\ Credit \in [Keys -> Level]
         /\ \A k \in Keys : Credit[k] = IF k \in Known
                                          THEN Refilled(entry[k].level, entry[k].idle) ELSE Full
<1>1. ASSUME NEW k \in Known
      PROVE  Refilled(entry[k].level, entry[k].idle) \in Level
  BY EntryType, RefillType, TtlType
<1> QED BY <1>1, FullIsLevel DEF Credit, Known

(* A bucket with credit: a number of units up to its capacity. *)
LEMMA CreditUnits ==
  ASSUME TypeOK, NEW k \in Keys, NEW w \in Windows
  PROVE  /\ Credit[k][w] \in Nat /\ Full[w] \in Nat /\ Period[w] \in Nat /\ Limit[w] \in Nat
         /\ Credit[k][w] <= Full[w] /\ Period[w] <= Full[w]
BY CreditType, FullType DEF Level

(* Only entries past their time are forgotten, and their buckets are full. *)
LEMMA ForgottenIsFull ==
  ASSUME TypeOK, NEW k \in Keys, NEW o \in Forgotten(k)
  PROVE  o \in Known /\ entry[o].idle > Ttl /\ Credit[o] = Full
<1>1. o \in Known /\ entry[o].idle > Ttl
  BY DEF Forgotten, Pruned, Swept, Expired, Known
<1> QED BY <1>1, EntryType, CreditType, RefillFull, TtlType

(* check finds the credit of the key, whatever it has just forgotten. *)
LEMMA LevelIsCredit ==
  ASSUME TypeOK, NEW k \in Keys
  PROVE  LevelAt(k) = Credit[k]
<1>1. CASE k \in Forgotten(k)
  BY <1>1, ForgottenIsFull DEF LevelAt
<1>2. CASE k \notin Forgotten(k)
  BY <1>2, CreditType DEF LevelAt, Known
<1> QED BY <1>1, <1>2

(* The denials check finds are those of an entry it keeps. *)
LEMMA DenialsType ==
  ASSUME TypeOK, NEW k \in Keys
  PROVE  DenialsAt(k) \in 0 .. LogCap + 1
<1>1. CASE k \in Known
  BY <1>1, EntryType DEF DenialsAt
<1>2. CASE k \notin Known
  BY <1>2 DEF DenialsAt, Known
<1> QED BY <1>1, <1>2

(***************************************************************************)
(* A request.                                                              *)
(***************************************************************************)
Ordered(order, known) ==
  /\ order \subseteq known \X known
  /\ \A a, b \in known : <<a, b>> \in order <=> a # b /\ <<b, a>> \notin order
  /\ \A a, b, c \in known : <<a, b>> \in order /\ <<b, c>> \in order => <<a, c>> \in order

(* Without some keys the dict is ordered as before; a new key goes last. *)
LEMMA RestIsOrdered ==
  ASSUME Ordered(before, Known), NEW dropped
  PROVE  Ordered(Without(dropped), Known \ dropped)
BY DEF Ordered, Without, Known

LEMMA NewKeyGoesLast ==
  ASSUME NEW order, NEW known, NEW k, Ordered(order, known), k \notin known
  PROVE  Ordered(order \cup (known \X {k}), known \cup {k})
<1> DEFINE longer == order \cup (known \X {k})
<1>1. ASSUME NEW a \in known \cup {k}, NEW b \in known \cup {k}
      PROVE  <<a, b>> \in longer <=> IF b = k THEN a # k ELSE a # k /\ <<a, b>> \in order
  BY DEF Ordered
<1>3. longer \subseteq (known \cup {k}) \X (known \cup {k})
  BY DEF Ordered
<1> HIDE DEF longer
<1>4. ASSUME NEW a \in known \cup {k}, NEW b \in known \cup {k}
      PROVE  <<a, b>> \in longer <=> a # b /\ <<b, a>> \notin longer
  BY <1>1 DEF Ordered
<1>5. ASSUME NEW a \in known \cup {k}, NEW b \in known \cup {k}, NEW c \in known \cup {k},
             <<a, b>> \in longer, <<b, c>> \in longer
      PROVE  <<a, c>> \in longer
  BY <1>1, <1>5 DEF Ordered
<1> QED BY <1>3, <1>4, <1>5 DEF Ordered, longer

(* What a request of k leaves: its own entry, fresh, the forgotten gone,   *)
(* the rest as they were.                                                  *)
LEMMA UpsertEntries ==
  ASSUME TypeOK, NEW k \in Keys, NEW level \in Level, NEW denials \in 0 .. LogCap + 1,
         Upsert(k, level, denials)
  PROVE  /\ entry' \in [Keys -> Entry \cup {Null}]
         /\ entry'[k] = [level |-> level, idle |-> 0, denials |-> denials]
         /\ \A o \in Keys \ {k} : entry'[o] = IF o \in Forgotten(k) THEN Null ELSE entry[o]
         /\ Known' = (Known \ Forgotten(k)) \cup {k}
<1> DEFINE fresh == [level |-> level, idle |-> 0, denials |-> denials]
<1>1. fresh \in Entry
  BY DEF Entry, Level
<1>2. entry' = [o \in Keys |-> IF o = k THEN fresh
                               ELSE IF o \in Forgotten(k) THEN Null ELSE entry[o]]
  BY DEF Upsert
<1> HIDE DEF fresh
<1>3. entry' \in [Keys -> Entry \cup {Null}] /\ entry'[k] = fresh
  BY <1>1, <1>2 DEF TypeOK
<1>4. \A o \in Keys \ {k} : entry'[o] = IF o \in Forgotten(k) THEN Null ELSE entry[o]
  BY <1>2
<1>5. Known' = (Known \ Forgotten(k)) \cup {k}
  BY <1>1, <1>3, <1>4 DEF Known
<1> QED BY <1>3, <1>4, <1>5 DEF fresh

(* Its type, and the units each key would now find. *)
LEMMA UpsertCredit ==
  ASSUME TypeOK, NEW k \in Keys, NEW level \in Level, NEW denials \in 0 .. LogCap + 1,
         Upsert(k, level, denials),
         warned' \in [Keys -> Nat], promise' \in [Keys -> Promise \cup {Null}]
  PROVE  TypeOK' /\ Credit' = [Credit EXCEPT ![k] = level]
<1> DEFINE dropped == Forgotten(k)
<1>0. /\ entry' \in [Keys -> Entry \cup {Null}]
      /\ entry'[k] = [level |-> level, idle |-> 0, denials |-> denials]
      /\ \A o \in Keys \ {k} : entry'[o] = IF o \in dropped THEN Null ELSE entry[o]
      /\ Known' = (Known \ dropped) \cup {k}
  BY UpsertEntries
<1>1. \A o \in Known' : /\ \A w \in Windows : entry'[o].level[w] <= Full[w]
                        /\ entry'[o].idle <= Ttl + 1
                        /\ entry'[o].denials <= LogCap + 1
  <2> SUFFICES ASSUME NEW o \in Known'
               PROVE  /\ \A w \in Windows : entry'[o].level[w] <= Full[w]
                      /\ entry'[o].idle <= Ttl + 1
                      /\ entry'[o].denials <= LogCap + 1
    OBVIOUS
  <2>1. CASE o = k
    BY <2>1, <1>0, TtlType DEF Level
  <2>2. CASE o # k
    <3>1. o \in Known /\ entry'[o] = entry[o]
      BY <1>0, <2>2 DEF Known
    <3> QED BY <3>1 DEF TypeOK
  <2> QED BY <2>1, <2>2
<1>2. Ordered(before', Known')
  <2>1. Ordered(before, Known)
    BY DEF TypeOK, Ordered
  <2>2. Ordered(Without(dropped), Known \ dropped)
    BY <2>1, RestIsOrdered
  <2>3. CASE entry[k] = Null \/ k \in dropped
    <3>1. k \notin Known \ dropped
      BY <2>3 DEF Known
    <3>2. before' = Without(dropped) \cup ((Known \ dropped) \X {k})
      BY <2>3 DEF Upsert
    <3> QED BY <1>0, <2>2, <3>1, <3>2, NewKeyGoesLast
  <2>4. CASE ~(entry[k] = Null \/ k \in dropped)
    <3>1. Known' = Known \ dropped /\ before' = Without(dropped)
      BY <1>0, <2>4 DEF Upsert, Known
    <3> QED BY <2>2, <3>1
  <2> QED BY <2>3, <2>4
<1>3. TypeOK'
  BY <1>0, <1>1, <1>2 DEF TypeOK, Ordered
<1>4. ASSUME NEW o \in Keys
      PROVE  Credit'[o] = IF o = k THEN level ELSE Credit[o]
  <2>1. Credit'[o] = IF entry'[o] = Null THEN Full
                     ELSE Refilled(entry'[o].level, entry'[o].idle)
    BY DEF Credit
  <2>2. CASE o = k
    BY <1>0, <2>1, <2>2, RefillType DEF Known
  <2>3. CASE o # k /\ o \in dropped
    BY <1>0, <2>1, <2>3, ForgottenIsFull
  <2>4. CASE o # k /\ o \notin dropped
    BY <1>0, <2>1, <2>4 DEF Credit
  <2> QED BY <2>2, <2>3, <2>4
<1>5. Credit' = [o \in Keys |-> IF o = k THEN level ELSE Credit[o]]
  BY <1>4 DEF Credit
<1> QED BY <1>3, <1>5, CreditType

(***************************************************************************)
(* The steps, as credit sees them.                                         *)
(***************************************************************************)

(* An admitted request costs its key one request's worth in each window.   *)
LEMMA AllowStep ==
  ASSUME TypeOK, NEW k \in Keys, Allow(k)
  PROVE  /\ TypeOK'
         /\ \A w \in Windows : Credit[k][w] >= Period[w]
         /\ Credit' = [Credit EXCEPT ![k] = Spend(Credit[k])]
<1> DEFINE level == Spend(Credit[k])
           denials == DenialsAt(k)
<1>1. LevelAt(k) = Credit[k]
  BY LevelIsCredit
<1>2. \A w \in Windows : Credit[k][w] >= Period[w]
  BY <1>1, CreditUnits DEF Allow, Short
<1>3. level \in Level
  BY <1>2, CreditUnits DEF Spend, Level
<1>4. denials \in 0 .. LogCap + 1
  BY DenialsType
<1>5. Upsert(k, level, denials)
  BY <1>1 DEF Allow
<1>6. warned' \in [Keys -> Nat] /\ promise' \in [Keys -> Promise \cup {Null}]
  BY DEF Allow, TypeOK
<1> HIDE DEF level, denials
<1>7. TypeOK' /\ Credit' = [Credit EXCEPT ![k] = level]
  BY <1>3, <1>4, <1>5, <1>6, UpsertCredit
<1> QED BY <1>2, <1>7 DEF level

(* The window a denial names is short of a request's worth. *)
LEMMA DenyingIsShort ==
  ASSUME NEW level, Short(level) # {}
  PROVE  Denying(level) \in Windows /\ level[Denying(level)] < Period[Denying(level)]
<1>1. Short(level) \subseteq {1, 2}
  BY DEF Short
<1>2. \E w \in Short(level) : \A v \in Short(level) : w <= v
  BY <1>1
<1>3. Denying(level) \in Short(level)
  BY <1>2 DEF Denying
<1> QED BY <1>3 DEF Short

(* The wait a denial names is the least number of seconds that refills     *)
(* more than what is missing.                                              *)
LEMMA WaitIsExact ==
  ASSUME NEW level \in Level, Short(level) # {}
  PROVE  LET w    == Denying(level)
             wait == RetryAfter(level)
         IN /\ w \in Windows /\ wait \in Nat /\ wait > 0
            /\ level[w] + wait * Limit[w] >= Period[w]
            /\ level[w] + wait * Limit[w] <= Period[w] + Limit[w]
<1> DEFINE w == Denying(level)
           missing == Period[w] - level[w]
           whole == missing \div Limit[w]
           refill == whole * Limit[w]
<1>1. w \in Windows /\ level[w] < Period[w] /\ level[w] \in Nat
  BY DenyingIsShort DEF Level
<1>2. missing \in Nat /\ Limit[w] \in Nat \ {0}
  BY <1>1
<1>3. whole \in Nat /\ refill <= missing /\ missing < refill + Limit[w]
  BY <1>2, Quotient
<1>4. RetryAfter(level) = whole + 1
  BY DEF RetryAfter
<1>5. (whole + 1) * Limit[w] = refill + Limit[w] /\ refill \in Nat
  BY <1>2, <1>3, Product
<1> HIDE DEF whole, refill
<1>6. /\ level[w] + (refill + Limit[w]) >= Period[w]
      /\ level[w] + (refill + Limit[w]) <= Period[w] + Limit[w]
  BY <1>1, <1>2, <1>3, <1>5
<1>7. /\ whole + 1 \in Nat /\ whole + 1 > 0
      /\ level[w] + (whole + 1) * Limit[w] >= Period[w]
      /\ level[w] + (whole + 1) * Limit[w] <= Period[w] + Limit[w]
  BY <1>3, <1>5, <1>6
<1> HIDE DEF w
<1> QED BY <1>1, <1>4, <1>7 DEF w

(* A denied request costs nothing. *)
LEMMA DenyStep ==
  ASSUME TypeOK, NEW k \in Keys, Deny(k)
  PROVE  /\ TypeOK'
         /\ Short(Credit[k]) # {}
         /\ Credit' = Credit
         /\ promise' = [promise EXCEPT ![k] = [window |-> Denying(Credit[k]),
                                               wait   |-> RetryAfter(Credit[k])]]
<1> DEFINE level == Credit[k]
           denials == IF DenialsAt(k) > LogCap THEN DenialsAt(k) ELSE DenialsAt(k) + 1
           answer == [window |-> Denying(level), wait |-> RetryAfter(level)]
<1>1. LevelAt(k) = level
  BY LevelIsCredit
<1>2. level \in Level
  BY CreditType
<1>3. Short(level) # {}
  BY <1>1 DEF Deny
<1>4. denials \in 0 .. LogCap + 1
  BY DenialsType
<1>5. Upsert(k, level, denials)
  BY <1>1 DEF Deny
<1>6. promise' = [promise EXCEPT ![k] = answer]
  BY <1>1 DEF Deny
<1>7. answer \in Promise
  BY <1>2, <1>3, WaitIsExact DEF Promise
<1>8. warned' \in [Keys -> Nat]
  BY DEF Deny, TypeOK
<1>9. promise' \in [Keys -> Promise \cup {Null}]
  BY <1>6, <1>7 DEF TypeOK
<1> HIDE DEF level, denials, answer
<1>10. TypeOK' /\ Credit' = [Credit EXCEPT ![k] = level]
  BY <1>2, <1>4, <1>5, <1>8, <1>9, UpsertCredit
<1>11. Credit' = Credit
  BY <1>10, CreditType DEF level
<1> QED BY <1>3, <1>6, <1>10, <1>11 DEF level, answer

(* A second refills every bucket, whether its key has an entry or not.     *)
LEMMA TickStep ==
  ASSUME TypeOK, Tick
  PROVE  /\ TypeOK'
         /\ Credit' = [k \in Keys |-> [w \in Windows |-> AtMost(w, Credit[k][w] + Limit[w])]]
<1>1. ASSUME NEW k \in Known
      PROVE  /\ entry'[k] \in Entry
             /\ entry'[k].level = entry[k].level
             /\ entry'[k].idle = Older(entry[k].idle) /\ Older(entry[k].idle) \in 0 .. Ttl + 1
             /\ entry'[k].denials = 0
  <2> DEFINE e == entry[k]
             older == Older(e.idle)
  <2>1. e \in Entry /\ e.idle \in 0 .. Ttl + 1
    BY EntryType
  <2>2. entry'[k] = [e EXCEPT !.idle = older, !.denials = 0]
    BY DEF Tick, Known
  <2>3. older \in 0 .. Ttl + 1
    BY <2>1, TtlType DEF Older
  <2>4. older \in Nat
    BY <2>3, TtlType
  <2> HIDE DEF e, older
  <2>5. entry'[k] = [level |-> e.level, idle |-> older, denials |-> 0]
    BY <2>1, <2>2 DEF Entry
  <2>6. entry'[k] \in Entry
    BY <2>1, <2>4, <2>5 DEF Entry
  <2> QED BY <2>3, <2>5, <2>6 DEF e, older
<1>2. ASSUME NEW k \in Keys \ Known
      PROVE  entry'[k] = Null
  BY DEF Tick, Known
<1>5. Known' = Known
  BY <1>1, <1>2 DEF Known
<1>6. TypeOK'
  <2>1. entry' \in [Keys -> Entry \cup {Null}]
    <3>1. DOMAIN entry' = Keys /\ entry' = [k \in Keys |-> entry'[k]]
      BY DEF Tick
    <3> QED BY <1>1, <1>2, <3>1 DEF Known
  <2>2. \A k \in Known' : /\ \A w \in Windows : entry'[k].level[w] <= Full[w]
                          /\ entry'[k].idle <= Ttl + 1
                          /\ entry'[k].denials <= LogCap + 1
    <3> SUFFICES ASSUME NEW k \in Known
                 PROVE  /\ \A w \in Windows : entry'[k].level[w] <= Full[w]
                        /\ entry'[k].idle <= Ttl + 1
                        /\ entry'[k].denials <= LogCap + 1
      BY <1>5
    <3>1. \A w \in Windows : entry[k].level[w] <= Full[w]
      BY DEF TypeOK
    <3> QED BY <1>1, <3>1, TtlType
  <2>3. warned' \in [Keys -> Nat]
    BY DEF Tick
  <2>4. promise' \in [Keys -> Promise \cup {Null}]
    <3> SUFFICES ASSUME NEW k \in Keys PROVE promise'[k] \in Promise \cup {Null}
      BY DEF Tick
    <3>1. promise[k] \in Promise \cup {Null}
      BY DEF TypeOK
    <3>2. CASE promise[k] # Null /\ promise[k].wait > 0
      <4>1. promise[k] \in Promise
        BY <3>1, <3>2
      <4>2. promise'[k] = [promise[k] EXCEPT !.wait = @ - 1]
        BY <3>2 DEF Tick
      <4> QED BY <3>2, <4>1, <4>2 DEF Promise
    <3>3. CASE ~(promise[k] # Null /\ promise[k].wait > 0)
      BY <3>1, <3>3 DEF Tick
    <3> QED BY <3>2, <3>3
  <2>5. before' = before
    BY DEF Tick
  <2> QED BY <1>5, <2>1, <2>2, <2>3, <2>4, <2>5 DEF TypeOK
<1>7. ASSUME NEW k \in Keys
      PROVE  Credit'[k] = [w \in Windows |-> AtMost(w, Credit[k][w] + Limit[w])]
  <2>1. CASE k \notin Known
    <3>1. Credit'[k] = Full /\ Credit[k] = Full
      BY <1>2, <2>1 DEF Credit, Known
    <3>2. \A w \in Windows : AtMost(w, Full[w] + Limit[w]) = Full[w]
      BY FullType DEF AtMost
    <3> QED BY <3>1, <3>2, FullType
  <2>2. CASE k \in Known
    <3> DEFINE level == entry[k].level
               idle == entry[k].idle
    <3>1. level \in Level /\ idle \in 0 .. Ttl + 1
      BY <2>2, EntryType
    <3>2. Credit[k] = Refilled(level, idle) /\ Credit'[k] = Refilled(level, Older(idle))
      BY <1>1, <2>2 DEF Credit, Known
    <3>3. \A w \in Windows :
            Refilled(level, idle + 1)[w] = AtMost(w, Refilled(level, idle)[w] + Limit[w])
      BY <3>1, RefillOn, TtlType
    <3>4. Refilled(level, Older(idle)) = Refilled(level, idle + 1)
      <4>1. CASE idle > Ttl
        <5>1. idle \in Nat /\ idle + 1 \in Nat /\ idle >= Ttl /\ idle + 1 >= Ttl
          BY <3>1, <4>1, TtlType
        <5>2. Refilled(level, idle) = Full /\ Refilled(level, idle + 1) = Full
          BY <3>1, <5>1, RefillFull
        <5> QED BY <4>1, <5>2 DEF Older
      <4>2. CASE ~(idle > Ttl)
        BY <4>2 DEF Older
      <4> QED BY <4>1, <4>2
    <3>5. Credit'[k] = [w \in Windows |-> Refilled(level, idle + 1)[w]]
      <4>1. idle + 1 \in Nat
        BY <3>1, TtlType
      <4>2. Refilled(level, idle + 1) \in [Windows -> Nat]
        BY <3>1, <4>1, RefillType DEF Level
      <4> HIDE DEF level, idle
      <4> QED BY <3>2, <3>4, <4>2
    <3> QED BY <3>2, <3>3, <3>5
  <2> QED BY <2>1, <2>2
<1> QED BY <1>6, <1>7 DEF Credit

(* A restart fills every bucket. *)
LEMMA RestartStep ==
  ASSUME TypeOK, Restart
  PROVE  TypeOK' /\ Credit' = [k \in Keys |-> Full]
<1>1. Known' = {}
  BY DEF Restart, Known
<1>2. TypeOK'
  BY <1>1 DEF Restart, TypeOK
<1> QED BY <1>2 DEF Restart, Credit

(***************************************************************************)
(* The waits.                                                              *)
(***************************************************************************)
Exact(units, answer) ==
  LET due == units[answer.window] + answer.wait * Limit[answer.window] IN
  /\ due >= Period[answer.window]
  /\ answer.wait > 0 => due <= Period[answer.window] + Limit[answer.window]

(* The waits are exact, key by key. *)
LEMMA ExactWaits ==
  WaitsAreExact <=> \A k \in Keys : promise[k] # Null => Exact(Credit[k], promise[k])
BY DEF WaitsAreExact, Exact

(* A second makes the wait shorter and the bucket fuller, by the same. *)
LEMMA ExactNextSecond ==
  ASSUME NEW units \in Level, NEW answer \in Promise, Exact(units, answer)
  PROVE  LET later == [w \in Windows |-> AtMost(w, units[w] + Limit[w])]
         IN Exact(later, IF answer.wait > 0 THEN [answer EXCEPT !.wait = @ - 1] ELSE answer)
<1> DEFINE w == answer.window
           wait == answer.wait
           later == [v \in Windows |-> AtMost(v, units[v] + Limit[v])]
<1>1. /\ w \in Windows /\ wait \in Nat /\ units[w] \in Nat /\ Full[w] \in Nat
      /\ Period[w] \in Nat /\ Limit[w] \in Nat /\ Period[w] <= Full[w] /\ units[w] <= Full[w]
  BY FullType DEF Promise, Level
<1>2. later[w] = AtMost(w, units[w] + Limit[w])
  BY <1>1
<1> DEFINE gain == wait * Limit[w]
<1>3. gain \in Nat
  BY <1>1, Product
<1>4. /\ units[w] + gain >= Period[w]
      /\ wait > 0 => units[w] + gain <= Period[w] + Limit[w]
  BY DEF Exact
<1>5. CASE wait = 0
  <2>1. gain = 0
    BY <1>1, <1>5, Product
  <2>2. later[w] + gain >= Period[w]
    <3> HIDE DEF gain, w, later
    <3> QED BY <1>1, <1>2, <1>3, <1>4, <2>1 DEF AtMost
  <2>3. ~(answer.wait > 0)
    BY <1>5
  <2>4. Exact(later, answer)
    <3> HIDE DEF later
    <3> QED BY <2>2, <2>3 DEF Exact
  <2> QED BY <2>3, <2>4
<1>6. CASE wait # 0
  <2> DEFINE left == wait - 1
             rest == left * Limit[w]
             next == [answer EXCEPT !.wait = @ - 1]
  <2>1. left \in Nat /\ wait = left + 1
    BY <1>1, <1>6
  <2>2. rest \in Nat /\ gain = rest + Limit[w]
    BY <1>1, <2>1, Product
  <2>3. /\ later[w] + rest >= Period[w]
        /\ left > 0 => later[w] + rest <= Period[w] + Limit[w]
    <3>1. wait > 0
      BY <1>1, <1>6
    <3> HIDE DEF gain, rest, w, later
    <3> QED BY <1>1, <1>2, <1>3, <1>4, <2>2, <3>1 DEF AtMost
  <2>4. next.window = w /\ next.wait = left /\ answer.wait > 0
    BY <1>1, <1>6 DEF Promise
  <2>5. Exact(later, next)
    <3> HIDE DEF later, next, w, left
    <3> QED BY <2>3, <2>4 DEF Exact
  <2> QED BY <2>4, <2>5
<1> QED BY <1>5, <1>6

(* The waits stay exact. *)
LEMMA WaitsStep ==
  ASSUME IInv, Next
  PROVE  WaitsAreExact'
<1> USE DEF IInv
<1> SUFFICES ASSUME NEW k \in Keys, promise'[k] # Null
             PROVE  Exact(Credit[k], promise[k])'
  BY ExactWaits DEF WaitsAreExact, Exact
<1>1. Credit[k] \in Level /\ promise[k] \in Promise \cup {Null}
  BY CreditType DEF TypeOK
<1>2. promise[k] # Null => Exact(Credit[k], promise[k])
  BY ExactWaits
<1>3. CASE Credit'[k] = Credit[k] /\ promise'[k] = promise[k]
  BY <1>2, <1>3 DEF Exact
<1>4. ASSUME NEW j \in Keys, Allow(j)
      PROVE  Exact(Credit[k], promise[k])'
  <2>1. Credit' = [Credit EXCEPT ![j] = Spend(Credit[j])]
    BY <1>4, AllowStep
  <2>2. promise' = [promise EXCEPT ![j] = Null]
    BY <1>4 DEF Allow
  <2>3. k # j
    BY <2>2 DEF TypeOK
  <2> QED BY <1>3, <2>1, <2>2, <2>3, CreditType DEF TypeOK
<1>5. ASSUME NEW j \in Keys, Deny(j)
      PROVE  Exact(Credit[k], promise[k])'
  <2> DEFINE answer == [window |-> Denying(Credit[j]), wait |-> RetryAfter(Credit[j])]
  <2>1. /\ Short(Credit[j]) # {} /\ Credit' = Credit
        /\ promise' = [promise EXCEPT ![j] = answer]
    BY <1>5, DenyStep
  <2>2. CASE k # j
    BY <1>3, <2>1, <2>2 DEF TypeOK
  <2>3. CASE k = j
    <3>1. Exact(Credit[k], answer)
      BY <1>1, <2>1, <2>3, WaitIsExact DEF Exact
    <3>2. promise'[k] = answer
      BY <2>1, <2>3 DEF TypeOK
    <3> HIDE DEF answer
    <3> QED BY <2>1, <3>1, <3>2 DEF Exact
  <2> QED BY <2>2, <2>3
<1>6. CASE Tick
  <2>1. Credit'[k] = [w \in Windows |-> AtMost(w, Credit[k][w] + Limit[w])]
    BY <1>6, TickStep
  <2>2. promise[k] # Null
    BY <1>6 DEF Tick
  <2>3. promise'[k] = IF promise[k].wait > 0 THEN [promise[k] EXCEPT !.wait = @ - 1]
                                             ELSE promise[k]
    BY <1>6, <2>2 DEF Tick
  <2>4. promise[k] \in Promise
    BY <1>1, <2>2
  <2>5. Exact([w \in Windows |-> AtMost(w, Credit[k][w] + Limit[w])],
              IF promise[k].wait > 0 THEN [promise[k] EXCEPT !.wait = @ - 1] ELSE promise[k])
    BY <1>1, <1>2, <2>2, <2>4, ExactNextSecond
  <2> QED BY <2>1, <2>3, <2>5 DEF Exact
<1>7. CASE Restart
  BY <1>7 DEF Restart
<1> QED BY <1>4, <1>5, <1>6, <1>7 DEF Next, Request

(***************************************************************************)
(* The warnings.                                                           *)
(***************************************************************************)

(* A key that check finds no denials for has caused no warning. *)
LEMMA WarningsCounted ==
  ASSUME IInv, NEW k \in Keys
  PROVE  warned[k] <= DenialsAt(k) /\ (k \in Forgotten(k) => warned[k] = 0)
<1>1. CASE k \in Forgotten(k)
  BY <1>1, ForgottenIsFull, EntryType, TtlType DEF IInv, TypeOK, DenialsCounted, DenialsAt, Known
<1>2. CASE k \notin Forgotten(k)
  BY <1>2 DEF IInv, DenialsCounted, DenialsAt, TypeOK
<1> QED BY <1>1, <1>2

(* A request counts its warning with its denial. *)
LEMMA RequestCounts ==
  ASSUME IInv, NEW k \in Keys, NEW level \in Level, NEW denials \in 0 .. LogCap + 1,
         Upsert(k, level, denials), warned' \in [Keys -> Nat],
         warned'[k] <= denials, \A o \in Keys \ {k} : warned'[o] = warned[o]
  PROVE  DenialsCounted'
<1> SUFFICES ASSUME NEW o \in Keys
             PROVE  /\ entry'[o] = Null => warned'[o] = 0
                    /\ entry'[o] # Null => /\ warned'[o] <= entry'[o].denials
                                           /\ entry'[o].idle > 0 => entry'[o].denials = 0
  BY DEF DenialsCounted
<1> USE DEF IInv
<1>1. CASE o = k
  <2>1. entry'[k] = [level |-> level, idle |-> 0, denials |-> denials]
    BY UpsertEntries
  <2>2. entry'[k] \in Entry
    BY <2>1 DEF Entry, Level
  <2> QED BY <1>1, <2>1, <2>2
<1>2. CASE o # k
  <2>1. entry'[o] = IF o \in Forgotten(k) THEN Null ELSE entry[o]
    BY <1>2, UpsertEntries
  <2>2. CASE o \in Forgotten(k)
    <3>1. o \in Known /\ entry[o].idle > 0
      BY <2>2, ForgottenIsFull, EntryType, TtlType
    <3>2. warned[o] = 0
      BY <3>1 DEF DenialsCounted, Known, TypeOK
    <3> QED BY <1>2, <2>1, <2>2, <3>2
  <2>3. CASE o \notin Forgotten(k)
    BY <1>2, <2>1, <2>3 DEF DenialsCounted
  <2> QED BY <2>2, <2>3
<1> QED BY <1>1, <1>2

(* The warnings stay counted and under their cap. *)
LEMMA WarningsStep ==
  ASSUME IInv, Next
  PROVE  DenialsCounted' /\ WarningsCapped'
<1>1. ASSUME NEW k \in Keys, Allow(k)
      PROVE  DenialsCounted' /\ WarningsCapped'
  <2>1. warned' = warned
    BY <1>1 DEF Allow
  <2>2. Spend(LevelAt(k)) \in Level
    <3>1. \A w \in Windows : LevelAt(k)[w] >= Period[w]
      BY <1>1, LevelIsCredit, CreditUnits DEF Allow, Short, IInv
    <3> QED BY <3>1, LevelIsCredit, CreditUnits DEF Spend, Level, IInv
  <2>3. warned[k] <= DenialsAt(k) /\ DenialsAt(k) \in 0 .. LogCap + 1
    BY WarningsCounted, DenialsType DEF IInv
  <2>4. DenialsCounted'
    BY <1>1, <2>1, <2>2, <2>3, RequestCounts DEF Allow, IInv, TypeOK
  <2> QED BY <2>1, <2>4 DEF IInv, WarningsCapped
<1>2. ASSUME NEW k \in Keys, Deny(k)
      PROVE  DenialsCounted' /\ WarningsCapped'
  <2> DEFINE denials == IF DenialsAt(k) > LogCap THEN DenialsAt(k) ELSE DenialsAt(k) + 1
             level == LevelAt(k)
  <2>1. /\ warned' = [warned EXCEPT ![k] = IF denials <= LogCap THEN @ + 1 ELSE @]
        /\ Upsert(k, level, denials)
    BY <1>2 DEF Deny
  <2>2. level \in Level
    BY LevelIsCredit, CreditType DEF IInv
  <2>3. warned[k] <= DenialsAt(k) /\ DenialsAt(k) \in 0 .. LogCap + 1
    BY WarningsCounted, DenialsType DEF IInv
  <2>4. warned \in [Keys -> Nat] /\ warned[k] <= LogCap
    BY DEF IInv, TypeOK, WarningsCapped
  <2>5. denials \in 0 .. LogCap + 1
    BY <2>3
  <2>6. warned'[k] = IF denials <= LogCap THEN warned[k] + 1 ELSE warned[k]
    BY <2>1, <2>4
  <2>7. warned'[k] <= denials /\ warned'[k] <= LogCap
    BY <2>3, <2>4, <2>6
  <2>8. warned' \in [Keys -> Nat] /\ \A o \in Keys \ {k} : warned'[o] = warned[o]
    BY <2>1, <2>4
  <2> HIDE DEF denials, level
  <2>9. DenialsCounted'
    BY <2>1, <2>2, <2>5, <2>7, <2>8, RequestCounts
  <2> QED BY <2>7, <2>8, <2>9 DEF IInv, WarningsCapped
<1>3. CASE Tick
  <2>1. warned' = [k \in Keys |-> 0]
    BY <1>3 DEF Tick
  <2>2. ASSUME NEW k \in Keys
        PROVE  entry'[k] = Null \/ entry'[k].denials = 0
    <3>1. CASE entry[k] = Null
      BY <1>3, <3>1 DEF Tick
    <3>2. CASE entry[k] # Null
      <4>1. entry'[k] = [entry[k] EXCEPT !.idle = Older(@), !.denials = 0]
        BY <1>3, <3>2 DEF Tick
      <4>2. entry[k] \in Entry
        BY <3>2 DEF IInv, TypeOK
      <4> QED BY <4>1, <4>2 DEF Entry
    <3> QED BY <3>1, <3>2
  <2> QED BY <2>1, <2>2 DEF DenialsCounted, WarningsCapped
<1>4. CASE Restart
  BY <1>4 DEF Restart, DenialsCounted, WarningsCapped
<1> QED BY <1>1, <1>2, <1>3, <1>4 DEF Next, Request

(***************************************************************************)
(* The inductive invariant and what follows from it.                       *)
(***************************************************************************)
LEMMA InitIInv == Init => IInv
<1> SUFFICES ASSUME Init PROVE IInv
  OBVIOUS
<1>1. Known = {}
  BY DEF Init, Known
<1>2. TypeOK
  BY <1>1 DEF Init, TypeOK
<1> QED BY <1>2 DEF Init, IInv, WaitsAreExact, DenialsCounted, WarningsCapped

LEMMA NextIInv == IInv /\ [Next]_vars => IInv'
<1> SUFFICES ASSUME IInv, [Next]_vars PROVE IInv'
  OBVIOUS
<1>1. CASE Next
  <2>1. TypeOK'
    BY <1>1, AllowStep, DenyStep, TickStep, RestartStep DEF IInv, Next, Request
  <2> QED BY <1>1, <2>1, WaitsStep, WarningsStep DEF IInv
<1>2. CASE UNCHANGED vars
  <2>1. TypeOK'
    BY <1>2 DEF vars, IInv, TypeOK, Known
  <2>2. WaitsAreExact'
    BY <1>2 DEF vars, IInv, WaitsAreExact, Credit
  <2>3. DenialsCounted' /\ WarningsCapped'
    BY <1>2 DEF vars, IInv, DenialsCounted, WarningsCapped
  <2> QED BY <2>1, <2>2, <2>3 DEF IInv
<1> QED BY <1>1, <1>2

(* Every reachable registry is well-formed and satisfies the account. *)
THEOREM Invariant == Spec => []IInv
BY InitIInv, NextIInv, PTL DEF Spec

(* Every entry has its type, no bucket is overfull, and the dict's order   *)
(* is a total order of exactly the keys that have an entry.                *)
THEOREM TypeCorrect == Spec => []TypeOK
BY Invariant, PTL DEF IInv

(* However its entry is forgotten and remade, no key causes more warnings  *)
(* a second than the cap of log_denied.                                    *)
THEOREM WarningsStayCapped == Spec => []WarningsCapped
BY Invariant, PTL DEF IInv

(* When the wait is over the bucket that denied has a request's worth, and *)
(* it had none more than a second earlier.                                 *)
LEMMA ExactIsHonoured == IInv => RetryAfterHonoured
<1> SUFFICES ASSUME IInv, NEW k \in Keys, promise[k] # Null
             PROVE  LET w == promise[k].window IN
                    /\ promise[k].wait = 0 => Credit[k][w] >= Period[w]
                    /\ promise[k].wait > 1 => Credit[k][w] < Period[w]
  BY DEF RetryAfterHonoured
<1> DEFINE w == promise[k].window
           wait == promise[k].wait
           gain == wait * Limit[w]
<1>1. w \in Windows /\ wait \in Nat
  BY DEF IInv, TypeOK, Promise
<1>2. Credit[k][w] \in Nat /\ Period[w] \in Nat /\ Limit[w] \in Nat \ {0} /\ gain \in Nat
  BY <1>1, CreditUnits, Product DEF IInv
<1>3. /\ Credit[k][w] + gain >= Period[w]
      /\ wait > 0 => Credit[k][w] + gain <= Period[w] + Limit[w]
  BY DEF IInv, WaitsAreExact
<1>4. wait = 0 => Credit[k][w] >= Period[w]
  <2>1. wait = 0 => gain = 0
    BY <1>1, <1>2, Product
  <2> HIDE DEF gain, wait, w
  <2> QED BY <1>2, <1>3, <2>1
<1>5. wait > 1 => Credit[k][w] < Period[w]
  <2>1. wait > 1 => 2 * Limit[w] <= gain
    BY <1>1, <1>2, ProductGrows
  <2> HIDE DEF gain, wait, w
  <2> QED BY <1>1, <1>2, <1>3, <2>1
<1> QED BY <1>4, <1>5

(* A 429's Retry-After is exact to the second about the bucket that denied, *)
(* whatever else happens to the key and to the registry in the meantime: no *)
(* shorter wait is enough but, at times, one a second shorter.             *)
THEOREM RetryAfterIsExact == Spec => []RetryAfterHonoured
BY Invariant, ExactIsHonoured, PTL

(***************************************************************************)
(* The limiter implements buckets that are never forgotten.                *)
(***************************************************************************)

(* Every step of the limiter is a step of the ideal quota or, for a denial *)
(* and for what a request forgets, none.                                   *)
LEMMA QuotaStep ==
  ASSUME TypeOK, [Next]_vars
  PROVE  [Ideal!Next]_Credit
<1>1. ASSUME NEW k \in Keys, Allow(k)
      PROVE  Ideal!Next
  <2>1. \A w \in Windows : Credit[k][w] >= Period[w]
    BY <1>1, AllowStep
  <2>2. Credit' = [Credit EXCEPT ![k] = [w \in Windows |-> Credit[k][w] - Period[w]]]
    BY <1>1, AllowStep DEF Spend
  <2>3. Ideal!Admit(k)
    BY <2>1, <2>2 DEF Ideal!Admit, Ideal!Affordable
  <2> QED BY <2>3 DEF Ideal!Next
<1>2. ASSUME NEW k \in Keys, Deny(k)
      PROVE  Credit' = Credit
  BY <1>2, DenyStep
<1>3. CASE Tick
  <2>1. Credit' = [k \in Keys |-> [w \in Windows |-> AtMost(w, Credit[k][w] + Limit[w])]]
    BY <1>3, TickStep
  <2>2. Ideal!Second
    BY <2>1 DEF Ideal!Second, Ideal!AtMost, Ideal!Full, AtMost, Full
  <2> QED BY <2>2 DEF Ideal!Next
<1>4. CASE Restart
  <2>1. Credit' = [k \in Keys |-> Full] /\ Restarts
    BY <1>4, RestartStep DEF Restart
  <2>2. Ideal!Restart
    BY <2>1 DEF Ideal!Restart, Ideal!Full, Full
  <2> QED BY <2>2 DEF Ideal!Next
<1>5. CASE UNCHANGED vars
  BY <1>5 DEF vars, Credit
<1> QED BY <1>1, <1>2, <1>3, <1>4, <1>5 DEF Next, Request

(* Lazy refills, the prune at twice the longest period and the bounded     *)
(* sweep together neither give nor take quota: the registry implements     *)
(* buckets that are never forgotten, whatever it forgets and when.         *)
THEOREM QuotaImplemented == Spec => ImplementsQuota
<1>1. Init => Ideal!Init
  BY DEF Init, Ideal!Init, Ideal!Full, Credit, Full
<1>2. TypeOK /\ [Next]_vars => [Ideal!Next]_Credit
  BY QuotaStep
<1> QED BY <1>1, <1>2, TypeCorrect, PTL DEF Spec, ImplementsQuota, Ideal!Spec
==============================================================================
