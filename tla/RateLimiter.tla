----------------------------- MODULE RateLimiter -----------------------------
(***************************************************************************)
(* One RateLimiter of backend/rate_limiter behind its middleware: an       *)
(* hourly and a daily token bucket per key, refilled when they are looked  *)
(* at, in a registry that forgets keys after a time without a request.     *)
(*                                                                         *)
(* Middleware.dispatch runs on the event loop and awaits nothing between   *)
(* check and log_denied, so a request is one step.  Time is counted in     *)
(* whole seconds and kept as ages: now - last_access is an entry's idle    *)
(* time.  Levels are exact fractions where the code has floats, in the     *)
(* units of module Quota.                                                  *)
(***************************************************************************)
EXTENDS Naturals, FiniteSets

CONSTANTS Keys, Windows, Limit, Period, Restarts,
          SweepSize,   \* _SWEEP_SIZE
          LogCap,      \* _LOG_CAP_PER_SECOND
          Null

Longest == CHOOSE p \in {Period[w] : w \in Windows} :
             \A w \in Windows : Period[w] <= p

(* Mutant: entries expire after half the longest period. *)
TtlTooShort == Longest \div 2

Ttl == 2 * Longest

(* _IpEntry, and what a client was told by its last 429. *)
Entry == [level : [Windows -> Nat], idle : Nat, denials : Nat]

Promise == [window : Windows, wait : Nat]

ASSUME RateLimiterAssumption ==
  /\ Windows = {1, 2}                      \* hourly, daily
  /\ Limit \in [Windows -> Nat \ {0}]
  /\ Period \in [Windows -> Nat \ {0}]
  /\ Limit[1] <= Limit[2]                  \* main.py refuses to start otherwise
  /\ Restarts \in BOOLEAN
  /\ SweepSize \in Nat \ {0}
  /\ LogCap \in Nat
  /\ Null \notin Entry \cup Promise

VARIABLES
  entry,     \* _ip_entries: key -> [level, idle, denials], or Null
  before,    \* the order of the dict _ip_entries: <<a, b>> when a is before b
  warned,    \* history: key -> warnings this process logged in this second
  promise    \* history: key -> the Retry-After this process last gave it, or Null

vars == <<entry, before, warned, promise>>

Full == [w \in Windows |-> Limit[w] * Period[w]]

(* Mutant: a refill may overfill the bucket. *)
AtMostUncapped(w, units) == units

AtMost(w, units) == IF units <= Full[w] THEN units ELSE Full[w]

(***************************************************************************)
(* TokenBucket.step with cost 0, for every window.                         *)
(***************************************************************************)
Refilled(level, idle) == [w \in Windows |-> AtMost(w, level[w] + idle * Limit[w])]

Short(level) == {w \in Windows : level[w] < Period[w]}

(* The first bucket that denies is the one Retry-After speaks of. *)
Denying(level) == CHOOSE w \in Short(level) : \A v \in Short(level) : w <= v

Spend(level) == [w \in Windows |-> level[w] - Period[w]]

(* Mutant: the second that rounding down takes off is not given back. *)
RetryAfterRoundedDown(level) ==
  LET w == Denying(level) IN (Period[w] - level[w]) \div Limit[w]

(* Mutant: a second is added to what was rounded up already. *)
RetryAfterTooLong(level) ==
  LET w == Denying(level) IN (Period[w] - level[w]) \div Limit[w] + 2

RetryAfter(level) ==
  LET w == Denying(level) IN (Period[w] - level[w]) \div Limit[w] + 1

(***************************************************************************)
(* Which entries a request of key k forgets: its own when it has expired,  *)
(* and those of the first SweepSize keys of what is then the dict.         *)
(***************************************************************************)
Expired(k) == entry[k] # Null /\ entry[k].idle > Ttl

Known == {k \in Keys : entry[k] # Null}

Without(dropped) == before \cap ((Keys \ dropped) \X (Keys \ dropped))

InFront(k, pairs) == Cardinality({o \in Keys : <<o, k>> \in pairs}) < SweepSize

Pruned(k) == IF Expired(k) THEN {k} ELSE {}

(* Mutant: only the key of the request is ever looked at. *)
SweptNever(k) == {}

Swept(k) == {o \in Keys \ Pruned(k) : Expired(o) /\ InFront(o, Without(Pruned(k)))}

Forgotten(k) == Pruned(k) \cup Swept(k)

LevelAt(k) ==
  IF entry[k] = Null \/ k \in Forgotten(k) THEN Full
                                           ELSE Refilled(entry[k].level, entry[k].idle)

(* Mutant: _upsert makes a new entry every time. *)
DenialsForgotten(k) == 0

DenialsAt(k) ==
  IF entry[k] = Null \/ k \in Forgotten(k) THEN 0 ELSE entry[k].denials

(* _upsert: a new key goes to the end of the dict, a known one stays put. *)
Upsert(k, level, denials) ==
  /\ entry' = [o \in Keys |->
       IF o = k THEN [level |-> level, idle |-> 0, denials |-> denials]
       ELSE IF o \in Forgotten(k) THEN Null ELSE entry[o]]
  /\ before' = IF entry[k] = Null \/ k \in Forgotten(k)
                 THEN Without(Forgotten(k)) \cup ((Known \ Forgotten(k)) \X {k})
                 ELSE Without(Forgotten(k))

Allow(k) ==
  /\ Short(LevelAt(k)) = {}
  /\ Upsert(k, Spend(LevelAt(k)), DenialsAt(k))
  /\ promise' = [promise EXCEPT ![k] = Null]
  /\ UNCHANGED warned

(* The 429, and log_denied.  Counting stops past the cap. *)
Deny(k) ==
  LET denials == IF DenialsAt(k) > LogCap THEN DenialsAt(k) ELSE DenialsAt(k) + 1 IN
  /\ Short(LevelAt(k)) # {}
  /\ Upsert(k, LevelAt(k), denials)
  /\ warned' = [warned EXCEPT ![k] = IF denials <= LogCap THEN @ + 1 ELSE @]
  /\ promise' = [promise EXCEPT ![k] = [window |-> Denying(LevelAt(k)),
                                        wait   |-> RetryAfter(LevelAt(k))]]

(***************************************************************************)
(* A second passes.  Past the TTL an entry is as old as it can get; a      *)
(* count of denials belongs to its second.                                 *)
(***************************************************************************)
Older(idle) == IF idle > Ttl THEN idle ELSE idle + 1

Tick ==
  /\ entry' = [k \in Keys |->
       IF entry[k] = Null THEN Null
       ELSE [entry[k] EXCEPT !.idle = Older(@), !.denials = 0]]
  /\ warned' = [k \in Keys |-> 0]
  /\ promise' = [k \in Keys |->
       IF promise[k] # Null /\ promise[k].wait > 0
         THEN [promise[k] EXCEPT !.wait = @ - 1] ELSE promise[k]]
  /\ UNCHANGED before

Restart ==
  /\ Restarts
  /\ entry' = [k \in Keys |-> Null]
  /\ before' = {}
  /\ warned' = [k \in Keys |-> 0]
  /\ promise' = [k \in Keys |-> Null]

Init ==
  /\ entry = [k \in Keys |-> Null]
  /\ before = {}
  /\ warned = [k \in Keys |-> 0]
  /\ promise = [k \in Keys |-> Null]

(* dispatch.  A request that is not limited, has no key or whose check     *)
(* raises goes to its route and changes nothing here.                      *)
Request(k) == Allow(k) \/ Deny(k)

Next == (\E k \in Keys : Request(k)) \/ Tick \/ Restart

(***************************************************************************)
(* Time passes.  Nobody has to send a request, but the liveness of the     *)
(* registry is about a service that somebody uses.                         *)
(***************************************************************************)
Fairness == WF_vars(Tick) /\ WF_vars(\E k \in Keys : Request(k))

Spec == Init /\ [][Next]_vars /\ Fairness

(***************************************************************************)
(* Properties.                                                             *)
(***************************************************************************)

(* Every entry has its type, no bucket holds more than its window grants,  *)
(* and the dict's order is a total order of exactly the entries.           *)
TypeOK ==
  /\ entry \in [Keys -> Entry \cup {Null}]
  /\ \A k \in Known : /\ \A w \in Windows : entry[k].level[w] <= Full[w]
                      /\ entry[k].idle <= Ttl + 1
                      /\ entry[k].denials <= LogCap + 1
  /\ before \subseteq Known \X Known
  /\ \A a, b \in Known : <<a, b>> \in before <=> a # b /\ <<b, a>> \notin before
  /\ \A a, b, c \in Known : <<a, b>> \in before /\ <<b, c>> \in before => <<a, c>> \in before
  /\ warned \in [Keys -> Nat]
  /\ promise \in [Keys -> Promise \cup {Null}]

(* Forgetting a key never gives or takes quota: with the registry, its     *)
(* lazy refill, the prune at 2 * the longest period and the bounded sweep  *)
(* the limiter grants exactly what buckets that are never forgotten grant. *)
Credit == [k \in Keys |->
  IF entry[k] = Null THEN Full ELSE Refilled(entry[k].level, entry[k].idle)]

Ideal == INSTANCE Quota WITH credit <- Credit

ImplementsQuota == Ideal!Spec

(* Retry-After is right about the bucket it speaks of: unless a request of *)
(* the key was admitted since, or the process restarted, the bucket has a  *)
(* request's worth when the wait is over, and not more than one second     *)
(* earlier.                                                                *)
RetryAfterHonoured ==
  \A k \in Keys : promise[k] # Null =>
    LET w == promise[k].window IN
    /\ promise[k].wait = 0 => Credit[k][w] >= Period[w]
    /\ promise[k].wait > 1 => Credit[k][w] < Period[w]

(* However its entry is forgotten and remade, a key causes at most LogCap  *)
(* warnings a second, short of a restart.                                  *)
WarningsCapped == \A k \in Keys : warned[k] <= LogCap

(* The sweep reaches the oldest entries: one that expires among the first   *)
(* SweepSize of the dict is dropped, or used again, while requests go on.  *)
FrontIsSwept ==
  \A k \in Keys :
    Expired(k) /\ InFront(k, before) ~> ~Expired(k)

(* PRD 0001: "so that my client can wait the correct amount of time and    *)
(* resume": when the wait is over the next request is admitted.            *)
RetryAfterSuffices ==
  \A k \in Keys : promise[k] # Null =>
    (promise[k].wait = 0 => \A w \in Windows : Credit[k][w] >= Period[w])
==============================================================================
