---------------------------- MODULE LinkStaleness ----------------------------
(***************************************************************************)
(* LinkService with real-time bounds: how long after a change can a        *)
(* redirect still act on what was there before?  link_cache.py calls the   *)
(* TTL the bound on the "blast radius of a missed-eviction bug".           *)
(*                                                                         *)
(* Two history variables date each request and each change; the one        *)
(* assumption added is that no request takes longer than Span ticks.       *)
(***************************************************************************)
EXTENDS LinkService

CONSTANT Span      \* the longest a request takes, in ticks

ASSUME SpanAssumption == Span \in Nat

VARIABLES began,   \* worker -> when its request arrived
          changed  \* token -> when the fields a redirect looks at last changed

timedVars == <<vars, began, changed>>

Busy(w) == ~At(w, "idle")

(* Time waits for the requests that have used up their Span. *)
InTime ==
  now' # now => \A w \in Workers : Busy(w) => now - began[w] < Span

RedirectView(link) == IF link = Null THEN Null ELSE SnapshotOf(link)

Date ==
  /\ began' = [w \in Workers |-> CASE ~Busy(w)' -> 0
                                   [] Busy(w)' /\ Busy(w) -> began[w]
                                   [] OTHER -> now]
  /\ changed' = [t \in Tokens |-> IF RedirectView(links'[t]) # RedirectView(links[t])
                                    THEN now ELSE changed[t]]

TimedInit ==
  /\ Init
  /\ began = [w \in Workers |-> 0]
  /\ changed = [t \in Tokens |-> 0]

TimedNext == Next /\ InTime /\ Date

TimedSpec == TimedInit /\ [][TimedNext]_timedVars

(* The snapshot a redirect answers from is either the committed row or was *)
(* replaced less than Ttl + 2 * Span ago: a Span for the fill that stored  *)
(* it late, the TTL, a Span for the answer.  Races and skipped evictions   *)
(* included, this is what the TTL is worth; Ttl alone is not a bound.      *)
StalenessBounded ==
  \A w \in Workers :
    At(w, "answer") /\ thread[w].snapshot # SnapshotOf(links[thread[w].token])
      => now - changed[thread[w].token] < Ttl + 2 * Span
==============================================================================
