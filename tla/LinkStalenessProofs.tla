------------------------- MODULE LinkStalenessProofs -------------------------
(***************************************************************************)
(* Theorems of LinkStaleness, for every value of its constants: how old an *)
(* answer of the redirect cache can be.                                    *)
(*                                                                         *)
(* StalenessBounded looks at a worker about to answer; what it says has to *)
(* be carried there.  Every snapshot on its way to an answer, in a fill,   *)
(* in the cache and in the answer itself, keeps a date that the next step  *)
(* can build on (Ages).                                                    *)
(***************************************************************************)
EXTENDS LinkStaleness, LinkServiceProofs

USE LinkServiceAssumption, SpanAssumption

Stale(snapshot, t) == snapshot # SnapshotOf(links[t])

(* Changes lie in the past; a request is never older than Span. *)
Dated ==
  /\ began \in [Workers -> Nat]
  /\ changed \in [Tokens -> Nat]
  /\ \A t \in Tokens : changed[t] <= now
  /\ \A w \in Workers : Busy(w) => began[w] <= now /\ now <= began[w] + Span

(* An entry that no longer agrees with its row will not outlive the change *)
(* by more than the request that stored it and its TTL.                    *)
EntryAge(t) ==
  cache[t] # Null =>
    /\ cache[t].until <= now + Ttl
    /\ Stale(cache[t].snapshot, t) => cache[t].until <= changed[t] + Ttl + Span

(* A fill that holds an outdated snapshot arrived before the change. *)
FillAge(w) ==
  At(w, "store") /\ Stale(thread[w].snapshot, thread[w].token)
    => began[w] <= changed[thread[w].token]

(* An answer that holds one arrived before any such entry was dead. *)
AnswerAge(w) ==
  At(w, "answer") /\ Stale(thread[w].snapshot, thread[w].token)
    => began[w] < changed[thread[w].token] + Ttl + Span

Ages ==
  /\ Dated
  /\ \A t \in Tokens : EntryAge(t)
  /\ \A w \in Workers : FillAge(w) /\ AnswerAge(w)

(***************************************************************************)
(* What a step does to the clock, the rows and their dates.                *)
(***************************************************************************)

(* While the clock moves, nothing else does. *)
LEMMA ClockStep ==
  ASSUME [Next]_vars
  PROVE  now' = now \/ (now' = now + 1 /\ UNCHANGED <<links, cache, thread>>)
BY ZenonT(40) DEF Next, vars, Arrive, Continue, Fail, RedirectHit, RedirectMiss, Load, LoadUnknown,
       StoreLoses, StoreWins, Answer302, Scan410, Answer410, WriteScan, PatchLoad,
       DeleteLoad, PatchCommit, PatchRefresh, DeleteCommit, Evict, CreateBegin,
       CreateCommit, TryInsert, CreateGivesUp, StatementFails, RefreshFails,
       CommitUnacknowledged, ScanLost, Crash, Tick

(* The next state's dates, request by request and token by token. *)
LEMMA DatedStep ==
  ASSUME IInv, Dated, [TimedNext]_timedVars
  PROVE  Dated'
<1>0. now \in Nat /\ [Next]_vars
  BY DEF IInv, TypeOK, StoresOK, TimedNext, timedVars
<1>1. CASE UNCHANGED timedVars
  BY <1>1 DEF timedVars, vars, Dated, Busy, At
<1>2. CASE TimedNext
  <2>1. began' \in [Workers -> Nat] /\ changed' \in [Tokens -> Nat]
    BY <1>0, <1>2 DEF Dated, TimedNext, Date
  <2>2. now' \in Nat /\ now <= now'
    BY <1>0, ClockStep
  <2>3. ASSUME NEW t \in Tokens PROVE changed'[t] <= now'
    <3>1. changed'[t] \in {now, changed[t]} /\ changed[t] \in Nat /\ changed[t] <= now
      BY <1>2 DEF TimedNext, Date, Dated
    <3> QED BY <1>0, <2>2, <3>1
  <2>4. ASSUME NEW w \in Workers, Busy(w)'
        PROVE  began'[w] <= now' /\ now' <= began'[w] + Span
    <3>1. CASE Busy(w)
      <4>1. began'[w] = began[w]
        BY <1>2, <2>4, <3>1 DEF TimedNext, Date
      <4>2. began[w] \in Nat /\ began[w] <= now /\ now <= began[w] + Span
        BY <3>1 DEF Dated
      <4>3. now' # now => now' = now + 1 /\ now - began[w] < Span
        BY <1>0, <1>2, <3>1, ClockStep DEF TimedNext, InTime
      <4> QED BY <1>0, <2>2, <4>1, <4>2, <4>3
    <3>2. CASE ~Busy(w)
      <4>1. began'[w] = now
        BY <1>2, <2>4, <3>2 DEF TimedNext, Date
      <4>2. now' = now
        BY <1>0, <2>4, <3>2, ClockStep DEF Busy, At
      <4> QED BY <1>0, <4>1, <4>2
    <3> QED BY <3>1, <3>2
  <2> QED BY <2>1, <2>3, <2>4 DEF Dated
<1> QED BY <1>1, <1>2

(* A request that goes on keeps its date; one that arrives is of now. *)
LEMMA BeganStep ==
  ASSUME [TimedNext]_timedVars, NEW w \in Workers, Busy(w)'
  PROVE  began'[w] = IF Busy(w) THEN began[w] ELSE now
<1>1. CASE UNCHANGED timedVars
  BY <1>1 DEF timedVars, vars, Busy, At
<1> QED BY <1>1 DEF TimedNext, Date

(* The date of the last change only moves on. *)
LEMMA ChangedStep ==
  ASSUME IInv, Dated, [TimedNext]_timedVars, NEW t \in Tokens
  PROVE  changed[t] \in Nat /\ changed'[t] \in Nat /\ changed[t] <= changed'[t]
<1>1. now \in Nat /\ changed[t] \in Nat /\ changed[t] <= now
  BY DEF IInv, TypeOK, StoresOK, Dated
<1>2. changed'[t] \in {now, changed[t]}
  BY DEF TimedNext, Date, timedVars
<1> QED BY <1>1, <1>2

(* A snapshot of a known token is outdated after a step because it was so  *)
(* before, and the date of that change is at least as late, or because of  *)
(* a change now.                                                           *)
LEMMA StaleStep ==
  ASSUME IInv, Dated, [TimedNext]_timedVars, NEW t \in Tokens, links[t] # Null,
         NEW snapshot, snapshot # SnapshotOf(links'[t])
  PROVE  \/ Stale(snapshot, t) /\ changed[t] <= changed'[t]
         \/ changed'[t] = now
<1>0. now \in Nat /\ changed[t] \in Nat /\ changed[t] <= now
  BY DEF IInv, TypeOK, StoresOK, Dated
<1>1. CASE UNCHANGED timedVars
  BY <1>0, <1>1 DEF timedVars, vars, Stale
<1>2. CASE TimedNext
  <2>1. links'[t] # Null
    BY <1>2, RowsStay DEF IInv, TimedNext
  <2>2. CASE SnapshotOf(links'[t]) = SnapshotOf(links[t])
    <3>1. Stale(snapshot, t)
      BY <2>2 DEF Stale
    <3>2. changed'[t] \in {now, changed[t]}
      BY <1>2 DEF TimedNext, Date
    <3> QED BY <1>0, <3>1, <3>2
  <2>3. CASE SnapshotOf(links'[t]) # SnapshotOf(links[t])
    BY <1>2, <2>1, <2>3 DEF TimedNext, Date, RedirectView
  <2> QED BY <2>2, <2>3
<1> QED BY <1>1, <1>2

(***************************************************************************)
(* The three places an outdated snapshot can be.                           *)
(***************************************************************************)

(* A worker is about to store because it loaded, and about to answer       *)
(* because the cache served it or because it has been back under the lock. *)
LEMMA WhoReads ==
  ASSUME TypeOK, [Next]_vars, NEW w \in Workers
  PROVE  /\ At(w, "store")' => thread'[w] = thread[w] \/ Load(w)
         /\ At(w, "answer")' => \/ thread'[w] = thread[w]
                                \/ \E t \in Tokens : RedirectHit(w, t)
                                \/ StoreLoses(w)
                                \/ StoreWins(w)
<1> RequestsOK
  BY DEF TypeOK
<1> USE DEF RequestsOK, Request, Begin, Goto, Finish, Idle, At
<1>1. CASE Arrive(w)
  <2>1. ASSUME NEW t \in Tokens, RedirectMiss(w, t)
        PROVE  thread'[w].pc = "load"
    BY <2>1 DEF RedirectMiss
  <2>2. ASSUME NEW t \in Tokens, NEW u \in Users, NEW url \in Urls, NEW expires \in Expiries,
               PatchLoad(w, t, u, url, expires)
        PROVE  thread'[w].pc = "patch"
    BY <2>2 DEF PatchLoad
  <2>3. ASSUME NEW t \in Tokens, NEW u \in Users, DeleteLoad(w, t, u)
        PROVE  thread'[w].pc \in {"delete", "evict"}
    BY <2>3 DEF DeleteLoad
  <2>4. ASSUME NEW u \in Users, NEW url \in Urls, NEW expires \in Expiries,
               CreateBegin(w, u, url, expires)
        PROVE  thread'[w].pc = "mint"
    BY <2>4 DEF CreateBegin
  <2>5. ASSUME NEW t \in Tokens, RedirectHit(w, t)
        PROVE  thread'[w].pc = "answer"
    BY <2>5 DEF RedirectHit
  <2> QED BY <1>1, <2>1, <2>2, <2>3, <2>4, <2>5 DEF Arrive
<1>2. CASE Continue(w)
  <2>1. ASSUME NEW t \in Tokens, TryInsert(w, t)
        PROVE  thread'[w].pc \in {"insert", "mint"}
    BY <2>1 DEF TryInsert
  <2>2. Load(w) => thread'[w].pc = "store"
    BY DEF Load
  <2>3. StoreLoses(w) \/ StoreWins(w) => thread'[w].pc = "answer"
    BY DEF StoreLoses, StoreWins
  <2>4. Scan410(w) => thread'[w].pc = "gone"
    BY DEF Scan410
  <2>5. PatchCommit(w) \/ PatchRefresh(w) \/ DeleteCommit(w) => thread'[w].pc \in {"refresh", "evict"}
    BY DEF PatchCommit, PatchRefresh, DeleteCommit
  <2>6. LoadUnknown(w) \/ Answer302(w) \/ Answer410(w) \/ Evict(w) \/ CreateGivesUp(w) \/ CreateCommit(w)
          => thread'[w].pc = "idle"
    BY DEF LoadUnknown, Answer302, Answer410, Evict, CreateGivesUp, CreateCommit
  <2> QED BY <1>2, <2>1, <2>2, <2>3, <2>4, <2>5, <2>6 DEF Continue
<1> HIDE DEF RequestsOK, Request, Begin, Goto, Finish
<1>3. thread'[w] = Idle => thread'[w].pc = "idle"
  OBVIOUS
<1> QED BY <1>1, <1>2, <1>3, WorkerCases

LEMMA EntryStep ==
  ASSUME IInv, Ages, [TimedNext]_timedVars, NEW t \in Tokens
  PROVE  EntryAge(t)'
<1> SUFFICES ASSUME cache'[t] # Null
             PROVE  /\ cache'[t].until <= now' + Ttl
                    /\ Stale(cache[t].snapshot, t)' => cache'[t].until <= changed'[t] + Ttl + Span
  BY DEF EntryAge
<1>0. TypeOK /\ StoresOK /\ RequestsOK /\ Dated /\ Dated' /\ [Next]_vars
  BY DatedStep DEF IInv, TypeOK, Ages, TimedNext, timedVars
<1>1. now \in Nat /\ now' \in Nat /\ now <= now' /\ changed[t] \in Nat /\ changed'[t] \in Nat
  BY <1>0, ClockStep DEF StoresOK, Dated
<1>2. CASE cache'[t] = cache[t]
  <2>1. cache[t] \in Entry /\ cache[t].until \in Nat /\ cache[t].until <= now + Ttl
    BY <1>0, <1>2 DEF StoresOK, Entry, Ages, EntryAge
  <2>2. links[t] # Null
    BY <1>2 DEF IInv, KnownTokensOnly
  <2>3. ASSUME Stale(cache[t].snapshot, t)'
        PROVE  cache[t].until <= changed'[t] + Ttl + Span
    <3>1. CASE Stale(cache[t].snapshot, t) /\ changed[t] <= changed'[t]
      <4>1. cache[t].until <= changed[t] + Ttl + Span
        BY <1>2, <3>1 DEF Ages, EntryAge
      <4> QED BY <1>1, <2>1, <3>1, <4>1
    <3>2. CASE changed'[t] = now
      BY <1>1, <2>1, <3>2
    <3>3. \/ Stale(cache[t].snapshot, t) /\ changed[t] <= changed'[t]
          \/ changed'[t] = now
      BY <1>0, <1>2, <2>2, <2>3, StaleStep DEF Stale
    <3> QED BY <3>1, <3>2, <3>3
  <2> QED BY <1>1, <1>2, <2>1, <2>3
<1>3. ASSUME NEW w \in Workers, StoreWins(w), thread[w].token = t
      PROVE  /\ cache'[t].until <= now' + Ttl
             /\ Stale(cache[t].snapshot, t)' => cache'[t].until <= changed'[t] + Ttl + Span
  <2>1. cache'[t] = [snapshot |-> thread[w].snapshot, until |-> now + Ttl]
    BY <1>3 DEF StoreWins
  <2>2. links' = links /\ At(w, "store") /\ Busy(w)
    BY <1>3 DEF StoreWins, Busy, At
  <2>3. ASSUME Stale(cache[t].snapshot, t)'
        PROVE  now + Ttl <= changed'[t] + Ttl + Span
    <3>1. Stale(thread[w].snapshot, t)
      BY <2>1, <2>2, <2>3 DEF Stale
    <3>2. began[w] <= changed[t]
      BY <1>3, <2>2, <3>1 DEF Ages, FillAge
    <3>3. began[w] \in Nat /\ now <= began[w] + Span
      BY <1>0, <2>2 DEF Dated
    <3>4. changed[t] <= changed'[t]
      BY <1>0, ChangedStep
    <3> QED BY <1>1, <3>2, <3>3, <3>4
  <2> QED BY <1>1, <2>1, <2>3
<1> QED BY <1>0, <1>2, <1>3, WhoCaches

LEMMA FillStep ==
  ASSUME IInv, Ages, [TimedNext]_timedVars, NEW w \in Workers
  PROVE  FillAge(w)'
<1> SUFFICES ASSUME At(w, "store")', Stale(thread[w].snapshot, thread[w].token)'
             PROVE  began'[w] <= changed'[thread'[w].token]
  BY DEF FillAge
<1>0. TypeOK /\ RequestsOK /\ Dated /\ Dated' /\ [Next]_vars
  BY DatedStep DEF IInv, TypeOK, Ages, TimedNext, timedVars
<1>1. CASE thread'[w] = thread[w]
  <2> DEFINE t == thread[w].token
  <2>1. At(w, "store") /\ Busy(w) /\ Busy(w)'
    BY <1>1 DEF At, Busy
  <2>2. t \in Tokens /\ links[t] # Null
    BY <1>0, <2>1 DEF At, RequestsOK, HoldsOK, HasToken, IInv, KnownTokensOnly, HasSnapshot
  <2>3. began'[w] = began[w] /\ began[w] <= now
    BY <1>0, <2>1, BeganStep DEF Dated
  <2>4. began[w] \in Nat /\ changed[t] \in Nat /\ changed'[t] \in Nat
    BY <1>0, <2>2 DEF Dated
  <2>5. \/ Stale(thread[w].snapshot, t) /\ changed[t] <= changed'[t]
        \/ changed'[t] = now
    BY <1>0, <1>1, <2>2, StaleStep DEF Stale
  <2>6. Stale(thread[w].snapshot, t) => began[w] <= changed[t]
    BY <2>1 DEF Ages, FillAge
  <2>7. t = thread'[w].token
    BY <1>1
  <2> HIDE DEF t
  <2> QED BY <2>3, <2>4, <2>5, <2>6, <2>7
<1>2. ASSUME Load(w) PROVE FALSE
  <2>1. thread'[w].snapshot = SnapshotOf(links[thread[w].token]) /\ thread'[w].token = thread[w].token
    BY <1>0, <1>2 DEF Load, RequestsOK, Request
  <2>2. links' = links
    BY <1>2 DEF Load
  <2> QED BY <2>1, <2>2 DEF Stale
<1> QED BY <1>0, <1>1, <1>2, WhoReads

LEMMA AnswerStep ==
  ASSUME IInv, Ages, [TimedNext]_timedVars, NEW w \in Workers
  PROVE  AnswerAge(w)'
<1> DEFINE t == thread'[w].token
<1> SUFFICES ASSUME At(w, "answer")', Stale(thread[w].snapshot, thread[w].token)'
             PROVE  began'[w] < changed'[t] + Ttl + Span
  BY DEF AnswerAge
<1>0. TypeOK /\ RequestsOK /\ StoresOK /\ Dated /\ Dated' /\ [Next]_vars
  BY DatedStep DEF IInv, TypeOK, Ages, TimedNext, timedVars
<1>1. began'[w] = IF Busy(w) THEN began[w] ELSE now
  BY BeganStep DEF Busy, At
<1>2. CASE thread'[w] = thread[w]
  <2>1. At(w, "answer") /\ Busy(w) /\ t = thread[w].token
    BY <1>2 DEF At, Busy
  <2>2. t \in Tokens /\ links[t] # Null
    BY <1>0, <2>1 DEF At, RequestsOK, HoldsOK, HasToken, IInv, KnownTokensOnly, HasSnapshot
  <2>3. began'[w] = began[w] /\ began[w] <= now
    BY <1>0, <1>1, <2>1 DEF Dated
  <2>4. began[w] \in Nat /\ changed[t] \in Nat /\ changed'[t] \in Nat
    BY <1>0, <2>2 DEF Dated
  <2>5. \/ Stale(thread[w].snapshot, t) /\ changed[t] <= changed'[t]
        \/ changed'[t] = now
    BY <1>0, <1>2, <2>2, StaleStep DEF Stale
  <2>6. Stale(thread[w].snapshot, t) => began[w] < changed[t] + Ttl + Span
    BY <2>1 DEF Ages, AnswerAge
  <2> HIDE DEF t
  <2> QED BY <2>3, <2>4, <2>5, <2>6
<1>3. ASSUME NEW o \in Tokens, RedirectHit(w, o)
      PROVE  began'[w] < changed'[t] + Ttl + Span
  <2>1. /\ ~Busy(w) /\ Live(o) /\ links' = links
        /\ thread'[w] = [Idle EXCEPT !.pc = "answer", !.token = o, !.snapshot = cache[o].snapshot]
    BY <1>0, <1>3 DEF RedirectHit, Begin, Busy, At, RequestsOK
  <2>2. t = o /\ Stale(cache[o].snapshot, o)
    BY <2>1 DEF Stale, Idle
  <2>3. cache[o].until <= changed[o] + Ttl + Span /\ now < cache[o].until /\ cache[o].until \in Nat
    BY <1>0, <2>1, <2>2 DEF Live, Ages, EntryAge, StoresOK, Entry
  <2>4. changed[o] <= changed'[o] /\ changed[o] \in Nat /\ changed'[o] \in Nat /\ now \in Nat
    BY <1>0, ChangedStep DEF StoresOK
  <2> HIDE DEF t
  <2> QED BY <1>1, <2>1, <2>2, <2>3, <2>4
<1>4. CASE StoreLoses(w)
  <2>1. /\ At(w, "store") /\ Busy(w) /\ links' = links /\ Live(t) /\ t = thread[w].token
        /\ thread'[w].snapshot = cache[t].snapshot
    BY <1>0, <1>4 DEF StoreLoses, At, Busy, RequestsOK, Request
  <2>2. t \in Tokens
    BY <1>0, <2>1 DEF At, RequestsOK, HoldsOK, HasToken
  <2>3. Stale(cache[t].snapshot, t)
    BY <2>1 DEF Stale
  <2>4. cache[t].until <= changed[t] + Ttl + Span /\ now < cache[t].until /\ cache[t].until \in Nat
    BY <1>0, <2>1, <2>2, <2>3 DEF Live, Ages, EntryAge, StoresOK, Entry
  <2>5. changed[t] <= changed'[t] /\ changed[t] \in Nat /\ changed'[t] \in Nat /\ now \in Nat
    BY <1>0, <2>2, ChangedStep DEF StoresOK
  <2>6. began[w] \in Nat /\ began[w] <= now
    BY <1>0, <2>1 DEF Dated
  <2> HIDE DEF t
  <2> QED BY <1>1, <2>1, <2>4, <2>5, <2>6
<1>5. CASE StoreWins(w)
  <2>1. /\ At(w, "store") /\ Busy(w) /\ links' = links /\ t = thread[w].token
        /\ thread'[w].snapshot = thread[w].snapshot
    BY <1>0, <1>5 DEF StoreWins, Goto, At, Busy, RequestsOK, Request
  <2>2. t \in Tokens
    BY <1>0, <2>1 DEF At, RequestsOK, HoldsOK, HasToken
  <2>3. began[w] <= changed[t]
    BY <2>1 DEF Stale, Ages, FillAge
  <2>4. changed[t] <= changed'[t] /\ changed[t] \in Nat /\ changed'[t] \in Nat /\ began[w] \in Nat
    BY <1>0, <2>2, ChangedStep DEF Dated
  <2> HIDE DEF t
  <2> QED BY <1>1, <2>1, <2>3, <2>4
<1> QED BY <1>0, <1>2, <1>3, <1>4, <1>5, WhoReads

(***************************************************************************)
(* Together with the invariant of LinkService the ages are inductive.      *)
(***************************************************************************)
LEMMA TimedInvariant == TimedSpec => [](IInv /\ Ages)
<1>1. TimedInit => IInv /\ Ages
  <2> SUFFICES ASSUME TimedInit PROVE IInv /\ Ages
    OBVIOUS
  <2>1. IInv
    BY InitIInv DEF TimedInit
  <2>2. /\ now = 0 /\ cache = [t \in Tokens |-> Null] /\ thread = [w \in Workers |-> Idle]
        /\ began = [w \in Workers |-> 0] /\ changed = [t \in Tokens |-> 0]
    BY DEF TimedInit, Init
  <2>3. Ages
    BY <2>2 DEF Ages, Dated, EntryAge, FillAge, AnswerAge, Busy, At, Idle
  <2> QED BY <2>1, <2>3
<1>2. IInv /\ Ages /\ [TimedNext]_timedVars => IInv' /\ Ages'
  <2> SUFFICES ASSUME IInv, Ages, [TimedNext]_timedVars PROVE IInv' /\ Ages'
    OBVIOUS
  <2>1. IInv'
    BY NextIInv DEF TimedNext, timedVars
  <2>2. Dated'
    BY DatedStep DEF Ages
  <2> QED BY <2>1, <2>2, EntryStep, FillStep, AnswerStep DEF Ages
<1> QED BY <1>1, <1>2, PTL DEF TimedSpec

(* A redirect acts on a snapshot that its row has left behind for less     *)
(* than the TTL and two requests' time, whatever races, errors and         *)
(* restarts there were.                                                    *)
THEOREM StalenessIsBounded == TimedSpec => []StalenessBounded
<1>1. IInv /\ Ages => StalenessBounded
  <2> SUFFICES ASSUME IInv, Ages, NEW w \in Workers, At(w, "answer"),
                      Stale(thread[w].snapshot, thread[w].token)
               PROVE  now - changed[thread[w].token] < Ttl + 2 * Span
    BY DEF StalenessBounded, Stale
  <2>1. thread[w].token \in Tokens /\ now \in Nat
    BY DEF IInv, TypeOK, StoresOK, RequestsOK, HoldsOK, HasToken, At
  <2>2. changed[thread[w].token] \in Nat /\ began[w] \in Nat /\ now <= began[w] + Span
    BY <2>1 DEF Ages, Dated, Busy, At
  <2>3. began[w] < changed[thread[w].token] + Ttl + Span
    BY DEF Ages, AnswerAge
  <2> QED BY <2>1, <2>2, <2>3
<1> QED BY <1>1, TimedInvariant, PTL
==============================================================================
