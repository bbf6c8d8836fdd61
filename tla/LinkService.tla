----------------------------- MODULE LinkService -----------------------------
(***************************************************************************)
(* The Link lifecycle of the backend: the create, PATCH, DELETE and        *)
(* redirect handlers of router.py with everything they share, which is     *)
(* table links, the in-process redirect cache of link_cache.py and the     *)
(* Scan rows.                                                              *)
(*                                                                         *)
(* FastAPI runs a handler written as a plain def on a thread of a pool, so *)
(* handlers interleave at every database round trip and at every           *)
(* acquisition of the cache's lock.  A step here is the work between two   *)
(* such points.  Each handler has a database session of its own: what it   *)
(* read is what it works with until it commits.                            *)
(***************************************************************************)
EXTENDS LinkState, FiniteSets

LOCAL INSTANCE FiniteSetsExt

CONSTANTS Tokens,
          Workers,       \* threads of the pool
          SeedRows,      \* rows that other programs (demo seed, migrations) left
          Ttl,           \* _TTL_SECONDS, in ticks of the clock
          CacheSize,     \* _MAX_SIZE
          MaxRetries,    \* MAX_RETRIES of token_generator.py
          Faults,        \* which faults may happen: "crash", "database"
          Expiries,      \* the expires_at a request may ask for
          MaxTime,       \* bound: the clock stops there
          MaxRedirects   \* bound: redirects answered, over all tokens

(* An entry of the cache: a snapshot and the instant at which its TTL ends. *)
Entry == [snapshot : LinkSnapshot, until : Nat]

ASSUME LinkServiceAssumption ==
  /\ SeedRows \subseteq Link
  /\ Expiries \subseteq OptionalInstant
  /\ Ttl \in Nat \ {0}
  /\ CacheSize \in Nat \ {0}
  /\ MaxRetries \in Nat \ {0}
  /\ Faults \subseteq {"crash", "database"}
  /\ MaxTime \in Nat
  /\ MaxRedirects \in Nat
  /\ Null \notin Tokens \cup Entry

VARIABLES
  now,       \* the wall clock
  links,     \* committed rows of table links, by token
  cache,     \* the TTLCache: token -> an entry, or Null
  thread,    \* what each worker is doing
  found,     \* token -> 302 answers sent
  gone,      \* token -> 410 answers sent
  scans,     \* token -> committed Scan rows, by status
  tasks,     \* token -> background tasks whose Scan is not yet written
  raced,     \* history: fills under way when an eviction (or its omission) passed
  suspect    \* history: tokens whose cached entry an eviction has missed

vars == <<now, links, cache, thread, found, gone, scans, tasks, raced, suspect>>

ledger == <<found, gone, scans, tasks>>

history == <<raced, suspect>>

(***************************************************************************)
(* A worker with nothing to do, and one that serves a request: the token,  *)
(* the caller, the Link as its session loaded it, the same object with the *)
(* handler's assignments, the snapshot of a redirect, the collisions of a  *)
(* create.                                                                 *)
(***************************************************************************)
Idle == [pc |-> "idle", token |-> Null, user |-> Null,
         loaded |-> Null, link |-> Null, snapshot |-> Null, tries |-> 0]

At(w, pc) == thread[w].pc = pc

Serving(w, t, pcs) == thread[w].token = t /\ thread[w].pc \in pcs

Begin(w, request) ==
  /\ At(w, "idle")
  /\ thread' = [thread EXCEPT ![w] = request]

Goto(w, pc) == thread' = [thread EXCEPT ![w].pc = pc]

Finish(w) == thread' = [thread EXCEPT ![w] = Idle]

(* Mutant: an entry is served for one tick too many. *)
LiveOneTickLonger(t) == cache[t] # Null /\ now <= cache[t].until

(***************************************************************************)
(* An entry of the cache is served until its time is up.                   *)
(***************************************************************************)
Live(t) == cache[t] # Null /\ now < cache[t].until

Fills(t) == {w \in Workers : Serving(w, t, {"store"})}

(***************************************************************************)
(* GET /r/{token}.  The arrivals are bounded by what was answered or is    *)
(* about to be.                                                            *)
(***************************************************************************)
Redirecting(t) == {w \in Workers : Serving(w, t, {"load", "store", "answer", "gone"})}

Redirects(t) == found[t] + scans[t].gone + Cardinality(Redirecting(t))

Admitted == MapThenSumSet(Redirects, Tokens) < MaxRedirects

RedirectHit(w, t) ==
  /\ Admitted
  /\ Live(t)
  /\ Begin(w, [Idle EXCEPT !.pc = "answer", !.token = t, !.snapshot = cache[t].snapshot])
  /\ UNCHANGED <<now, links, cache, ledger, history>>

RedirectMiss(w, t) ==
  /\ Admitted
  /\ ~Live(t)
  /\ Begin(w, [Idle EXCEPT !.pc = "load", !.token = t])
  /\ UNCHANGED <<now, links, cache, ledger, history>>

(* The loader runs outside the cache's lock. *)
Load(w) ==
  LET t == thread[w].token IN
  /\ At(w, "load")
  /\ links[t] # Null
  /\ thread' = [thread EXCEPT ![w].pc = "store", ![w].snapshot = SnapshotOf(links[t])]
  /\ UNCHANGED <<now, links, cache, ledger, history>>

(* Mutant: a 404 is recorded as a Scan. *)
LoadUnknownScanned(w) ==
  /\ At(w, "load")
  /\ links[thread[w].token] = Null
  /\ scans' = [scans EXCEPT ![thread[w].token].gone = @ + 1]
  /\ Finish(w)
  /\ UNCHANGED <<now, links, cache, found, gone, tasks, history>>

(* LinkNotFoundError: 404, nothing is cached and no Scan is written. *)
LoadUnknown(w) ==
  /\ At(w, "load")
  /\ links[thread[w].token] = Null
  /\ Finish(w)
  /\ UNCHANGED <<now, links, cache, ledger, history>>

(***************************************************************************)
(* Back under the lock.  Whoever stored first wins.  Storing into a full   *)
(* cache drops the entries whose time is up and, when that is not enough,  *)
(* one that is still good; which one is the library's choice.              *)
(***************************************************************************)
StoreLoses(w) ==
  LET t == thread[w].token IN
  /\ At(w, "store")
  /\ Live(t)
  /\ thread' = [thread EXCEPT ![w].pc = "answer", ![w].snapshot = cache[t].snapshot]
  /\ raced' = raced \ {w}
  /\ UNCHANGED <<now, links, cache, ledger, suspect>>

StoreWins(w) ==
  LET t      == thread[w].token
      entry  == [snapshot |-> thread[w].snapshot, until |-> now + Ttl]
      others == {o \in Tokens \ {t} : Live(o)}
  IN
  /\ At(w, "store")
  /\ ~Live(t)
  /\ \E kept \in SUBSET others :
       /\ IF Cardinality(others) < CacheSize
            THEN kept = others
            ELSE Cardinality(kept) = CacheSize - 1
       /\ cache' = [o \in Tokens |-> IF o = t THEN entry
                                     ELSE IF o \in kept THEN cache[o] ELSE Null]
  /\ Goto(w, "answer")
  /\ raced' = raced \ {w}
  /\ suspect' = IF w \in raced THEN suspect \cup {t} ELSE suspect \ {t}
  /\ UNCHANGED <<now, links, ledger>>

(* Mutant: the Scan of a 302 is written by the handler and by the task. *)
Answer302ScansTwice(w) ==
  LET t == thread[w].token IN
  /\ At(w, "answer")
  /\ IsRedirectable(DeriveState(thread[w].snapshot, now))
  /\ found' = [found EXCEPT ![t] = @ + 1]
  /\ tasks' = [tasks EXCEPT ![t] = @ + 1]
  /\ scans' = [scans EXCEPT ![t].found = @ + 1]
  /\ Finish(w)
  /\ UNCHANGED <<now, links, cache, gone, history>>

(***************************************************************************)
(* The answer.  A 302 leaves its Scan to a background task; a 410 writes   *)
(* its Scan first, because an exception cancels the background tasks.      *)
(***************************************************************************)
Answer302(w) ==
  LET t == thread[w].token IN
  /\ At(w, "answer")
  /\ IsRedirectable(DeriveState(thread[w].snapshot, now))
  /\ found' = [found EXCEPT ![t] = @ + 1]
  /\ tasks' = [tasks EXCEPT ![t] = @ + 1]
  /\ Finish(w)
  /\ UNCHANGED <<now, links, cache, gone, scans, history>>

(* Mutant: the Scan of a 410 is left to a background task as well, which   *)
(* the exception cancels.                                                  *)
Scan410InBackground(w) ==
  /\ At(w, "answer")
  /\ ~IsRedirectable(DeriveState(thread[w].snapshot, now))
  /\ Goto(w, "gone")
  /\ UNCHANGED <<now, links, cache, ledger, history>>

Scan410(w) ==
  LET t == thread[w].token IN
  /\ At(w, "answer")
  /\ ~IsRedirectable(DeriveState(thread[w].snapshot, now))
  /\ scans' = [scans EXCEPT ![t].gone = @ + 1]
  /\ Goto(w, "gone")
  /\ UNCHANGED <<now, links, cache, found, gone, tasks, history>>

Answer410(w) ==
  /\ At(w, "gone")
  /\ gone' = [gone EXCEPT ![thread[w].token] = @ + 1]
  /\ Finish(w)
  /\ UNCHANGED <<now, links, cache, found, scans, tasks, history>>

(* _record_scan_background: a session of its own, after the response. *)
WriteScan(t) ==
  /\ tasks[t] > 0
  /\ tasks' = [tasks EXCEPT ![t] = @ - 1]
  /\ scans' = [scans EXCEPT ![t].found = @ + 1]
  /\ UNCHANGED <<now, links, cache, thread, found, gone, history>>

(* Mutants: ensure_patchable forgotten; the loaded object not kept. *)
PatchLoadUnchecked(w, t, u, url, expires) ==
  /\ links[t] # Null
  /\ MayMutate(links[t], u)
  /\ Begin(w, [Idle EXCEPT !.pc = "patch", !.token = t, !.user = u, !.loaded = links[t],
                           !.link = [links[t] EXCEPT !.url = url, !.expires = expires]])
  /\ UNCHANGED <<now, links, cache, ledger, history>>

PatchLoadDetached(w, t, u, url, expires) ==
  /\ links[t] # Null
  /\ MayMutate(links[t], u)
  /\ IsPatchable(DeriveState(links[t], now))
  /\ Begin(w, [Idle EXCEPT !.pc = "patch", !.token = t, !.user = u,
                           !.link = [links[t] EXCEPT !.url = url, !.expires = expires]])
  /\ UNCHANGED <<now, links, cache, ledger, history>>

(***************************************************************************)
(* PATCH and DELETE.  get_link, authorize_owner and forbid_if_demo decide  *)
(* on one read; a 404, 403, 409 or 422 ends there and changes nothing.     *)
(* ensure_patchable looks at the object that read gave.                    *)
(***************************************************************************)
PatchLoad(w, t, u, url, expires) ==
  /\ links[t] # Null
  /\ MayMutate(links[t], u)
  /\ IsPatchable(DeriveState(links[t], now))
  /\ Begin(w, [Idle EXCEPT !.pc = "patch", !.token = t, !.user = u, !.loaded = links[t],
                           !.link = [links[t] EXCEPT !.url = url, !.expires = expires]])
  /\ UNCHANGED <<now, links, cache, ledger, history>>

(* mark_deleted leaves an object that is already deleted alone. *)
DeleteLoad(w, t, u) ==
  /\ links[t] # Null
  /\ MayMutate(links[t], u)
  /\ Begin(w, [Idle EXCEPT !.pc = IF links[t].deleted = Null THEN "delete" ELSE "evict",
                           !.token = t, !.user = u, !.loaded = links[t],
                           !.link = IF links[t].deleted = Null
                                      THEN [links[t] EXCEPT !.deleted = now]
                                      ELSE links[t]])
  /\ UNCHANGED <<now, links, cache, ledger, history>>

CommitRow(w) ==
  LET t == thread[w].token IN
  links' = [links EXCEPT ![t] = Flush(@, thread[w].loaded, thread[w].link)]

(* apply_patch commits and then refreshes its object: one more read. *)
PatchCommit(w) ==
  /\ At(w, "patch")
  /\ CommitRow(w)
  /\ Goto(w, "refresh")
  /\ UNCHANGED <<now, cache, ledger, history>>

PatchRefresh(w) ==
  /\ At(w, "refresh")
  /\ Goto(w, "evict")
  /\ UNCHANGED <<now, links, cache, ledger, history>>

(* Mutant: DELETE answers without evicting. *)
DeleteCommitKeepsEntry(w) ==
  /\ At(w, "delete")
  /\ CommitRow(w)
  /\ Finish(w)
  /\ UNCHANGED <<now, cache, ledger, history>>

DeleteCommit(w) ==
  /\ At(w, "delete")
  /\ CommitRow(w)
  /\ Goto(w, "evict")
  /\ UNCHANGED <<now, cache, ledger, history>>

(* Both evict under the cache's lock and answer 200. *)
Evict(w) ==
  LET t == thread[w].token IN
  /\ At(w, "evict")
  /\ cache' = [cache EXCEPT ![t] = Null]
  /\ raced' = raced \cup Fills(t)
  /\ suspect' = suspect \ {t}
  /\ Finish(w)
  /\ UNCHANGED <<now, links, ledger>>

(***************************************************************************)
(* POST /api/qr/create.  A nonce gives any token.  The unique index makes  *)
(* an insert wait for the transaction that holds the same token, and turns *)
(* a committed duplicate into an IntegrityError, which undoes the          *)
(* savepoint and is retried.                                               *)
(***************************************************************************)
CreateBegin(w, u, url, expires) ==
  /\ u \notin Demo
  /\ Begin(w, [Idle EXCEPT !.pc = "mint", !.user = u,
                           !.link = [owner |-> u, url |-> url,
                                     expires |-> expires, deleted |-> Null]])
  /\ UNCHANGED <<now, links, cache, ledger, history>>

Inserting(t) == {w \in Workers : Serving(w, t, {"insert"})}

(* Mutants: no unique index to wait on; a collision is not counted as a try.  *)
TryInsertBlindly(w, t) ==
  /\ At(w, "mint")
  /\ thread[w].tries < MaxRetries
  /\ thread' = IF links[t] = Null
                 THEN [thread EXCEPT ![w].pc = "insert", ![w].token = t]
                 ELSE [thread EXCEPT ![w].tries = @ + 1]
  /\ UNCHANGED <<now, links, cache, ledger, history>>

TryInsertForever(w, t) ==
  /\ At(w, "mint")
  /\ Inserting(t) = {}
  /\ thread' = IF links[t] = Null
                 THEN [thread EXCEPT ![w].pc = "insert", ![w].token = t]
                 ELSE thread
  /\ UNCHANGED <<now, links, cache, ledger, history>>

TryInsert(w, t) ==
  /\ At(w, "mint")
  /\ thread[w].tries < MaxRetries
  /\ Inserting(t) = {}
  /\ thread' = IF links[t] = Null
                 THEN [thread EXCEPT ![w].pc = "insert", ![w].token = t]
                 ELSE [thread EXCEPT ![w].tries = @ + 1]
  /\ UNCHANGED <<now, links, cache, ledger, history>>

(* TokenCollisionError: rollback and 500. *)
CreateGivesUp(w) ==
  /\ At(w, "mint")
  /\ thread[w].tries = MaxRetries
  /\ Finish(w)
  /\ UNCHANGED <<now, links, cache, ledger, history>>

CreateCommit(w) ==
  /\ At(w, "insert")
  /\ links' = [links EXCEPT ![thread[w].token] = thread[w].link]
  /\ Finish(w)
  /\ UNCHANGED <<now, cache, ledger, history>>

(***************************************************************************)
(* Faults.  A statement that fails raises in the handler: the session is   *)
(* rolled back, the client gets a 500.  A commit whose acknowledgement is  *)
(* lost raises too, though the row has changed.  Neither reaches the       *)
(* eviction, and a fill that is under way may hold the row as it was.      *)
(***************************************************************************)
EvictionSkipped(t) ==
  /\ raced' = raced \cup Fills(t)
  /\ suspect' = suspect \cup {t}

StatementFails(w) ==
  /\ "database" \in Faults
  /\ thread[w].pc \in {"load", "answer", "patch", "delete", "mint", "insert"}
  /\ At(w, "answer") => ~IsRedirectable(DeriveState(thread[w].snapshot, now))
  /\ Finish(w)
  /\ UNCHANGED <<now, links, cache, ledger, history>>

RefreshFails(w) ==
  /\ "database" \in Faults
  /\ At(w, "refresh")
  /\ EvictionSkipped(thread[w].token)
  /\ Finish(w)
  /\ UNCHANGED <<now, links, cache, ledger>>

CommitUnacknowledged(w) ==
  /\ "database" \in Faults
  /\ thread[w].pc \in {"patch", "delete"}
  /\ CommitRow(w)
  /\ EvictionSkipped(thread[w].token)
  /\ Finish(w)
  /\ UNCHANGED <<now, cache, ledger>>

(* The background write of a Scan fails: it is not repeated. *)
ScanLost(t) ==
  /\ "database" \in Faults
  /\ tasks[t] > 0
  /\ tasks' = [tasks EXCEPT ![t] = @ - 1]
  /\ UNCHANGED <<now, links, cache, thread, found, gone, scans, history>>

(***************************************************************************)
(* The process dies and is started again: the cache, the requests under    *)
(* way and the background tasks were in its memory.                        *)
(***************************************************************************)
Crash ==
  /\ "crash" \in Faults
  /\ cache' = [t \in Tokens |-> Null]
  /\ thread' = [w \in Workers |-> Idle]
  /\ tasks' = [t \in Tokens |-> 0]
  /\ raced' = {}
  /\ suspect' = {}
  /\ UNCHANGED <<now, links, found, gone, scans>>

Tick ==
  /\ now < MaxTime
  /\ now' = now + 1
  /\ UNCHANGED <<links, cache, thread, ledger, history>>

Init ==
  /\ now = 0
  /\ links \in [Tokens -> SeedRows \cup {Null}]
  /\ cache = [t \in Tokens |-> Null]
  /\ thread = [w \in Workers |-> Idle]
  /\ found = [t \in Tokens |-> 0]
  /\ gone = [t \in Tokens |-> 0]
  /\ scans = [t \in Tokens |-> [found |-> 0, gone |-> 0]]
  /\ tasks = [t \in Tokens |-> 0]
  /\ raced = {}
  /\ suspect = {}

Arrive(w) ==
  \/ \E t \in Tokens : RedirectHit(w, t) \/ RedirectMiss(w, t)
  \/ \E t \in Tokens, u \in Users, url \in Urls, expires \in Expiries :
       PatchLoad(w, t, u, url, expires)
  \/ \E t \in Tokens, u \in Users : DeleteLoad(w, t, u)
  \/ \E u \in Users, url \in Urls, expires \in Expiries : CreateBegin(w, u, url, expires)

Continue(w) ==
  \/ Load(w) \/ LoadUnknown(w) \/ StoreLoses(w) \/ StoreWins(w)
  \/ Answer302(w) \/ Scan410(w) \/ Answer410(w)
  \/ PatchCommit(w) \/ PatchRefresh(w) \/ DeleteCommit(w) \/ Evict(w)
  \/ \E t \in Tokens : TryInsert(w, t)
  \/ CreateGivesUp(w) \/ CreateCommit(w)

Fail(w) == StatementFails(w) \/ RefreshFails(w) \/ CommitUnacknowledged(w)

Next ==
  \/ \E w \in Workers : Arrive(w) \/ Continue(w) \/ Fail(w)
  \/ \E t \in Tokens : WriteScan(t) \/ ScanLost(t)
  \/ Crash
  \/ Tick

(***************************************************************************)
(* The pool's threads run on; nobody has to send a request and nothing has *)
(* to fail.  The insert that waits for another transaction on the unique   *)
(* index is woken when that one ends, and every collision needs one more   *)
(* pair of equal nonces: it is strongly fair.                              *)
(***************************************************************************)
Fairness ==
  \A w \in Workers : WF_vars(Continue(w)) /\ SF_vars(\E t \in Tokens : TryInsert(w, t))

Spec == Init /\ [][Next]_vars /\ Fairness

(* The same service while nothing fails: what Faults = {} leaves of it.     *)
CalmNext ==
  \/ \E w \in Workers : Arrive(w) \/ Continue(w)
  \/ \E t \in Tokens : WriteScan(t)
  \/ Tick

CalmSpec == Init /\ [][CalmNext]_vars /\ Fairness

(***************************************************************************)
(* Types.  What a worker holds depends on where it is.                     *)
(***************************************************************************)
Request ==
  [pc : {"idle", "load", "store", "answer", "gone", "patch", "refresh",
         "delete", "evict", "mint", "insert"},
   token : Tokens \cup {Null}, user : Users \cup {Null},
   loaded : Link \cup {Null}, link : Link \cup {Null},
   snapshot : LinkSnapshot \cup {Null}, tries : 0 .. MaxRetries]

HasToken == {"load", "store", "answer", "gone", "patch", "refresh", "delete", "evict", "insert"}
HasSnapshot == {"store", "answer", "gone"}
Mutates == {"patch", "refresh", "delete", "evict"}
Creates == {"mint", "insert"}

HoldsOK(r) ==
  /\ r.pc \in HasToken => r.token \in Tokens
  /\ r.pc \in HasSnapshot => r.snapshot \in LinkSnapshot
  /\ r.pc \in Mutates => r.user \in Users /\ r.loaded \in Link /\ r.link \in Link
  /\ r.pc \in Creates => r.user \in Users /\ r.link \in Link

RequestsOK ==
  /\ thread \in [Workers -> Request]
  /\ \A w \in Workers : HoldsOK(thread[w])

StoresOK ==
  /\ now \in Nat
  /\ links \in [Tokens -> Link \cup {Null}]
  /\ cache \in [Tokens -> Entry \cup {Null}]
  /\ found \in [Tokens -> Nat]
  /\ gone \in [Tokens -> Nat]
  /\ scans \in [Tokens -> [found : Nat, gone : Nat]]
  /\ tasks \in [Tokens -> Nat]
  /\ raced \subseteq Workers
  /\ suspect \subseteq Tokens

(* Every variable has its type, and every worker what its next step needs. *)
TypeOK == RequestsOK /\ StoresOK

(***************************************************************************)
(* Safety.                                                                 *)
(***************************************************************************)
EvictionPending(t) == \E w \in Workers : Serving(w, t, {"refresh", "evict"})

(* A snapshot that differs from the committed row, in the cache or about   *)
(* to be stored there, has one of three causes: the handler that changed   *)
(* the row has yet to evict, the snapshot was read before an eviction and  *)
(* stored after it (get_or_load loads outside its lock), or an error kept  *)
(* a handler from evicting.  Nothing else makes the redirect cache stale.  *)
CacheCoherent ==
  /\ \A t \in Tokens \ suspect :
       cache[t] # Null /\ cache[t].snapshot # SnapshotOf(links[t]) => EvictionPending(t)
  /\ \A w \in Workers \ raced :
       At(w, "store") /\ thread[w].snapshot # SnapshotOf(links[thread[w].token])
         => EvictionPending(thread[w].token)

(* No negative caching, no Scan of an unknown token: whatever the cache,   *)
(* a handler past its lookup, a background task or a Scan row speaks of,   *)
(* table links has.                                                        *)
KnownTokensOnly ==
  /\ \A t \in Tokens :
       cache[t] # Null \/ tasks[t] > 0 \/ scans[t].found > 0 \/ scans[t].gone > 0
         => links[t] # Null
  /\ \A w \in Workers :
       thread[w].pc \in HasSnapshot \cup Mutates => links[thread[w].token] # Null

(* A token that a create is about to commit is its alone, whatever the     *)
(* nonces gave: no row has it and no other open transaction.               *)
MintsAreDistinct ==
  \A w \in Workers :
    At(w, "insert") => /\ links[thread[w].token] = Null
                       /\ Inserting(thread[w].token) = {w}

(* At most one Scan for a 302 and at least one for a 410, through crashes  *)
(* and failed writes: the background task runs after its answer, the       *)
(* synchronous write comes before it.  Without faults the counts agree.    *)
AnsweringGone(t) == {w \in Workers : Serving(w, t, {"gone"})}

ScanLedger ==
  \A t \in Tokens :
    LET due302 == scans[t].found + tasks[t]
        due410 == gone[t] + Cardinality(AnsweringGone(t))
    IN /\ due302 <= found[t]
       /\ due410 <= scans[t].gone
       /\ Faults = {} => due302 = found[t] /\ due410 = scans[t].gone

AgreesWith(r, owner) ==
  /\ r.user \notin Demo
  /\ {r.user, r.loaded.owner, r.link.owner} = {owner}
  /\ r.pc = "patch" => r.loaded.deleted = Null /\ r.link.deleted = Null
  /\ r.pc = "delete" => /\ r.loaded.deleted = Null /\ r.link.deleted # Null
                        /\ r.link = [r.loaded EXCEPT !.deleted = r.link.deleted]

(* What a mutating handler holds agrees with the row it will write to,     *)
(* however late it commits: same owner, its caller, and a deletion is      *)
(* never in a position to be undone.                                       *)
HeldRowsAgree ==
  \A w \in Workers :
    thread[w].pc \in Mutates => AgreesWith(thread[w], links[thread[w].token].owner)

(***************************************************************************)
(* Action properties.                                                      *)
(***************************************************************************)

(* A row that exists changes only at the commit of a handler that serves   *)
(* this token for the row's owner, and never for the demo account: what    *)
(* authorize_owner and forbid_if_demo saw still holds at the commit.       *)
OnlyItsOwnerChangesALink ==
  [][\A t \in Tokens :
       links[t] # Null /\ links'[t] # links[t] =>
         \E w \in Workers : /\ Serving(w, t, {"patch", "delete"})
                            /\ thread[w].user = links[t].owner
                            /\ thread[w].user \notin Demo]_vars

(* The handlers implement the registry of atomic operations: minted once,  *)
(* never replaced, never resurrected, by whichever interleaving.           *)
Registry == INSTANCE LinkRegistry WITH registry <- links

ImplementsRegistry == Registry!Spec

(***************************************************************************)
(* Liveness.                                                               *)
(***************************************************************************)

(* Every request is answered, creates that wait for one another's tokens   *)
(* included: a worker is idle again and again.                             *)
RequestsComplete == \A w \in Workers : []<>At(w, "idle")

(***************************************************************************)
(* What the comments, the ADRs and the tests say, and the code does not    *)
(* ensure.                                                                 *)
(***************************************************************************)

(* router.py: "Evict after DB commit so the very next redirect returns     *)
(* 410", as evict's own comment has it: once no eviction is outstanding a  *)
(* deleted Link has no entry that would redirect.                          *)
NextRedirectOfDeletedIsGone ==
  \A t \in Tokens :
    Live(t) /\ links[t].deleted # Null /\ ~EvictionPending(t)
      => ~IsRedirectable(DeriveState(cache[t].snapshot, now))

(* ADR 0001: "PATCH is blocked for deleted links".                         *)
DeletedLinkIsNotPatched ==
  [][\A t \in Tokens :
       links[t] # Null /\ links[t].deleted # Null
         => links'[t].url = links[t].url /\ links'[t].expires = links[t].expires]_vars
==============================================================================
