# TLA+ models of the QR code generator

This directory holds TLA+ modules of the parts of the service in which things
happen at the same time, fail half-way or run out of time; the TLC
configurations that model-check them on small instances; and theorems about
them that TLAPS proves for every instance. Paths below are relative to the
repository.

To check one configuration or the proofs of one module, in this directory:

    tlc -workers 2 -config LinkCoherence.cfg MCLinkStaleness.tla
    tlapm LinkServiceProofs.tla

`PROJECT.json` lists the runs, the lines of code each definition models, a
mutation of the code for every checked property (the operator is in the module,
under a comment that starts with "Mutant") and the hazards the properties are for.

## 1. The system

A FastAPI backend in one uvicorn process (several workers are warned against by
`backend/main.py`), PostgreSQL behind SQLAlchemy, object storage (S3, a local
disk or memory), and a React single-page application.

| component | state it keeps | operations | talks to |
|---|---|---|---|
| Link handlers, `backend/router.py`, `link_repository.py`, `link_state.py`, `authorization.py`, `token_generator.py` | table `links` (soft deletion by `deleted_at`, expiry by `expires_at`), unique index on `token` | create, PATCH, DELETE, list, detail, redirect | database, redirect cache, Scans |
| redirect cache, `backend/link_cache.py` | a `TTLCache` of snapshots under a lock, one per process | `get_or_load`, `evict` | called by redirect, PATCH, DELETE |
| Scans, `router.py`, `scan_repository.py`, `analytics.py`, `scan_derivation.py` | table `scans` | a background write after a 302, a synchronous one before a 410; aggregation | database, GeoIP file |
| rate limiter, `backend/rate_limiter/` | per process: key -> two token buckets, last access, denial log counters | `check`, prune, sweep, `log_denied`, in a middleware | before create (per user) and sign-in (per address) |
| customization, `router.py`, `customization_repository.py`, `storage.py` | table `link_customizations`, one object per composite and per logo | PUT, GET recipe, GET image, GET logo | database, object storage |
| customization editor, `frontend/src/pages/LinkDetail.tsx`, `useCustomization.ts`, `qr/renderer.ts` | a panel's form, a query cache, a mutation, a live preview | open, restyle, choose or remove a logo, cancel, save | the four customization endpoints |
| sign-in, `auth.py`, `auth_router.py`, `session.py`, `google_identity.py`, `user_repository.py` | table `users`; a session is a signed cookie | start, end, demo session, me | Google |
| demo seed, `demo_seed.py` | rows of the demo account | one deploy step | Link repository |
| browser session, `frontend/src/state/auth`, `LoginControl.tsx` | the cookie, the cached answer of GET /me, Google's script and its button | sign in with Google or as a guest, sign out, expire, render, resize | backend, Google |
| pages of Links, `Dashboard.tsx`, `LinkDetail.tsx`, `state/linkEntry` | the react-query cache of the Link and the list, requests in flight, forms | navigate, edit a field, delete, refetch | session, backend |
| `Generator.tsx`, `QRCustomizer.tsx`, `styleStore.ts`, `qr/` | the form, the look, a live preview, local storage of styles | restyle, choose a logo, create, reset, leave | POST create, PUT customization |
| other frontend (layout, `lib`, `schemas`, charts) | none that others read | - | - |
| start-up, errors, logging, URL validation, QR rendering, migrations, deploy scripts | none that others read at run time | - | - |
| agent harness, `.harness/` | lock files, worktrees, heartbeats | run, cleanup, force | git, docker |

### Where it is hard

* **Threads.** Handlers written as plain `def` run on a thread pool and
  interleave at every database round trip and at the cache's lock. PATCH and
  DELETE work on an object read earlier and commit without lock or version. The
  cache loads outside its lock.
* **The event loop.** `put_customization` and the limiter's middleware are
  coroutines: atomic between two awaits, interleaved at them.
* **Failures.** Background tasks are lost with the process. A commit can succeed
  and its acknowledgement or the following `refresh` fail, which skips the
  eviction. A PUT writes two objects and a row, one after the other.
* **Time.** The TTL of the cache counts from the store, not from the read. Buckets
  are refilled lazily and idle entries forgotten. Retry-After rounds.
* **The browser.** Fetches and mutations answer in any order into state that the
  user has changed since: the account, the page, the form, the look. A sign-in or
  sign-out drops the cache while requests of the previous account are in flight;
  nothing cancels a GET /me or a One Tap prompt. The cookie changes before the page
  is told, and expires without telling it. While the browser is offline react-query
  pauses what is to be sent, which is neither loading nor an error. The Generator draws
  its picture from a preview that goes on following the user.

### What makes each part correct

* Links: a token is minted once; a row is changed by its owner only; a deletion is
  never undone; concurrent handlers amount to some sequence of atomic operations.
* Cache: a redirect acts on the committed row, except for named causes, and never
  on one replaced too long ago.
* Scans: no more Scans than 302 answers, no fewer than 410 answers, none for an
  unknown token.
* Limiter: it grants what its windows say, whatever it forgets; Retry-After is
  right; warnings are capped; idle entries go.
* Customization: the row always names objects that are there and belong together;
  what was clicked is what is served; a logo is not lost unawares.
* Session and pages: what is shown belongs to the account signed in, is no older
  than what the server has acknowledged, and is never nothing; loading ends; who
  is signed out can sign in. The code keeps each of these up to named causes.
* Generator: a Link gets the look it was submitted with and comes back with it, its
  picture leads to it, a look that is lost is reported, and the page goes on showing
  the newest Link.

## 2. Modules and the code

| module | what it is |
|---|---|
| `LinkState` | rows, snapshots, derived states, authorisation, what a flush writes (only the columns the session changed) |
| `LinkService` | the Link handlers, step by database round trip, with the cache, the Scans, faults and a clock; extends `LinkState` |
| `LinkRegistry` | the abstract specification of table `links`: mint, edit, retire, each atomic |
| `LinkStaleness` | `LinkService` with dates: how old can an answer be |
| `LinkServiceProofs`, `LinkStalenessProofs` | theorems about these |
| `Quota` | the abstract specification of the limiter: buckets that are never forgotten |
| `QuotaWindow`, `QuotaWindowProofs` | `Quota` with a stop watch; the bound on admissions and its proof |
| `RateLimiter` | the registry of buckets with ages, prune, sweep, denial log, restarts |
| `RateLimiterProofs` | theorems about `RateLimiter`, that it implements `Quota` among them |
| `Customization` | the backend's part of a customization: object storage, row, PUTs in progress |
| `CustomizationEditor` | the browser's panel; extends `Customization` |
| `CustomizationProofs` | theorems about both |
| `Session` | who is signed in: the cookie, the me query, the calls that change them |
| `SignIn` | the sign-in widget; extends `Session` |
| `LinkViews` | the Link and the list in the query cache, the pages that show them, their edits and the server's answers; extends `Session` |
| `Generator` | the page that makes Links |
| `SessionProofs` | theorems about `Session` and `SignIn` |
| `LinkViewsProofs`, `GeneratorProofs` | theorems about `LinkViews` and `Generator` |
| `MC...` | definitions for the configurations: rows to start from, limits and periods, symmetry; `MCBrowser` puts the components of a tab together |

**LinkService.** `thread[w]` is one worker of the pool: the point its handler has
reached (`pc`), the caller, the object its session loaded, the same object with
the handler's assignments, the snapshot a redirect holds. One action stands for
the work between two interleaving points:

| handler | actions |
|---|---|
| `redirect` with `get_or_load` | `RedirectHit` or `RedirectMiss`, `Load` (outside the lock) or `LoadUnknown` (404), `StoreLoses` or `StoreWins` (second critical section, eviction for capacity), `Answer302` (adds a background task) or `Scan410`, `Answer410` |
| background task | `WriteScan`, `ScanLost` |
| `patch_link` | `PatchLoad` (read, owner and demo checks, `ensure_patchable`, assignments), `PatchCommit`, `PatchRefresh`, `Evict` |
| `delete_link` | `DeleteLoad`, `DeleteCommit`, `Evict` |
| `create_qr` | `CreateBegin`, `TryInsert` (savepoint; a token in another open transaction blocks on the unique index), `CreateCommit`, `CreateGivesUp` (500 after `MAX_RETRIES`) |
| faults | `StatementFails`, `RefreshFails`, `CommitUnacknowledged`, `Crash` |

`StatementFails` is any statement that raises: the session is closed without a
commit. `CommitUnacknowledged` commits and then raises. `Crash` loses the cache,
the requests and the background tasks, and keeps the tables. `raced` and
`suspect` are history variables: the fills an eviction has overtaken and the
tokens whose eviction an error has skipped; the properties name them as causes.

**RateLimiter.** `entry[k]` is `_ip_entries[k]`: levels of the hourly and the
daily bucket, idle time, denial count. `before` is the order of the dict, which the
sweep walks, as the set of pairs of keys of which the first comes before the second. A request is one step (`Allow` or `Deny`), as the middleware
awaits nothing between `check` and `log_denied`. `promise[k]` is a history variable, the last
Retry-After and what is left of it; `Restart` forgets it with the buckets, for a restart
makes the wait longer than needed. Times are whole seconds, levels
exact fractions in units of one request divided by the period; floats are not
modelled. The abstract `credit` of `Quota` is each entry's level refilled to now,
or full for a key without an entry.

**Customization.** `save[p]` is a PUT: refused, or read, composite stored, logo
stored, row written. `LoopIsFree` says that a coroutine past its awaits keeps the
event loop. A save's number stands for its uuid keys. Readers are functions of
the state, since each reads the row once.

**CustomizationEditor.** `panel[e]` is the form of a tab; `cached[e]` the row that
its query holds, any row it could have fetched; `click[p]` the closure of one
press of the save button and the image drawn for it; `fetch[f]` a request for the
existing logo. The image is drawn (`Draw`) some time after the click, from the
preview as it is then, because `toBlob` awaits the drawing library, or is not
(`DrawFails`: a toast, and no PUT). `isSaving`
follows the last mutation only (`pending`), and is false before the PUT starts.

**Session.** A session is the signed cookie, so a request is the account it was
sent with. `me` is the data of the me query, `meAsk` the GET /me in flight, `calls` the
sign-ins and sign-outs in flight. The `Set-Cookie` of an answer (`SetCookie`) and the
`onSuccess` that tells the page (`SessionSet`) are two steps, and an answer may be lost
between them; the cookie also expires (`Expire`). `known` is a history variable: the page
has been told of the call that made the cookie there is. `online` is what the browser
tells react-query, which pauses what is to be sent while it is `FALSE` (`Paused`,
`CallGoesOn`, `MeGoesOn`), and neither cancels nor fails what is under way: that the
network decides.

**SignIn.** `drawn` is what `LoginControl` last rendered; `Render` is the render
with the effect of `useGoogleOneTap` (`RunHook`, `CancelHook`) and the ref callbacks that
have Google paint its button; `CrossBreakpoint` mounts the other variant. `waiter`
is the hook run whose promise settles with the script.

**LinkViews.** `query[k]` is the cached query of the Link or of the list: data, whether
it was invalidated, the error, the request in flight. Data is a version (the count of
edits of the one Link) with the account it was fetched as. `SetSession` is
`seedSession` or the logout's `onSuccess` with `resetQueries` or `removeQueries`;
`Patched` and `Deleted` are what `hooks.ts` writes to the cache; `Invalidate`,
`Fetch`, `Mount`, `Sent` and `GoOn` are the parts of react-query (version 5, with the
default `networkMode`) that `src/` relies on: a request that is to start or to be retried
offline is `paused`, which `Loading` does not count; `Invalidate` asks an observed query
again and cancels what was in flight, but not a first load (`FirstLoad`), whose answer is
then stored as fresh. The server
answers with `ServeEdit` and `ServeQuery`, each one registry operation. `acked` is a
history variable, and `late` marks data that an acknowledged edit had overtaken when
it arrived. `Dashboard` and `LinkDetail` are the branches of the two components, as
the set of things on the page.

**Generator.** `create[n]` is the n-th submission with the look captured by its
closure. Callbacks given to `mutate` run for the mutation the page holds only
(`Heard`), what they started goes on after a reset or a departure. `Canvas` is the live
preview, `Draw` the moment `toBlob` reads it; a page that is left has its renderer
keep the last one (`Drawn`). `disturbed` is a history variable: the page changed while
a picture was being drawn. Styles go to local storage too: `default` is the style of the
next new page, which `Restyle` writes; the style stored under a Link's token is written
and never read (`getStyle` has no caller), so no variable holds it, but its `setItem` may
throw, in `Restyle` and in the callback of a create, which ends there
(`AnnounceThrows`).

## 3. Runs

Each run keeps what its question is about and drops the rest: faults, ownership and
several tokens are not all present at once.

| run | instance | shows |
|---|---|---|
| `link_coherence` | 3 workers, 1 token that may or may not have a row, expiry now or never, all faults, 2 redirects; TTL 1, requests of at most 1 tick, 3 ticks | `TypeOK`, `CacheCoherent`, `HeldRowsAgree`, `KnownTokensOnly`, `ScanLedger`, refinement of `LinkRegistry`, and that an answer is at most TTL + two request times old (`StalenessBounded`) |
| `link_ownership` | 2 workers, 2 tokens, one URL, an owner and the demo account, rows of every origin, a clock, a cache of one entry, 2 redirects, nothing fails (`CalmSpec`) | `MintsAreDistinct`, `OnlyItsOwnerChangesALink`, `CacheCoherent` under capacity and TTL eviction, `ScanLedger` with equality; every request is answered (`RequestsComplete`) |
| `limiter_quota` | 2 keys, limits 2 and 2 in 3 and 4 seconds, sweep of 1, cap of 1, restarts | `ImplementsQuota`, `RetryAfterHonoured`, `WarningsCapped`, `FrontIsSwept` |
| `quota_window` | 2 keys, limits 2 and 3 in 3 and 7 seconds, watch of 8 seconds | `WindowBound` |
| `customization_editor` | 1 tab, 2 styles, 1 logo, 2 saves, 2 fetches, all faults | `RowIsOneSave`, `WhatYouSeeIsSaved`, `LogoLossExplained` |
| `browser` | 2 accounts (the owner and the demo account), one form besides deletion, 2 turns of the session (sign-ins, sign-outs, expiries, outages) or edits, 1 retry; 2 styles, 1 logo, 2 Links | `OthersDataIsALateEdit`, `AcknowledgedIsShown`, `DeletionIsShown`, `BlankOnlyWhilePaused`, `PaintedWhenReady`, `UnpaintedExplained`, `SavedAsSubmitted`, `NewestIsShown`, `TypeOK`, `GeneratorTypeOK` |
| `browser_liveness` | the pages alone, 1 turn and 1 deletion, 1 retry | `LoadingEnds` |
| `link_deleted_served`, `link_patch_deleted`, `limiter_retry_after`, `customization_kept_logo`, `generator_look` | as small as the disagreement allows | the findings of section 5 |

**Why the bounds are enough to be of interest.** Three workers are the least with
which a fill, a mutation and a second redirect (or mutation) overlap; two redirects
let one fill the cache and another use it, lose to it or, on another token, push it out. The one token of
`link_coherence` starts with a row or without, so creates race with lookups; two
tokens with `MaxRetries = 2` make creates collide and block on each other. A clock
of one tick lets an entry or a Link expire once; the three ticks of `link_coherence`
are what an answer as old as `StalenessBounded` allows takes. There, the full crowd of three
workers races while the clock stands at 0, where a Link may have expired and a cached
entry not; after the first tick at most `Crowd` = 2 workers are busy, over Links
that never expire, which is what a late fill and a mutation take. In the limiter the periods do not
divide by the limits, the TTL is a handful of seconds and the sweep looks at one of
two keys, so pruning, partial refills and a key behind another all occur; either
window may be the one that denies, and in `quota_window` the slower one is the
tighter bound before the watch ends. One tab
suffices for overlapping saves, as a second click can come before the first PUT,
and for stale rows, as the query may be older than the row; two saves are the
least in which one replaces another. In `browser` two turns or edits overlap in every
order with each other and with a list and a Link query that may each be in flight, be
paused, fail and be retried once (the code: twice); every hazard of the pages is a race of
two of these with a query, so `MaxSpent` = 2 bounds them together. Edits of different
fields differ in the server's eyes only by their order, so one form and the deletion show
what two answers do to each other. In `browser_liveness` the deletion stands for all edits:
what it does to the queries, marking and asking again, is more than what a PATCH does. Two Links
and two styles let an older create answer after a newer one and a picture be drawn of
the wrong look. The parts of a tab are each explored with the others at rest, for they
share nothing but the session, of which the Generator reads nothing.

**Bounds.** `MaxTime`, `MaxRedirects`, `Crowd`, `MaxSaves`, `MaxFetches`, `MaxAge`,
`MaxTurns`, `MaxEdits`, `MaxSpent` (turns and edits together), `MaxLinks`; nobody
edits a panel, and no row is fetched for one, once every save is clicked and
drawn (`Editing`). Idle times stop
just above the TTL and denial counts just above the cap, where nothing
distinguishes them any more. Symmetry of the workers is used in
`link_coherence` only, which has no liveness property.

**Fairness.** `LinkService`: a worker whose handler can go on goes on; nobody has
to send a request, no fault has to happen, no background task has to run. A
create that waits on the unique index for another transaction is strongly fair:
PostgreSQL wakes it when that transaction ends, and each new wait needs one more
pair of equal random nonces. `RequestsComplete` is checked without faults, which only end
requests sooner: `CalmSpec` is `Spec` with the actions that `Faults = {}` leaves. `RateLimiter`: time passes, and for `FrontIsSwept` somebody uses the service, as the sweep runs
inside requests only. `LinkViews`: a query that was sent reaches the server or ends in
an error, as the browser's network stack sees to, and one that is paused goes on when the
browser is online; no user action, sign-in, edit, return of the network or success is ever
required, so `LoadingEnds` has "or is offline" in it. `CustomizationEditor`, `Generator`
and the session have no fairness: that a mutation settles is react-query's affair and the
network's, and offline it does not.

**Properties with named exceptions.** `CacheCoherent`, `LogoLossExplained`,
`WhatYouSeeIsSaved`, `OthersDataIsALateEdit`, `AcknowledgedIsShown`, `DeletionIsShown`,
`BlankOnlyWhilePaused`, `UnpaintedExplained` and `SavedAsSubmitted` say "nothing but these
causes": each cause is a real window of the code. Two have a counterpart without the causes,
which a document or a comment promises and a run refutes: `NextRedirectOfDeletedIsGone`
for `CacheCoherent`, `KeptLogoSurvives` for `LogoLossExplained`. What the causes of the
others amount to is told at the end of section 5.

## 4. Proofs

The theorems hold for every value of the constants, given the named assumptions
of the modules (`LinkStateAssumption`, `LinkServiceAssumption`,
`SpanAssumption`, `RateLimiterAssumption`, `QuotaAssumption`, `MaxAgeAssumption`,
`CustomizationAssumption`, `EditorAssumption`, `SessionAssumption`, `ViewsAssumption`,
`GeneratorAssumption`): sets are what they are called, bounds are numbers, and `Null`
is none of the things it is told apart from. No set of workers, tokens, keys or tabs
is assumed to be finite. Every safety invariant and every action property of the
passing runs, and both refinements, are proved.

`LinkServiceProofs` proves `Spec => []` of `TypeOK`, `CacheCoherent`,
`KnownTokensOnly`, `MintsAreDistinct` and `HeldRowsAgree`, the action property
`OnlyItsOwnerChangesALink`, and `ImplementsRegistry`. The inductive invariant
`IInv` is the conjunction of these invariants. They need each other:
the types are only preserved because a row, once there, stays, and a handler past
its lookup speaks of such a row (`KnownTokensOnly`); the flush of a PATCH keeps the
owner and the deletion only because what its session loaded agrees with the row
(`HeldRowsAgree`). Coherence is proved by cases on what a step does to one token:
leave it alone, load, store, commit, evict, mint or crash; each has a lemma about
operators with the states as parameters, so that it speaks of both ends of a step.
The refinement needs one fact more, that a row about to be inserted is live and of
an ordinary account (`NewRowsAreLive`).

`ScanLedger` has an invariant of its own, `Ledger`, beside the types. Token by token it
keeps two accounts, the one of background Scans and the one of Scans written before
their 410; a step moves one unit within an account or leaves it alone. The second counts
workers, so `Ledger` also says that those between a Scan and its answer are finitely
many (`Countable`): each got there in a step of its own, a crash clears them all.

`LinkStalenessProofs` proves `StalenessBounded`, which looks at a worker about to
answer, from what holds on the way there (`Ages`). A fill that holds an outdated
snapshot arrived before the change; so an entry stored with one ends no later than a
request's time and a TTL after it; so an answer from it arrived before that; and it
takes one more request's time. That no request is older than `Span`, nor dated in the
future, is part of the invariant (`Dated`), and `TimedNext` being a `Next` step brings in
the invariant of `LinkService` for the rest: a cached token has a row, a row stays.

`RateLimiterProofs` proves `TypeOK`, `RetryAfterHonoured`, `WarningsCapped` and
`ImplementsQuota`. The refinement maps each entry's level, refilled to now, to the
`credit` of `Quota`. It needs that an entry that is forgotten would be full again
(`ForgottenIsFull`, from the TTL being twice the longest period), that refilling twice is
refilling once (`RefillOn`, `RefillFull`), and that a request leaves the other keys' credit
where it was although it drops some of their entries (`UpsertCredit`). `RetryAfterHonoured`
speaks of the credit when the wait has ended and while more than a second of it is left; the
invariant `WaitsAreExact` relates the two at every second: what the wait still brings covers
what is missing, and exceeds it by at most one second's refill. `WarningsCapped` needs that
what was logged in this second is what the entry counts (`DenialsCounted`): the entries a
request drops were last used in an earlier second, so no count of this second goes with
them. Products of two variables are beyond the solver's arithmetic, so each is
named in a lemma (`Product`, `ProductGrows`, `Quotient`) and hidden where sums are compared.

`QuotaWindowProofs` proves `WindowBound`. It is not inductive: what was admitted
does not say what is left. The invariant is the account, *paid plus left is at most
burst plus refill*; the multiplications are done in a lemma of their own.

`CustomizationProofs` proves `TypeOK`, `RowIsOneSave`, `WhatYouSeeIsSaved` and the action
property `LogoLossExplained`. The
invariant says that a save has stored what its point implies, that the row is the
row of a save that has come to its end (whose objects nobody writes again, as keys
are never reused), and that what a save carries is what its click captured and
drew. The loss of a logo needs one more (`LogosMinded`): a panel seeded with a logo has one,
or its user was told or chose, or one of its fetches is still out; a click whose panel knew of
no reason therefore was not seeded with the logo that it clears. It is proved from the
four things a step can do to a panel (`PanelCases`).

`SessionProofs` proves the types of `Session`, which are inductive as they stand, and of
`SignIn` `PaintedWhenReady` and `UnpaintedExplained`; their invariant adds what the page
knows of the script: while it loads the hook run that asked for it is live or cancelled,
and a script that is there without `ready` means it was cancelled (`Awaited`).

`LinkViewsProofs` takes one invariant per property, each with lemmas on what `Fetch`,
`Mount` and `Invalidate` do to it, so that a step's proof is about the one query it
changes. `NoOthersData`: while the page knows of the cookie, requests in flight and data
were sent for its account (`CachedMine`), which holds because the change of session that
the page is told of drops both. `BlankPageExplained`: an observed query has data, an error
or a request, and an error without data no request behind it (`QueriesShow`); the pages'
branches then cover every case but the one of a paused request. `AcknowledgedEditsShow` is
inductive query by query. `DeletionStays`
needs a history: of any two things the server has said about the row - the row itself,
served edits, answers on their way, the newest acknowledged - a newer one is not less
deleted (`History`), so an answer that is not `late` reports the deletion too.

`GeneratorProofs` proves the three invariants of `Generator` that hold from one inductive
invariant, which says what a create still has in common with the page, stage by stage:
the pending one its look, and it is the newest (`Submissions`); one that is being drawn
the preview, unless disturbed (`Drawing`); and what the server has of it (`Storing`).

Model-checked only: liveness (`RequestsComplete`, `FrontIsSwept`, `LoadingEnds`), which
needs reasoning about ENABLED that the prover does not have, and the five findings, which
are counterexamples.

## 5. Findings

1. **A deleted Link can redirect for a TTL.** A redirect that misses reads the row,
   a DELETE commits and evicts, the redirect stores what it read. The comment in
   `router.py` has "the very next redirect returns 410". `link_deleted_served`.
2. **A deleted Link can be patched.** PATCH checks an object it read before a DELETE
   committed. ADR 0001 has 410 for deleted Links. The deletion itself survives, as
   the flush writes changed columns only: this is part of `ImplementsRegistry`.
   `link_patch_deleted`.
3. **Retry-After may be too short.** With both windows exhausted it speaks of the
   hourly one. `limiter_retry_after`.
4. **A quick save loses the logo.** The save button is enabled while the panel
   fetches the existing logo. `customization_kept_logo`.
5. **A look changed after the create does not come back.** It goes to local storage, from
   where nobody reads it; ADR 0011 calls storage in one browser wrong and has the look come
   back "exactly as they made it". `generator_look`.

Noticed while modelling, without a run of their own. Some are the named causes of a
property, which says that nothing else happens:

* What you saw need not be what is saved: the recipe is the one of the click, the picture
  the one of the preview when it is drawn, and the controls work in between. The comment
  has "what you see is what saves" (`WhatYouSeeIsSaved`, whose exception is a picture that
  is not of the form clicked).
* A late GET /me names the account of before. Nothing cancels one that is under way when a
  sign-in or sign-out succeeds, its answer overwrites the account that was set, and it
  never goes stale (`MeAnswered`). Two sign-ins whose answers come in the other order do
  the same.
* The next user need not start clean: a PATCH answered after a sign-out writes the previous
  account's Link back into the cache that `useAuth.ts` has emptied
  (`OthersDataIsALateEdit`).
* An overtaken answer is taken for fresh: a first load from before an edit survives the
  invalidation, and two PATCHes may be answered in the other order
  (`AcknowledgedIsShown`, `late`).
* A page opened offline is blank: a paused query has no data, no error and is not loading,
  and no branch of either page is for that (`BlankOnlyWhilePaused`).
* A full local storage loses the look without a word: `persistSetStyle` throws before the
  look is sent and outside the `try` that has a toast for a failed save
  (`AnnounceThrows`; also a way to violate `LookComesBack`).
* The stored picture may lead elsewhere: reset, or a second create, while the picture is
  being drawn, and the Link is served with a code of the placeholder or of another Link
  (`SavedAsSubmitted`, `disturbed`).
* Two overlapping DELETEs both write `deleted_at`; `LinkRegistry`'s `Retire` allows
  it. `tests/test_link_repository.py` tests the sequential case only.
* The sweep starts at the front of the dict each time, and keys in use keep their
  place, so expired entries behind `_SWEEP_SIZE` active ones stay. `FrontIsSwept`
  promises no more than the code does.
* ADR 0011 and comments have superseded composites "reaped by lifecycle rule"; the
  documented rule removes noncurrent versions of a key, while each save uses a new
  key and nothing calls `delete`.
* PUT of a customization does not look at the Link's state: a deleted Link can be
  restyled.
* `loadGoogleScript` resolves at once when it finds the script's tag, loaded or not, and a
  cancelled hook run does not set `ready`: a visitor who signs in and out again while the
  script loads is left without a button (`UnpaintedExplained`).
* A create whose answer is lost and that is submitted again mints two Links: nothing
  identifies the first attempt (`Mint` followed by `CreateFails`).
* The analytics count days in UTC and the chart of `LinkDetail.tsx` labels them with the
  visitor's dates.
* `scan_derivation.py` marks its GeoIP reader as tried before it is open: a thread that
  comes in between derives no country for its Scan.
* A paused edit is sent with the cookie of the moment the network is back, whoever is
  signed in by then (`EditGoesOn`); the server refuses it unless that is the owner.

## 6. Not modelled

Pure functions and presentation (URL validation, QR rendering, user-agent parsing,
response formats, validation messages, layout, charts, downloads), read-only handlers,
migrations, start-up checks and deploy scripts have no interleaving of interest. The
server keeps no sign-in state: a session is a signed cookie, `upsert_user` one
statement. Several worker processes, for which neither cache nor limiter is made, are
out of scope of the code and of the models. Float rounding in the limiter is abstracted
to exact fractions. SQL isolation is modelled as PostgreSQL's READ COMMITTED: a
statement sees what is committed, an UPDATE by primary key overwrites.

Of the browser: a second tab, which shares the cookie and local storage; the trash list,
which obeys the same key prefix as the list; the analytics query, which only reads; the
opening and closing of forms; that a create invalidates the list; React's development
mode, which runs effects twice. The page is assumed to be opened online, and of
react-query are left out that a retry also waits while the window is hidden, that a request
nobody observes any more gives up its retries, and that paused mutations are resumed before
queries (here in any order). Of the middleware of the limiter, the branches
that let a request through unchecked (another route, switched off, nobody to charge, an
error of the limiter) change nothing and are no actions. In `Generator` every file chosen is a logo or refused,
the logo's scale, the expiry and the label are data that no property tells apart, and
the cookie is the backend's business: a refused create is `CreateFails`.

Demo seeding is a one-off deploy step of registry operations, and the harness under
`.harness/` a development tool beside the product; `PROJECT.json` lists their hazards.

## 7. Plan

Done, in this order: `LinkState`, `LinkService` and its runs, `LinkRegistry`,
`LinkStaleness`, `RateLimiter`, `Quota`, `QuotaWindow`, the proofs of
`LinkService` and `QuotaWindow`, `Customization`, `CustomizationEditor`, their
proofs, `Session`, `SignIn`, `LinkViews`, `Generator` and their proofs, the proofs of
`LinkStaleness` and `RateLimiter`.

What remains worth doing, by importance:

1. `IssueLock`: the harness's lock files with stale takeover, `-Force`, traps and
   cleanup; abstract mutual exclusion, checked against two and three processes.
2. `DemoSeed`: crash and rerun of the seeding on top of the registry.
3. Proofs: the safety half of `FrontIsSwept` (an expired entry among the first stays
   there until a request drops it); `WindowBound` for `RateLimiter` itself, a stop watch
   carried through its refinement of `Quota`.
4. Two tabs over one cookie and one local storage.
5. Breadth. The definitions stand for nearly half of the browser's TypeScript and for
   the stateful half of the backend. The largest part with control of its own that is
   left is the issue loop of `.harness/run.ps1` (claim, worktree, heartbeat, retry,
   cleanup).
