-------------------------- MODULE LinkServiceProofs --------------------------
(***************************************************************************)
(* Theorems about LinkService, for every value of its constants.           *)
(***************************************************************************)
EXTENDS LinkService, FiniteSetTheorems, TLAPS

USE LinkStateAssumption, LinkServiceAssumption

(***************************************************************************)
(* Types.                                                                  *)
(***************************************************************************)

(* What get_or_load keeps of a row is a snapshot. *)
LEMMA SnapshotType ==
  ASSUME NEW link \in Link
  PROVE  SnapshotOf(link) \in LinkSnapshot
BY DEF Link, LinkSnapshot, SnapshotOf

(* A flush leaves a row behind, and never changes its owner. *)
LEMMA FlushType ==
  ASSUME NEW row \in Link, NEW loaded \in Link, NEW dirty \in Link
  PROVE  /\ Flush(row, loaded, dirty) \in Link
         /\ Flush(row, loaded, dirty).owner = row.owner
BY DEF Link, Flush

(* A worker with nothing to do holds nothing that it should not. *)
LEMMA IdleType == Idle \in Request /\ HoldsOK(Idle)
BY DEF Idle, Request, HoldsOK, HasToken, HasSnapshot, Mutates, Creates

(* A step of one worker to a well-typed request keeps all of them so. *)
LEMMA RequestStep ==
  ASSUME RequestsOK, NEW w \in Workers, NEW r \in Request, HoldsOK(r),
         thread' = [thread EXCEPT ![w] = r]
  PROVE  RequestsOK'
<1>1. thread' \in [Workers -> Request]
  BY DEF RequestsOK
<1>2. ASSUME NEW v \in Workers PROVE HoldsOK(thread'[v])
  <2>1. CASE v = w
    BY <2>1 DEF RequestsOK
  <2>2. CASE v # w
    BY <2>2 DEF RequestsOK
  <2> QED BY <2>1, <2>2
<1> QED BY <1>1, <1>2 DEF RequestsOK, HoldsOK

(* The answer that ends a request. *)
LEMMA FinishStep ==
  ASSUME RequestsOK, NEW w \in Workers, Finish(w)
  PROVE  RequestsOK'
BY RequestStep, IdleType DEF Finish

(* A commit leaves every row a row. *)
LEMMA CommitType ==
  ASSUME StoresOK, NEW w \in Workers, CommitRow(w), thread[w].token \in Tokens,
         links[thread[w].token] # Null, thread[w].loaded \in Link, thread[w].link \in Link
  PROVE  links' \in [Tokens -> Link \cup {Null}]
BY FlushType DEF CommitRow, StoresOK

(* Every action keeps the types: a commit only because the row that its
   session loaded is still there. *)
LEMMA TypeStep ==
  ASSUME TypeOK, KnownTokensOnly, [Next]_vars
  PROVE  TypeOK'
<1> USE DEF TypeOK
<1>1. ASSUME NEW w \in Workers, NEW t \in Tokens, RedirectHit(w, t) PROVE TypeOK'
  <2> DEFINE r == [Idle EXCEPT !.pc = "answer", !.token = t, !.snapshot = cache[t].snapshot]
  <2>1. cache[t].snapshot \in LinkSnapshot
    BY <1>1 DEF RedirectHit, Live, StoresOK, Entry
  <2>2. r \in Request
    BY <1>1, IdleType, <2>1 DEF Request
  <2>3. HoldsOK(r)
    BY <1>1, <2>1 DEF Idle, HoldsOK, HasToken, HasSnapshot, Mutates, Creates
  <2>4. RequestsOK'
    BY <1>1, <2>2, <2>3, RequestStep DEF RedirectHit, Begin
  <2> QED BY <1>1, <2>4 DEF RedirectHit, StoresOK, ledger, history
<1>2. ASSUME NEW w \in Workers, NEW t \in Tokens, RedirectMiss(w, t) PROVE TypeOK'
  <2> DEFINE r == [Idle EXCEPT !.pc = "load", !.token = t]
  <2>1. r \in Request
    BY <1>2, IdleType DEF Request
  <2>2. HoldsOK(r)
    BY <1>2 DEF Idle, HoldsOK, HasToken, HasSnapshot, Mutates, Creates
  <2>3. RequestsOK'
    BY <1>2, <2>1, <2>2, RequestStep DEF RedirectMiss, Begin
  <2> QED BY <1>2, <2>3 DEF RedirectMiss, StoresOK, ledger, history
<1>3. ASSUME NEW w \in Workers, Load(w) PROVE TypeOK'
  <2> DEFINE r == [thread[w] EXCEPT !.pc = "store", !.snapshot = SnapshotOf(links[thread[w].token])]
  <2>1. thread[w] \in Request /\ HoldsOK(thread[w])
    BY DEF RequestsOK
  <2>2. thread[w].token \in Tokens
    BY <1>3, <2>1 DEF Load, At, HoldsOK, HasToken
  <2>3. SnapshotOf(links[thread[w].token]) \in LinkSnapshot
    BY <1>3, <2>2, SnapshotType DEF Load, StoresOK
  <2>4. r \in Request
    BY <1>3, <2>1, <2>2, <2>3 DEF Request
  <2>5. HoldsOK(r)
    BY <1>3, <2>1, <2>2, <2>3 DEF Load, At, Request, HoldsOK, HasToken, HasSnapshot, Mutates, Creates
  <2>6. RequestsOK'
    BY <1>3, <2>4, <2>5, RequestStep DEF Load, Goto
  <2> QED BY <1>3, <2>6 DEF Load, StoresOK, ledger, history
<1>4. ASSUME NEW w \in Workers, LoadUnknown(w) PROVE TypeOK'
  <2>1. RequestsOK'
    BY <1>4, FinishStep DEF LoadUnknown
  <2>2. StoresOK'
    BY <1>4 DEF LoadUnknown, StoresOK, ledger, history
  <2> QED BY <2>1, <2>2
<1>5. ASSUME NEW w \in Workers, StoreLoses(w) PROVE TypeOK'
  <2> DEFINE r == [thread[w] EXCEPT !.pc = "answer", !.snapshot = cache[thread[w].token].snapshot]
  <2>1. thread[w] \in Request /\ HoldsOK(thread[w])
    BY DEF RequestsOK
  <2>2. thread[w].token \in Tokens
    BY <1>5, <2>1 DEF StoreLoses, At, HoldsOK, HasToken
  <2>3. cache[thread[w].token].snapshot \in LinkSnapshot
    BY <1>5, <2>2 DEF StoreLoses, Live, StoresOK, Entry
  <2>4. r \in Request
    BY <1>5, <2>1, <2>2, <2>3 DEF Request
  <2>5. HoldsOK(r)
    BY <1>5, <2>1, <2>2, <2>3 DEF StoreLoses, At, Request, HoldsOK, HasToken, HasSnapshot, Mutates, Creates
  <2>6. RequestsOK'
    BY <1>5, <2>4, <2>5, RequestStep DEF StoreLoses, Goto
  <2> QED BY <1>5, <2>6 DEF StoreLoses, StoresOK, ledger, history
<1>6. ASSUME NEW w \in Workers, StoreWins(w) PROVE TypeOK'
  <2> DEFINE r == [thread[w] EXCEPT !.pc = "answer"]
  <2>1. thread[w] \in Request /\ HoldsOK(thread[w])
    BY DEF RequestsOK
  <2>2. r \in Request
    BY <1>6, <2>1 DEF Request
  <2>3. HoldsOK(r)
    BY <1>6, <2>1 DEF StoreWins, At, Request, HoldsOK, HasToken, HasSnapshot, Mutates, Creates
  <2>4. RequestsOK'
    BY <1>6, <2>2, <2>3, RequestStep DEF StoreWins, Goto
  <2>5. StoresOK'
    <3>1. thread[w].token \in Tokens /\ thread[w].snapshot \in LinkSnapshot
      BY <1>6, <2>1 DEF StoreWins, At, HoldsOK, HasToken, HasSnapshot
    <3>2. [snapshot |-> thread[w].snapshot, until |-> now + Ttl] \in Entry
      BY <3>1 DEF Entry, StoresOK
    <3>3. cache' \in [Tokens -> Entry \cup {Null}]
      BY <1>6, <3>2 DEF StoreWins, StoresOK
    <3> QED BY <1>6, <3>1, <3>3 DEF StoreWins, StoresOK, ledger
  <2> QED BY <2>4, <2>5
<1>7. ASSUME NEW w \in Workers, Answer302(w) PROVE TypeOK'
  <2>1. RequestsOK'
    BY <1>7, FinishStep DEF Answer302
  <2>2. StoresOK'
    <3>1. thread[w].token \in Tokens
      BY <1>7 DEF Answer302, At, RequestsOK, HoldsOK, HasToken
    <3> QED BY <1>7, <3>1 DEF Answer302, StoresOK, ledger, history
  <2> QED BY <2>1, <2>2
<1>8. ASSUME NEW w \in Workers, Scan410(w) PROVE TypeOK'
  <2> DEFINE r == [thread[w] EXCEPT !.pc = "gone"]
  <2>1. thread[w] \in Request /\ HoldsOK(thread[w])
    BY DEF RequestsOK
  <2>2. r \in Request
    BY <1>8, <2>1 DEF Request
  <2>3. HoldsOK(r)
    BY <1>8, <2>1 DEF Scan410, At, Request, HoldsOK, HasToken, HasSnapshot, Mutates, Creates
  <2>4. RequestsOK'
    BY <1>8, <2>2, <2>3, RequestStep DEF Scan410, Goto
  <2>5. StoresOK'
    <3>1. thread[w].token \in Tokens
      BY <1>8, <2>1 DEF Scan410, At, HoldsOK, HasToken
    <3> QED BY <1>8, <3>1 DEF Scan410, StoresOK, history
  <2> QED BY <2>4, <2>5
<1>9. ASSUME NEW w \in Workers, Answer410(w) PROVE TypeOK'
  <2>1. RequestsOK'
    BY <1>9, FinishStep DEF Answer410
  <2>2. StoresOK'
    <3>1. thread[w].token \in Tokens
      BY <1>9 DEF Answer410, At, RequestsOK, HoldsOK, HasToken
    <3> QED BY <1>9, <3>1 DEF Answer410, StoresOK, ledger, history
  <2> QED BY <2>1, <2>2
<1>10. ASSUME NEW t \in Tokens, WriteScan(t) PROVE TypeOK'
  <2>1. RequestsOK'
    BY <1>10 DEF WriteScan, RequestsOK, HoldsOK
  <2>2. StoresOK'
    BY <1>10 DEF WriteScan, StoresOK, history
  <2> QED BY <2>1, <2>2
<1>11. ASSUME NEW w \in Workers, NEW t \in Tokens, NEW u \in Users, NEW url \in Urls, NEW expires \in Expiries, PatchLoad(w, t, u, url, expires) PROVE TypeOK'
  <2> DEFINE r == [Idle EXCEPT !.pc = "patch", !.token = t, !.user = u, !.loaded = links[t],
                            !.link = [links[t] EXCEPT !.url = url, !.expires = expires]]
  <2>1. links[t] \in Link
    BY <1>11 DEF PatchLoad, StoresOK
  <2>2. [links[t] EXCEPT !.url = url, !.expires = expires] \in Link
    BY <2>1 DEF Link
  <2>3. r \in Request
    BY <1>11, IdleType, <2>1, <2>2 DEF Request
  <2>4. HoldsOK(r)
    BY <1>11, <2>1, <2>2 DEF Idle, HoldsOK, HasToken, HasSnapshot, Mutates, Creates
  <2>5. RequestsOK'
    BY <1>11, <2>3, <2>4, RequestStep DEF PatchLoad, Begin
  <2> QED BY <1>11, <2>5 DEF PatchLoad, StoresOK, ledger, history
<1>12. ASSUME NEW w \in Workers, NEW t \in Tokens, NEW u \in Users, DeleteLoad(w, t, u) PROVE TypeOK'
  <2> DEFINE r == [Idle EXCEPT !.pc = IF links[t].deleted = Null THEN "delete" ELSE "evict",
                            !.token = t, !.user = u, !.loaded = links[t],
                            !.link = IF links[t].deleted = Null
                                       THEN [links[t] EXCEPT !.deleted = now]
                                       ELSE links[t]]
  <2>1. links[t] \in Link
    BY <1>12 DEF DeleteLoad, StoresOK
  <2>2. [links[t] EXCEPT !.deleted = now] \in Link
    BY <2>1 DEF Link, OptionalInstant, StoresOK
  <2>3. r \in Request
    BY <1>12, IdleType, <2>1, <2>2 DEF Request
  <2>4. HoldsOK(r)
    BY <1>12, <2>1, <2>2 DEF Idle, HoldsOK, HasToken, HasSnapshot, Mutates, Creates
  <2>5. RequestsOK'
    BY <1>12, <2>3, <2>4, RequestStep DEF DeleteLoad, Begin
  <2> QED BY <1>12, <2>5 DEF DeleteLoad, StoresOK, ledger, history
<1>13. ASSUME NEW w \in Workers, PatchCommit(w) PROVE TypeOK'
  <2> DEFINE r == [thread[w] EXCEPT !.pc = "refresh"]
  <2>1. thread[w] \in Request /\ HoldsOK(thread[w])
    BY DEF RequestsOK
  <2>2. r \in Request
    BY <1>13, <2>1 DEF Request
  <2>3. HoldsOK(r)
    BY <1>13, <2>1 DEF PatchCommit, At, Request, HoldsOK, HasToken, HasSnapshot, Mutates, Creates
  <2>4. RequestsOK'
    BY <1>13, <2>2, <2>3, RequestStep DEF PatchCommit, Goto
  <2>5. StoresOK'
    <3>1. thread[w].token \in Tokens /\ thread[w].loaded \in Link /\ thread[w].link \in Link
      BY <1>13, <2>1 DEF PatchCommit, At, HoldsOK, HasToken, Mutates
    <3>2. links[thread[w].token] # Null
      BY <1>13 DEF PatchCommit, At, KnownTokensOnly, Mutates
    <3> QED BY <1>13, <3>1, <3>2, CommitType DEF PatchCommit, StoresOK, ledger, history
  <2> QED BY <2>4, <2>5
<1>14. ASSUME NEW w \in Workers, PatchRefresh(w) PROVE TypeOK'
  <2> DEFINE r == [thread[w] EXCEPT !.pc = "evict"]
  <2>1. thread[w] \in Request /\ HoldsOK(thread[w])
    BY DEF RequestsOK
  <2>2. r \in Request
    BY <1>14, <2>1 DEF Request
  <2>3. HoldsOK(r)
    BY <1>14, <2>1 DEF PatchRefresh, At, Request, HoldsOK, HasToken, HasSnapshot, Mutates, Creates
  <2>4. RequestsOK'
    BY <1>14, <2>2, <2>3, RequestStep DEF PatchRefresh, Goto
  <2> QED BY <1>14, <2>4 DEF PatchRefresh, StoresOK, ledger, history
<1>15. ASSUME NEW w \in Workers, DeleteCommit(w) PROVE TypeOK'
  <2> DEFINE r == [thread[w] EXCEPT !.pc = "evict"]
  <2>1. thread[w] \in Request /\ HoldsOK(thread[w])
    BY DEF RequestsOK
  <2>2. r \in Request
    BY <1>15, <2>1 DEF Request
  <2>3. HoldsOK(r)
    BY <1>15, <2>1 DEF DeleteCommit, At, Request, HoldsOK, HasToken, HasSnapshot, Mutates, Creates
  <2>4. RequestsOK'
    BY <1>15, <2>2, <2>3, RequestStep DEF DeleteCommit, Goto
  <2>5. StoresOK'
    <3>1. thread[w].token \in Tokens /\ thread[w].loaded \in Link /\ thread[w].link \in Link
      BY <1>15, <2>1 DEF DeleteCommit, At, HoldsOK, HasToken, Mutates
    <3>2. links[thread[w].token] # Null
      BY <1>15 DEF DeleteCommit, At, KnownTokensOnly, Mutates
    <3> QED BY <1>15, <3>1, <3>2, CommitType DEF DeleteCommit, StoresOK, ledger, history
  <2> QED BY <2>4, <2>5
<1>16. ASSUME NEW w \in Workers, Evict(w) PROVE TypeOK'
  <2>1. RequestsOK'
    BY <1>16, FinishStep DEF Evict
  <2>2. StoresOK'
    <3>1. thread[w].token \in Tokens
      BY <1>16 DEF Evict, At, RequestsOK, HoldsOK, HasToken
    <3> QED BY <1>16, <3>1 DEF Evict, StoresOK, ledger, history, Fills
  <2> QED BY <2>1, <2>2
<1>17. ASSUME NEW w \in Workers, NEW u \in Users, NEW url \in Urls, NEW expires \in Expiries, CreateBegin(w, u, url, expires) PROVE TypeOK'
  <2> DEFINE r == [Idle EXCEPT !.pc = "mint", !.user = u,
                            !.link = [owner |-> u, url |-> url, expires |-> expires, deleted |-> Null]]
  <2>1. [owner |-> u, url |-> url, expires |-> expires, deleted |-> Null] \in Link
    BY DEF Link, OptionalInstant
  <2>2. r \in Request
    BY <1>17, IdleType, <2>1 DEF Request
  <2>3. HoldsOK(r)
    BY <1>17, <2>1 DEF Idle, HoldsOK, HasToken, HasSnapshot, Mutates, Creates
  <2>4. RequestsOK'
    BY <1>17, <2>2, <2>3, RequestStep DEF CreateBegin, Begin
  <2> QED BY <1>17, <2>4 DEF CreateBegin, StoresOK, ledger, history
<1>18. ASSUME NEW w \in Workers, NEW t \in Tokens, TryInsert(w, t) PROVE TypeOK'
  <2>1. thread[w] \in Request /\ HoldsOK(thread[w])
    BY DEF RequestsOK
  <2>2. CASE links[t] = Null
    <3> DEFINE r == [thread[w] EXCEPT !.pc = "insert", !.token = t]
    <3>1. r \in Request
      BY <2>1 DEF Request
    <3>2. HoldsOK(r)
      BY <1>18, <2>1 DEF TryInsert, At, Request, HoldsOK, HasToken, HasSnapshot, Mutates, Creates
    <3>3. thread' = [thread EXCEPT ![w] = r]
      BY <1>18, <2>2 DEF TryInsert
    <3> QED BY <1>18, <3>1, <3>2, <3>3, RequestStep DEF TryInsert, StoresOK, ledger, history
  <2>3. CASE links[t] # Null
    <3> DEFINE r == [thread[w] EXCEPT !.tries = @ + 1]
    <3>1. r \in Request
      BY <1>18, <2>1 DEF TryInsert, Request
    <3>2. HoldsOK(r)
      BY <1>18, <2>1 DEF TryInsert, At, Request, HoldsOK, HasToken, HasSnapshot, Mutates, Creates
    <3>3. thread' = [thread EXCEPT ![w] = r]
      BY <1>18, <2>3 DEF TryInsert
    <3> QED BY <1>18, <3>1, <3>2, <3>3, RequestStep DEF TryInsert, StoresOK, ledger, history
  <2> QED BY <2>2, <2>3
<1>19. ASSUME NEW w \in Workers, CreateGivesUp(w) PROVE TypeOK'
  <2>1. RequestsOK'
    BY <1>19, FinishStep DEF CreateGivesUp
  <2>2. StoresOK'
    BY <1>19 DEF CreateGivesUp, StoresOK, ledger, history
  <2> QED BY <2>1, <2>2
<1>20. ASSUME NEW w \in Workers, CreateCommit(w) PROVE TypeOK'
  <2>1. RequestsOK'
    BY <1>20, FinishStep DEF CreateCommit
  <2>2. StoresOK'
    <3>1. thread[w].token \in Tokens /\ thread[w].link \in Link
      BY <1>20 DEF CreateCommit, At, RequestsOK, HoldsOK, HasToken, Creates
    <3> QED BY <1>20, <3>1 DEF CreateCommit, StoresOK, ledger, history
  <2> QED BY <2>1, <2>2
<1>21. ASSUME NEW w \in Workers, StatementFails(w) PROVE TypeOK'
  <2>1. RequestsOK'
    BY <1>21, FinishStep DEF StatementFails
  <2>2. StoresOK'
    BY <1>21 DEF StatementFails, StoresOK, ledger, history
  <2> QED BY <2>1, <2>2
<1>22. ASSUME NEW w \in Workers, RefreshFails(w) PROVE TypeOK'
  <2>1. RequestsOK'
    BY <1>22, FinishStep DEF RefreshFails
  <2>2. StoresOK'
    <3>1. thread[w].token \in Tokens
      BY <1>22 DEF RefreshFails, At, RequestsOK, HoldsOK, HasToken
    <3> QED BY <1>22, <3>1 DEF RefreshFails, EvictionSkipped, Fills, StoresOK, ledger
  <2> QED BY <2>1, <2>2
<1>23. ASSUME NEW w \in Workers, CommitUnacknowledged(w) PROVE TypeOK'
  <2>1. RequestsOK'
    BY <1>23, FinishStep DEF CommitUnacknowledged
  <2>2. StoresOK'
    <3>1. thread[w].token \in Tokens /\ thread[w].loaded \in Link /\ thread[w].link \in Link
      BY <1>23 DEF CommitUnacknowledged, RequestsOK, HoldsOK, HasToken, Mutates
    <3>2. links[thread[w].token] # Null
      BY <1>23 DEF CommitUnacknowledged, KnownTokensOnly, Mutates
    <3> QED BY <1>23, <3>1, <3>2, CommitType DEF CommitUnacknowledged, EvictionSkipped, Fills, StoresOK, ledger
  <2> QED BY <2>1, <2>2
<1>24. ASSUME NEW t \in Tokens, ScanLost(t) PROVE TypeOK'
  <2>1. RequestsOK'
    BY <1>24 DEF ScanLost, RequestsOK, HoldsOK
  <2>2. StoresOK'
    BY <1>24 DEF ScanLost, StoresOK, history
  <2> QED BY <2>1, <2>2
<1>25. ASSUME Crash PROVE TypeOK'
  <2>1. RequestsOK'
    BY <1>25, IdleType DEF Crash, RequestsOK, HoldsOK
  <2>2. StoresOK'
    BY <1>25 DEF Crash, StoresOK
  <2> QED BY <2>1, <2>2
<1>26. ASSUME Tick PROVE TypeOK'
  <2>1. RequestsOK'
    BY <1>26 DEF Tick, RequestsOK, HoldsOK
  <2>2. StoresOK'
    BY <1>26 DEF Tick, StoresOK, ledger, history
  <2> QED BY <2>1, <2>2
<1>27. ASSUME UNCHANGED vars PROVE TypeOK'
  BY <1>27 DEF vars, ledger, history, RequestsOK, HoldsOK, StoresOK
<1> QED BY <1>1, <1>2, <1>3, <1>4, <1>5, <1>6, <1>7, <1>8, <1>9, <1>10, <1>11, <1>12, <1>13, <1>14, <1>15, <1>16, <1>17, <1>18, <1>19, <1>20, <1>21, <1>22, <1>23, <1>24, <1>25, <1>26, <1>27
      DEF Next, Arrive, Continue, Fail

(***************************************************************************)
(* Who does what, in any step.                                             *)
(***************************************************************************)

(* Table links is written by the commits alone. *)
LEMMA WhoWrites ==
  ASSUME [Next]_vars
  PROVE  \/ links' = links
         \/ \E w \in Workers : thread[w].pc \in {"patch", "delete"} /\ CommitRow(w)
         \/ \E w \in Workers : CreateCommit(w)
BY ZenonT(40) DEF Next, vars, Arrive, Continue, Fail, RedirectHit, RedirectMiss, Load, LoadUnknown,
       StoreLoses, StoreWins, Answer302, Scan410, Answer410, WriteScan, PatchLoad,
       DeleteLoad, PatchCommit, PatchRefresh, DeleteCommit, Evict, CreateBegin,
       TryInsert, CreateGivesUp, StatementFails, RefreshFails, CommitUnacknowledged,
       ScanLost, Crash, Tick, At

(* A worker's step leaves the others where they are. *)
LEMMA OneWorker ==
  ASSUME RequestsOK, NEW w \in Workers, Arrive(w) \/ Continue(w) \/ Fail(w),
         NEW v \in Workers \ {w}
  PROVE  thread'[v] = thread[v]
<1> USE DEF RequestsOK, Begin, Goto, Finish
<1>1. CASE Arrive(w)
  BY <1>1 DEF Arrive, RedirectHit, RedirectMiss, PatchLoad, DeleteLoad, CreateBegin
<1>2. CASE Continue(w)
  <2>1. CASE \E t \in Tokens : TryInsert(w, t)
    BY <2>1 DEF TryInsert
  <2>2. CASE ~ \E t \in Tokens : TryInsert(w, t)
    BY <1>2, <2>2 DEF Continue, Load, LoadUnknown, StoreLoses, StoreWins, Answer302,
         Scan410, Answer410, PatchCommit, PatchRefresh, DeleteCommit, Evict,
         CreateGivesUp, CreateCommit
  <2> QED BY <2>1, <2>2
<1>3. CASE Fail(w)
  BY <1>3 DEF Fail, StatementFails, RefreshFails, CommitUnacknowledged
<1> QED BY <1>1, <1>2, <1>3

(* A row that exists keeps existing, and keeps its owner. *)
LEMMA RowsStay ==
  ASSUME TypeOK, KnownTokensOnly, MintsAreDistinct, [Next]_vars,
         NEW t \in Tokens, links[t] # Null
  PROVE  links'[t] # Null /\ links'[t].owner = links[t].owner
<1> USE DEF TypeOK
<1>1. CASE links' = links
  BY <1>1
<1>2. ASSUME NEW w \in Workers, thread[w].pc \in {"patch", "delete"}, CommitRow(w)
      PROVE  links'[t] # Null /\ links'[t].owner = links[t].owner
  <2>1. thread[w].token \in Tokens /\ thread[w].loaded \in Link /\ thread[w].link \in Link
    BY <1>2 DEF RequestsOK, HoldsOK, HasToken, Mutates
  <2>2. links[t] \in Link
    BY DEF StoresOK
  <2>3. CASE thread[w].token = t
    <3>1. links'[t] = Flush(links[t], thread[w].loaded, thread[w].link)
      BY <1>2, <2>3 DEF CommitRow, StoresOK
    <3> QED BY <2>1, <2>2, <3>1, FlushType
  <2>4. CASE thread[w].token # t
    BY <1>2, <2>4 DEF CommitRow, StoresOK
  <2> QED BY <2>3, <2>4
<1>3. ASSUME NEW w \in Workers, CreateCommit(w)
      PROVE  links'[t] # Null /\ links'[t].owner = links[t].owner
  BY <1>3 DEF CreateCommit, MintsAreDistinct, StoresOK
<1> QED BY <1>1, <1>2, <1>3, WhoWrites

(* The cache is filled by StoreWins alone. *)
LEMMA WhoCaches ==
  ASSUME StoresOK, [Next]_vars, NEW t \in Tokens
  PROVE  \/ cache'[t] \in {cache[t], Null}
         \/ \E w \in Workers : StoreWins(w) /\ thread[w].token = t
<1>1. ASSUME NEW w \in Workers, StoreWins(w), thread[w].token # t
      PROVE  cache'[t] \in {cache[t], Null}
  BY <1>1 DEF StoreWins
<1>2. CASE \E w \in Workers : StoreWins(w)
  BY <1>1, <1>2
<1>3. CASE cache' = cache
  BY <1>3
<1>4. CASE \E w \in Workers : Evict(w)
  BY <1>4 DEF Evict, StoresOK
<1>5. CASE Crash
  BY <1>5 DEF Crash
<1> QED BY <1>2, <1>3, <1>4, <1>5, ZenonT(40)
    DEF Next, vars, Arrive, Continue, Fail, RedirectHit, RedirectMiss, Load, LoadUnknown,
        StoreLoses, Answer302, Scan410, Answer410, WriteScan, PatchLoad, DeleteLoad,
        PatchCommit, PatchRefresh, DeleteCommit, CreateBegin, CreateCommit, TryInsert,
        CreateGivesUp, StatementFails, RefreshFails, CommitUnacknowledged, ScanLost, Tick

(* A 302 alone leaves a task behind, and a Scan row comes from a task or   *)
(* from a request that is answered 410.                                    *)
LEMMA WhoScans ==
  ASSUME StoresOK, [Next]_vars, NEW t \in Tokens
  PROVE  \/ /\ tasks'[t] <= tasks[t]
            /\ scans'[t] = scans[t]
         \/ tasks[t] > 0
         \/ \E w \in Workers : At(w, "answer") /\ thread[w].token = t
<1> USE DEF StoresOK
<1>1. CASE \E w \in Workers : Answer302(w)
  BY <1>1 DEF Answer302
<1>2. CASE \E w \in Workers : Scan410(w)
  BY <1>2 DEF Scan410
<1>3. CASE \E o \in Tokens : WriteScan(o) \/ ScanLost(o)
  BY <1>3 DEF WriteScan, ScanLost
<1>4. CASE Crash
  BY <1>4 DEF Crash
<1>5. CASE UNCHANGED ledger
  BY <1>5 DEF ledger
<1>6. CASE \E w \in Workers : Answer410(w)
  BY <1>6 DEF Answer410
<1> QED BY <1>1, <1>2, <1>3, <1>4, <1>5, <1>6, ZenonT(40)
    DEF Next, vars, Arrive, Continue, Fail, RedirectHit, RedirectMiss, Load, LoadUnknown,
        StoreLoses, StoreWins, PatchLoad, DeleteLoad, PatchCommit, PatchRefresh,
        DeleteCommit, Evict, CreateBegin, CreateCommit, TryInsert, CreateGivesUp,
        StatementFails, RefreshFails, CommitUnacknowledged, Tick, ledger

(* What may happen to a worker in a step. *)
LEMMA WorkerCases ==
  ASSUME RequestsOK, [Next]_vars, NEW w \in Workers
  PROVE  \/ thread'[w] = thread[w]
         \/ Arrive(w)
         \/ Continue(w)
         \/ thread'[w] = Idle
<1>1. ASSUME NEW v \in Workers \ {w}, Arrive(v) \/ Continue(v) \/ Fail(v)
      PROVE  thread'[w] = thread[w]
  BY <1>1, OneWorker
<1>2. CASE Fail(w)
  BY <1>2 DEF Fail, StatementFails, RefreshFails, CommitUnacknowledged, Finish, RequestsOK
<1>3. CASE Crash
  BY <1>3 DEF Crash
<1> QED BY <1>1, <1>2, <1>3 DEF Next, vars, WriteScan, ScanLost, Tick

(* A worker that looked its token up, found it. *)
LEMMA LookedUp ==
  ASSUME TypeOK, KnownTokensOnly, [Next]_vars, NEW w \in Workers,
         thread'[w].pc \in HasSnapshot \cup Mutates
  PROVE  links[thread'[w].token] # Null
<1> USE DEF TypeOK, RequestsOK, Request, Begin, Goto, Finish, Idle, HasSnapshot, Mutates
<1>1. CASE thread'[w] = thread[w]
  BY <1>1 DEF KnownTokensOnly
<1>2. CASE Arrive(w)
  <2>1. ASSUME NEW t \in Tokens, RedirectHit(w, t) PROVE links[thread'[w].token] # Null
    BY <2>1 DEF RedirectHit, Live, KnownTokensOnly
  <2>2. ASSUME NEW t \in Tokens, RedirectMiss(w, t) PROVE FALSE
    BY <2>2 DEF RedirectMiss
  <2>3. ASSUME NEW t \in Tokens, NEW u \in Users, NEW url \in Urls, NEW expires \in Expiries,
               PatchLoad(w, t, u, url, expires)
        PROVE  links[thread'[w].token] # Null
    BY <2>3 DEF PatchLoad
  <2>4. ASSUME NEW t \in Tokens, NEW u \in Users, DeleteLoad(w, t, u)
        PROVE  links[thread'[w].token] # Null
    BY <2>4 DEF DeleteLoad
  <2>5. ASSUME NEW u \in Users, NEW url \in Urls, NEW expires \in Expiries,
               CreateBegin(w, u, url, expires)
        PROVE  FALSE
    BY <2>5 DEF CreateBegin
  <2> QED BY <1>2, <2>1, <2>2, <2>3, <2>4, <2>5 DEF Arrive
<1>3. CASE Continue(w)
  <2>1. CASE Load(w)
    BY <2>1 DEF Load
  <2>2. CASE \E t \in Tokens : TryInsert(w, t)
    BY <2>2 DEF TryInsert, At
  <2>3. CASE StoreLoses(w) \/ StoreWins(w) \/ Scan410(w)
    BY <2>3 DEF StoreLoses, StoreWins, Scan410, At, KnownTokensOnly
  <2>4. CASE PatchCommit(w) \/ PatchRefresh(w) \/ DeleteCommit(w)
    BY <2>4 DEF PatchCommit, PatchRefresh, DeleteCommit, At, KnownTokensOnly
  <2>5. CASE LoadUnknown(w) \/ Answer302(w) \/ Answer410(w) \/ Evict(w) \/ CreateGivesUp(w) \/ CreateCommit(w)
    BY <2>5 DEF LoadUnknown, Answer302, Answer410, Evict, CreateGivesUp, CreateCommit
  <2> QED BY <1>3, <2>1, <2>2, <2>3, <2>4, <2>5 DEF Continue
<1>4. CASE thread'[w] = Idle
  BY <1>4
<1> QED BY <1>1, <1>2, <1>3, <1>4, WorkerCases

(* What a request past its lookup speaks of is in table links, and so is   *)
(* what the cache, the tasks and the Scans speak of.                       *)
LEMMA KnownStep ==
  ASSUME TypeOK, KnownTokensOnly, MintsAreDistinct, [Next]_vars
  PROVE  KnownTokensOnly'
<1>1. \A t \in Tokens : links[t] # Null => links'[t] # Null
  BY RowsStay
<1>2. ASSUME NEW t \in Tokens,
             (cache[t] # Null \/ tasks[t] > 0 \/ scans[t].found > 0 \/ scans[t].gone > 0)'
      PROVE  links[t] # Null
  <2>1. CASE \E w \in Workers : thread[w].pc \in HasSnapshot /\ thread[w].token = t
    BY <2>1 DEF KnownTokensOnly
  <2>2. CASE cache'[t] # Null
    BY <2>1, <2>2, WhoCaches DEF TypeOK, KnownTokensOnly, StoreWins, At, HasSnapshot
  <2>3. CASE tasks'[t] > 0 \/ scans'[t].found > 0 \/ scans'[t].gone > 0
    <3>1. CASE tasks[t] > 0
      BY <3>1 DEF KnownTokensOnly
    <3>2. CASE \E w \in Workers : At(w, "answer") /\ thread[w].token = t
      BY <2>1, <3>2 DEF At, HasSnapshot
    <3>3. CASE tasks'[t] <= tasks[t] /\ scans'[t] = scans[t] /\ tasks'[t] \in Nat /\ tasks[t] \in Nat
      BY <2>3, <3>3 DEF KnownTokensOnly
    <3>4. tasks'[t] \in Nat /\ tasks[t] \in Nat
      BY TypeStep DEF TypeOK, StoresOK
    <3> QED BY <3>1, <3>2, <3>3, <3>4, WhoScans DEF TypeOK
  <2> QED BY <1>2, <2>2, <2>3
<1>3. ASSUME NEW w \in Workers, thread'[w].pc \in HasSnapshot \cup Mutates
      PROVE  thread'[w].token \in Tokens /\ links[thread'[w].token] # Null
  <2>1. TypeOK'
    BY TypeStep
  <2> QED BY <1>3, <2>1, LookedUp DEF TypeOK, RequestsOK, HoldsOK, HasToken, HasSnapshot, Mutates
<1> QED BY <1>1, <1>2, <1>3 DEF KnownTokensOnly

(* A token is inserted by a worker that found it free. *)
LEMMA WhoInserts ==
  ASSUME RequestsOK, [Next]_vars, NEW w \in Workers, thread'[w].pc = "insert"
  PROVE  \/ thread'[w] = thread[w] /\ ~CreateCommit(w)
         \/ \E t \in Tokens : /\ TryInsert(w, t)
                              /\ links[t] = Null
                              /\ thread' = [thread EXCEPT ![w].pc = "insert", ![w].token = t]
<1> USE DEF RequestsOK, Request, Begin, Goto, Finish, Idle
<1>1. ~Arrive(w)
  <2>1. ASSUME NEW t \in Tokens, RedirectHit(w, t) PROVE FALSE
    BY <2>1 DEF RedirectHit
  <2>2. ASSUME NEW t \in Tokens, RedirectMiss(w, t) PROVE FALSE
    BY <2>2 DEF RedirectMiss
  <2>3. ASSUME NEW t \in Tokens, NEW u \in Users, DeleteLoad(w, t, u) PROVE FALSE
    BY <2>3 DEF DeleteLoad
  <2>4. ASSUME NEW t \in Tokens, NEW u \in Users, NEW url \in Urls, NEW expires \in Expiries,
               PatchLoad(w, t, u, url, expires)
        PROVE  FALSE
    BY <2>4 DEF PatchLoad
  <2>5. ASSUME NEW u \in Users, NEW url \in Urls, NEW expires \in Expiries,
               CreateBegin(w, u, url, expires)
        PROVE  FALSE
    BY <2>5 DEF CreateBegin
  <2> QED BY <2>1, <2>2, <2>3, <2>4, <2>5 DEF Arrive
<1>2. ASSUME Continue(w) PROVE \E t \in Tokens : TryInsert(w, t)
  BY <1>2 DEF Continue, Load, LoadUnknown, StoreLoses, StoreWins, Answer302, Scan410,
       Answer410, PatchCommit, PatchRefresh, DeleteCommit, Evict, CreateGivesUp, CreateCommit
<1>3. ASSUME NEW t \in Tokens, TryInsert(w, t)
      PROVE  /\ links[t] = Null
             /\ thread' = [thread EXCEPT ![w].pc = "insert", ![w].token = t]
  BY <1>3 DEF TryInsert, At
<1>4. ~CreateCommit(w)
  BY DEF CreateCommit
<1> QED BY <1>1, <1>2, <1>3, <1>4, WorkerCases

(* The unique index keeps concurrent creates apart. *)
LEMMA MintsStep ==
  ASSUME TypeOK, KnownTokensOnly, MintsAreDistinct, [Next]_vars
  PROVE  MintsAreDistinct'
<1>0. TypeOK'
  BY TypeStep
<1> SUFFICES ASSUME NEW w \in Workers, thread'[w].pc = "insert"
             PROVE  /\ links'[thread'[w].token] = Null
                    /\ \A v \in Workers : thread'[v].pc = "insert" /\ thread'[v].token = thread'[w].token
                         => v = w
  BY DEF MintsAreDistinct, At, Inserting, Serving
<1> DEFINE t == thread'[w].token
<1>1. t \in Tokens
  BY <1>0 DEF TypeOK, RequestsOK, HoldsOK, HasToken
<1>2. links[t] = Null
  <2>1. CASE thread'[w] = thread[w]
    BY <2>1 DEF MintsAreDistinct, At
  <2>2. ASSUME NEW o \in Tokens, links[o] = Null,
               thread' = [thread EXCEPT ![w].pc = "insert", ![w].token = o]
        PROVE  t = o
    BY <2>2 DEF TypeOK, RequestsOK, Request
  <2> QED BY <2>1, <2>2, WhoInserts DEF TypeOK
<1>3. links'[t] = Null
  <2>1. ASSUME NEW v \in Workers, thread[v].pc \in {"patch", "delete"}, CommitRow(v)
        PROVE  links'[t] = Null
    BY <1>1, <1>2, <2>1 DEF CommitRow, KnownTokensOnly, Mutates, TypeOK, StoresOK
  <2>2. ASSUME NEW v \in Workers, CreateCommit(v)
        PROVE  links'[t] = Null
    <3>1. v # w
      BY <2>2 DEF CreateCommit, Finish, Idle, TypeOK, RequestsOK
    <3>2. thread'[w] = thread[w]
      BY <2>2, <3>1 DEF CreateCommit, Finish, TypeOK, RequestsOK
    <3>3. v \notin Inserting(t)
      BY <3>1, <3>2 DEF MintsAreDistinct, At
    <3>4. thread[v].token # t
      BY <2>2, <3>3 DEF CreateCommit, At, Inserting, Serving
    <3> QED BY <1>1, <1>2, <2>2, <3>4 DEF CreateCommit, TypeOK, StoresOK
  <2> QED BY <1>2, <2>1, <2>2, WhoWrites
<1>4. ASSUME NEW v \in Workers, thread'[v].pc = "insert", thread'[v].token = t
      PROVE  v = w
  <2> SUFFICES ASSUME v # w PROVE FALSE
    OBVIOUS
  <2>1. CASE thread'[w] = thread[w] /\ thread'[v] = thread[v]
    BY <1>4, <2>1 DEF MintsAreDistinct, At, Inserting, Serving
  <2>2. ASSUME NEW x \in Workers, NEW y \in Workers, x # y, NEW o \in Tokens,
               TryInsert(x, o),
               thread' = [thread EXCEPT ![x].pc = "insert", ![x].token = o],
               thread'[y].pc = "insert"
        PROVE  thread'[x].token # thread'[y].token
    <3>1. thread'[x].token = o /\ thread'[y] = thread[y]
      BY <2>2 DEF TypeOK, RequestsOK, Request
    <3>2. y \notin Inserting(o)
      BY <2>2 DEF TryInsert
    <3> QED BY <2>2, <3>1, <3>2 DEF Inserting, Serving
  <2>3. ASSUME NEW o \in Tokens, TryInsert(w, o),
               thread' = [thread EXCEPT ![w].pc = "insert", ![w].token = o]
        PROVE  FALSE
    BY <1>4, <2>2, <2>3
  <2>4. ASSUME NEW o \in Tokens, TryInsert(v, o),
               thread' = [thread EXCEPT ![v].pc = "insert", ![v].token = o]
        PROVE  FALSE
    BY <1>4, <2>2, <2>4
  <2> QED BY <1>4, <2>1, <2>3, <2>4, WhoInserts DEF TypeOK
<1> QED BY <1>3, <1>4

(* Who holds a row to write: it was read for its owner, or held before.    *)
LEMMA HeldAgrees ==
  ASSUME TypeOK, KnownTokensOnly, HeldRowsAgree, [Next]_vars, NEW w \in Workers,
         thread'[w].pc \in Mutates
  PROVE  AgreesWith(thread'[w], links[thread'[w].token].owner)
<1> USE DEF TypeOK, RequestsOK, Begin, Goto, Finish, Idle, Mutates, AgreesWith
<1>1. CASE thread'[w] = thread[w]
  BY <1>1 DEF HeldRowsAgree
<1>2. CASE Arrive(w)
  <2>1. ASSUME NEW t \in Tokens, RedirectHit(w, t) PROVE FALSE
    BY <2>1 DEF RedirectHit
  <2>2. ASSUME NEW t \in Tokens, RedirectMiss(w, t) PROVE FALSE
    BY <2>2 DEF RedirectMiss
  <2>3. ASSUME NEW t \in Tokens, NEW u \in Users, NEW url \in Urls, NEW expires \in Expiries,
               PatchLoad(w, t, u, url, expires)
        PROVE  AgreesWith(thread'[w], links[thread'[w].token].owner)
    <3>1. links[t] \in Link /\ links[t].owner = u /\ u \notin Demo /\ links[t].deleted = Null
      BY <2>3 DEF PatchLoad, MayMutate, IsPatchable, DeriveState, StoresOK
    <3> DEFINE r == [Idle EXCEPT !.pc = "patch", !.token = t, !.user = u, !.loaded = links[t],
                                 !.link = [links[t] EXCEPT !.url = url, !.expires = expires]]
    <3>2. thread'[w] = r
      BY <2>3 DEF PatchLoad
    <3>3. r.pc = "patch" /\ r.token = t /\ r.user = u /\ r.loaded = links[t]
      OBVIOUS
    <3>4. r.link.owner = u /\ r.link.deleted = Null
      BY <3>1 DEF Link
    <3> QED BY <3>1, <3>2, <3>3, <3>4
  <2>4. ASSUME NEW t \in Tokens, NEW u \in Users, DeleteLoad(w, t, u)
        PROVE  AgreesWith(thread'[w], links[thread'[w].token].owner)
    <3>1. links[t] \in Link /\ links[t].owner = u /\ u \notin Demo
      BY <2>4 DEF DeleteLoad, MayMutate, StoresOK
    <3>2. CASE links[t].deleted = Null
      <4> DEFINE l == [links[t] EXCEPT !.deleted = now]
                 r == [Idle EXCEPT !.pc = "delete", !.token = t, !.user = u, !.loaded = links[t],
                                   !.link = l]
      <4>1. thread'[w] = r
        BY <2>4, <3>2 DEF DeleteLoad
      <4>2. r.pc = "delete" /\ r.token = t /\ r.user = u /\ r.loaded = links[t] /\ r.link = l
        OBVIOUS
      <4>3. l.owner = u /\ l.deleted = now /\ now # Null
        BY <3>1 DEF Link, StoresOK
      <4>4. l = [links[t] EXCEPT !.deleted = l.deleted]
        BY <4>3
      <4> HIDE DEF r, l
      <4> QED BY <3>1, <3>2, <4>1, <4>2, <4>3, <4>4
    <3>3. CASE links[t].deleted # Null
      <4> DEFINE r == [Idle EXCEPT !.pc = "evict", !.token = t, !.user = u, !.loaded = links[t],
                                   !.link = links[t]]
      <4>1. thread'[w] = r
        BY <2>4, <3>3 DEF DeleteLoad
      <4>2. r.pc = "evict" /\ r.token = t /\ r.user = u /\ r.loaded = links[t] /\ r.link = links[t]
        OBVIOUS
      <4> QED BY <3>1, <4>1, <4>2
    <3> QED BY <3>2, <3>3
  <2>5. ASSUME NEW u \in Users, NEW url \in Urls, NEW expires \in Expiries,
               CreateBegin(w, u, url, expires)
        PROVE  FALSE
    BY <2>5 DEF CreateBegin
  <2> QED BY <1>2, <2>1, <2>2, <2>3, <2>4, <2>5 DEF Arrive
<1>3. CASE Continue(w)
  <2>1. CASE PatchCommit(w) \/ PatchRefresh(w) \/ DeleteCommit(w)
    <3>1. thread[w].pc \in Mutates /\ thread'[w].pc \notin {"patch", "delete"}
      BY <2>1 DEF PatchCommit, PatchRefresh, DeleteCommit, At, Request
    <3>2. /\ thread'[w].token = thread[w].token /\ thread'[w].user = thread[w].user
          /\ thread'[w].loaded = thread[w].loaded /\ thread'[w].link = thread[w].link
      BY <2>1 DEF PatchCommit, PatchRefresh, DeleteCommit, Request
    <3> QED BY <3>1, <3>2 DEF HeldRowsAgree
  <2>2. CASE \E t \in Tokens : TryInsert(w, t)
    BY <2>2 DEF TryInsert, At, Request
  <2>3. CASE Load(w) \/ StoreLoses(w) \/ StoreWins(w) \/ Scan410(w)
    BY <2>3 DEF Load, StoreLoses, StoreWins, Scan410, Request
  <2>4. CASE LoadUnknown(w) \/ Answer302(w) \/ Answer410(w) \/ Evict(w) \/ CreateGivesUp(w) \/ CreateCommit(w)
    BY <2>4 DEF LoadUnknown, Answer302, Answer410, Evict, CreateGivesUp, CreateCommit
  <2> QED BY <1>3, <2>1, <2>2, <2>3, <2>4 DEF Continue
<1>4. CASE thread'[w] = Idle
  BY <1>4
<1> QED BY <1>1, <1>2, <1>3, <1>4, WorkerCases

(* A handler's row keeps its owner until the handler has written to it.    *)
LEMMA HeldStep ==
  ASSUME TypeOK, KnownTokensOnly, MintsAreDistinct, HeldRowsAgree, [Next]_vars
  PROVE  HeldRowsAgree'
<1> SUFFICES ASSUME NEW w \in Workers, thread'[w].pc \in Mutates
             PROVE  AgreesWith(thread'[w], links'[thread'[w].token].owner)
  BY DEF HeldRowsAgree
<1>1. thread'[w].token \in Tokens
  BY TypeStep DEF TypeOK, RequestsOK, HoldsOK, HasToken, Mutates
<1>2. links[thread'[w].token] # Null
  BY LookedUp
<1>3. links'[thread'[w].token].owner = links[thread'[w].token].owner
  BY <1>1, <1>2, RowsStay
<1> QED BY <1>3, HeldAgrees

(***************************************************************************)
(* Coherence of the redirect cache, said in parts: an entry or a fill is   *)
(* excused when it agrees with the row or an eviction is to come.          *)
(***************************************************************************)
Pending(t, thr) == \E w \in Workers : thr[w].token = t /\ thr[w].pc \in {"refresh", "evict"}

Excused(snapshot, row, t, thr) == snapshot # SnapshotOf(row) => Pending(t, thr)

EntryOK(t, ch, ln, thr) == ch[t] # Null => Excused(ch[t].snapshot, ln[t], t, thr)

FillOK(w, ln, thr) ==
  thr[w].pc = "store" => Excused(thr[w].snapshot, ln[thr[w].token], thr[w].token, thr)

(* Coherence of a state and of its successor, by those parts. *)
LEMMA CoherentParts ==
  /\ CacheCoherent <=> /\ \A t \in Tokens \ suspect : EntryOK(t, cache, links, thread)
                       /\ \A w \in Workers \ raced : FillOK(w, links, thread)
  /\ CacheCoherent' <=> /\ \A t \in Tokens \ suspect' : EntryOK(t, cache', links', thread')
                        /\ \A w \in Workers \ raced' : FillOK(w, links', thread')
BY DEF CacheCoherent, EntryOK, FillOK, Excused, Pending, EvictionPending, Serving, At

(* A step by which nobody leaves an eviction undone, nobody fills and no   *)
(* row, entry or exception changes.                                        *)
LEMMA QuietStep ==
  ASSUME CacheCoherent, NEW w \in Workers, UNCHANGED <<links, cache, suspect>>,
         raced \subseteq raced' \cup {w},
         \A v \in Workers \ {w} : thread'[v] = thread[v],
         thread[w].pc \notin {"refresh", "evict"}, thread'[w].pc # "store"
  PROVE  CacheCoherent'
<1>1. \A t \in Tokens : Pending(t, thread) => Pending(t, thread')
  BY DEF Pending
<1>2. \A t \in Tokens : \A s, l : Excused(s, l, t, thread) => Excused(s, l, t, thread')
  BY <1>1 DEF Excused
<1>3. ASSUME NEW t \in Tokens \ suspect'
      PROVE  EntryOK(t, cache', links', thread')
  BY <1>2, CoherentParts DEF EntryOK
<1>4. ASSUME NEW v \in Workers \ raced', thread'[v].pc = "store"
      PROVE  Excused(thread'[v].snapshot, links'[thread'[v].token], thread'[v].token, thread')
  <2>1. v # w /\ v \notin raced
    BY <1>4
  <2>2. thread'[v] = thread[v]
    BY <2>1
  <2>3. Excused(thread[v].snapshot, links[thread[v].token], thread[v].token, thread)
    BY <1>4, <2>1, <2>2, CoherentParts DEF FillOK
  <2>4. Pending(thread[v].token, thread) => Pending(thread[v].token, thread')
    BY DEF Pending
  <2> QED BY <2>2, <2>3, <2>4 DEF Excused
<1> QED BY <1>3, <1>4, CoherentParts DEF FillOK

(* A row that has not changed, or whose change is pending, excuses what    *)
(* was good before, as long as no eviction is dropped.                     *)
LEMMA CarriedOver ==
  ASSUME NEW t \in Tokens, NEW snapshot, Excused(snapshot, links[t], t, thread),
         Pending(t, thread) => Pending(t, thread'),
         links'[t] = links[t] \/ Pending(t, thread')
  PROVE  Excused(snapshot, links'[t], t, thread')
BY DEF Excused

(* A commit leaves the eviction of its token to be done.                   *)
LEMMA CommitCoherent ==
  ASSUME TypeOK, CacheCoherent, NEW w \in Workers, thread[w].pc \in {"patch", "delete"},
         CommitRow(w), UNCHANGED <<cache, raced, suspect>>,
         NEW pc \in {"refresh", "evict"}, Goto(w, pc)
  PROVE  CacheCoherent'
<1> USE DEF TypeOK, StoresOK, RequestsOK, Request
<1>1. /\ thread'[w].token = thread[w].token /\ thread'[w].pc = pc
      /\ \A v \in Workers \ {w} : thread'[v] = thread[v]
  BY DEF Goto
<1>2. thread[w].token \in Tokens
  BY DEF HoldsOK, HasToken
<1>3. ASSUME NEW t \in Tokens PROVE /\ Pending(t, thread) => Pending(t, thread')
                                    /\ links'[t] = links[t] \/ Pending(t, thread')
  BY <1>1, <1>2 DEF Pending, CommitRow
<1>4. ASSUME NEW t \in Tokens \ suspect'
      PROVE  EntryOK(t, cache', links', thread')
  BY <1>3, CarriedOver, CoherentParts DEF EntryOK
<1>5. ASSUME NEW v \in Workers \ raced'
      PROVE  FillOK(v, links', thread')
  <2> SUFFICES ASSUME thread'[v].pc = "store"
               PROVE  Excused(thread'[v].snapshot, links'[thread'[v].token], thread'[v].token, thread')
    BY DEF FillOK
  <2>1. thread'[v] = thread[v]
    BY <1>1
  <2>2. thread[v].token \in Tokens
    BY <2>1 DEF HoldsOK, HasToken
  <2>3. Excused(thread[v].snapshot, links[thread[v].token], thread[v].token, thread)
    BY <2>1, CoherentParts DEF FillOK
  <2> QED BY <1>3, <2>1, <2>2, <2>3, CarriedOver
<1> QED BY <1>4, <1>5, CoherentParts

(* Nothing that coherence speaks of moves. *)
LEMMA StillStep ==
  ASSUME CacheCoherent, UNCHANGED <<links, cache, thread, raced, suspect>>
  PROVE  CacheCoherent'
BY CoherentParts DEF EntryOK, FillOK, Excused, Pending

(* A fill reads the row as it is. *)
LEMMA LoadCoherent ==
  ASSUME TypeOK, CacheCoherent, NEW w \in Workers, Load(w)
  PROVE  CacheCoherent'
<1> USE DEF TypeOK, RequestsOK, Request
<1>1. /\ thread'[w].token = thread[w].token /\ thread'[w].pc = "store"
      /\ thread'[w].snapshot = SnapshotOf(links[thread[w].token])
      /\ \A v \in Workers \ {w} : thread'[v] = thread[v]
  BY DEF Load
<1>2. /\ UNCHANGED <<links, cache, raced, suspect>>
      /\ \A t \in Tokens : Pending(t, thread) => Pending(t, thread')
  BY <1>1 DEF Load, At, Pending, history
<1>3. ASSUME NEW t \in Tokens \ suspect'
      PROVE  EntryOK(t, cache', links', thread')
  BY <1>2, CoherentParts DEF EntryOK, Excused
<1>4. ASSUME NEW v \in Workers \ raced', v # w
      PROVE  FillOK(v, links', thread')
  <2>1. FillOK(v, links, thread) /\ thread'[v] = thread[v]
    BY <1>1, <1>2, <1>4, CoherentParts
  <2>2. thread[v].pc = "store" => thread[v].token \in Tokens
    BY DEF HoldsOK, HasToken
  <2> QED BY <1>2, <2>1, <2>2 DEF FillOK, Excused
<1>5. FillOK(w, links', thread')
  BY <1>1, <1>2 DEF FillOK, Excused
<1> QED BY <1>3, <1>4, <1>5, CoherentParts

(* What a fill stores is as good as what it holds, or its token suspect.   *)
LEMMA StoreCoherent ==
  ASSUME TypeOK, CacheCoherent, NEW w \in Workers, StoreWins(w)
  PROVE  CacheCoherent'
<1> USE DEF TypeOK, RequestsOK, Request
<1> DEFINE t == thread[w].token
<1>1. /\ thread[w].pc = "store" /\ thread'[w].pc = "answer" /\ links' = links
      /\ \A v \in Workers \ {w} : thread'[v] = thread[v]
      /\ raced' = raced \ {w}
      /\ suspect' = IF w \in raced THEN suspect \cup {t} ELSE suspect \ {t}
  BY DEF StoreWins, At, Goto
<1>2. t \in Tokens /\ \A o \in Tokens : Pending(o, thread) => Pending(o, thread')
  BY <1>1 DEF Pending, HoldsOK, HasToken
<1>3. cache'[t].snapshot = thread[w].snapshot
  BY <1>2 DEF StoreWins
<1>4. \A o \in Tokens \ {t} : cache'[o] \in {cache[o], Null}
  BY DEF StoreWins
<1>5. ASSUME NEW o \in Tokens \ suspect', o # t
      PROVE  EntryOK(o, cache', links', thread')
  BY <1>1, <1>2, <1>4, <1>5, CoherentParts DEF EntryOK, Excused
<1>6. ASSUME t \notin suspect'
      PROVE  EntryOK(t, cache', links', thread')
  <2>1. w \notin raced
    BY <1>1, <1>6
  <2>2. FillOK(w, links, thread)
    BY <2>1, CoherentParts
  <2> QED BY <1>1, <1>2, <1>3, <2>2 DEF FillOK, EntryOK, Excused
<1>7. ASSUME NEW v \in Workers \ raced'
      PROVE  FillOK(v, links', thread')
  <2>1. CASE v = w
    BY <1>1, <2>1 DEF FillOK
  <2>2. CASE v # w
    <3>1. FillOK(v, links, thread) /\ thread'[v] = thread[v]
      BY <1>1, <2>2, CoherentParts
    <3>2. thread[v].pc = "store" => thread[v].token \in Tokens
      BY DEF HoldsOK, HasToken
    <3> QED BY <1>1, <1>2, <3>1, <3>2 DEF FillOK, Excused
  <2> QED BY <2>1, <2>2
<1> QED BY <1>5, <1>6, <1>7, CoherentParts

(* A handler that leaves after writing its row, with the entry gone or     *)
(* its token suspect, and the fills under way marked.                      *)
LEMMA LeaveCoherent ==
  ASSUME TypeOK, CacheCoherent, NEW w \in Workers, NEW t \in Tokens, thread[w].token = t,
         thread[w].pc # "store", Finish(w), raced' = raced \cup Fills(t),
         \A o \in Tokens \ {t} : links'[o] = links[o] /\ cache'[o] = cache[o],
         suspect \subseteq suspect' \cup {t}, t \in suspect' \/ cache'[t] = Null
  PROVE  CacheCoherent'
<1> USE DEF TypeOK, RequestsOK, Request
<1>1. thread'[w].pc = "idle" /\ \A v \in Workers \ {w} : thread'[v] = thread[v]
  BY DEF Finish, Idle
<1>2. \A o \in Tokens \ {t} : Pending(o, thread) => Pending(o, thread')
  BY <1>1 DEF Pending
<1>3. ASSUME NEW o \in Tokens \ suspect'
      PROVE  EntryOK(o, cache', links', thread')
  BY <1>2, CoherentParts DEF EntryOK, Excused
<1>4. ASSUME NEW v \in Workers \ raced', thread'[v].pc = "store"
      PROVE  FillOK(v, links', thread')
  <2>1. v # w /\ thread'[v] = thread[v] /\ v \notin raced
    BY <1>1, <1>4
  <2>2. thread[v].token \in Tokens /\ thread[v].token # t
    BY <1>4, <2>1 DEF Fills, Serving, HoldsOK, HasToken
  <2>3. FillOK(v, links, thread)
    BY <2>1, CoherentParts
  <2> QED BY <1>2, <2>1, <2>2, <2>3 DEF FillOK, Excused
<1> QED BY <1>3, <1>4, CoherentParts DEF FillOK

(* A minted token has no entry, and nobody is filling one. *)
LEMMA MintCoherent ==
  ASSUME TypeOK, KnownTokensOnly, MintsAreDistinct, CacheCoherent,
         NEW w \in Workers, CreateCommit(w)
  PROVE  CacheCoherent'
<1> USE DEF TypeOK, RequestsOK, Request
<1> DEFINE t == thread[w].token
<1>1. thread[w].pc = "insert" /\ t \in Tokens /\ links[t] = Null
  BY DEF CreateCommit, At, MintsAreDistinct, HoldsOK, HasToken
<1>2. /\ thread'[w].pc = "idle" /\ \A v \in Workers \ {w} : thread'[v] = thread[v]
      /\ UNCHANGED <<cache, raced, suspect>>
      /\ \A o \in Tokens \ {t} : links'[o] = links[o]
  BY DEF CreateCommit, Finish, Idle, history, StoresOK
<1>3. \A o \in Tokens : Pending(o, thread) => Pending(o, thread')
  BY <1>1, <1>2 DEF Pending
<1>4. ASSUME NEW o \in Tokens \ suspect'
      PROVE  EntryOK(o, cache', links', thread')
  <2>1. cache[t] = Null
    BY <1>1 DEF KnownTokensOnly
  <2> QED BY <1>2, <1>3, <2>1, CoherentParts DEF EntryOK, Excused
<1>5. ASSUME NEW v \in Workers \ raced', thread'[v].pc = "store"
      PROVE  FillOK(v, links', thread')
  <2>1. v # w /\ thread'[v] = thread[v]
    BY <1>2, <1>5
  <2>2. thread[v].token \in Tokens /\ thread[v].token # t
    BY <1>1, <1>5, <2>1 DEF KnownTokensOnly, HasSnapshot, HoldsOK, HasToken
  <2>3. FillOK(v, links, thread)
    BY <1>2, <2>1, CoherentParts
  <2> QED BY <1>2, <1>3, <2>1, <2>2, <2>3 DEF FillOK, Excused
<1> QED BY <1>4, <1>5, CoherentParts DEF FillOK

(* A restart empties the cache and forgets the fills. *)
LEMMA CrashCoherent ==
  ASSUME StoresOK, Crash
  PROVE  CacheCoherent'
BY CoherentParts DEF Crash, EntryOK, FillOK, Idle

(***************************************************************************)
(* Every step keeps the cache coherent, one case per action.               *)
(***************************************************************************)
LEMMA CacheStep ==
  ASSUME TypeOK, KnownTokensOnly, MintsAreDistinct, CacheCoherent, [Next]_vars
  PROVE  CacheCoherent'
<1> USE DEF At
<1>1. ASSUME NEW w \in Workers, NEW t \in Tokens, RedirectHit(w, t) \/ RedirectMiss(w, t)
      PROVE  CacheCoherent'
  <2>1. UNCHANGED <<links, cache, raced, suspect>> /\ thread[w].pc = "idle"
    BY <1>1 DEF RedirectHit, RedirectMiss, Begin, history
  <2>2. Arrive(w)
    BY <1>1 DEF Arrive
  <2>3. thread'[w].pc # "store"
    BY <1>1 DEF RedirectHit, RedirectMiss, Begin, Idle, TypeOK, RequestsOK
  <2> QED BY <2>1, <2>2, <2>3, OneWorker, QuietStep DEF TypeOK
<1>2. ASSUME NEW w \in Workers, NEW t \in Tokens, NEW u \in Users, NEW url \in Urls,
             NEW expires \in Expiries, PatchLoad(w, t, u, url, expires)
      PROVE  CacheCoherent'
  <2>1. UNCHANGED <<links, cache, raced, suspect>> /\ thread[w].pc = "idle"
    BY <1>2 DEF PatchLoad, Begin, history
  <2>2. Arrive(w)
    BY <1>2 DEF Arrive
  <2>3. thread'[w].pc # "store"
    BY <1>2 DEF PatchLoad, Begin, Idle, TypeOK, RequestsOK
  <2> QED BY <2>1, <2>2, <2>3, OneWorker, QuietStep DEF TypeOK
<1>3. ASSUME NEW w \in Workers, NEW t \in Tokens, NEW u \in Users, DeleteLoad(w, t, u)
      PROVE  CacheCoherent'
  <2>1. UNCHANGED <<links, cache, raced, suspect>> /\ thread[w].pc = "idle"
    BY <1>3 DEF DeleteLoad, Begin, history
  <2>2. Arrive(w)
    BY <1>3 DEF Arrive
  <2>3. thread'[w].pc # "store"
    BY <1>3 DEF DeleteLoad, Begin, Idle, TypeOK, RequestsOK
  <2> QED BY <2>1, <2>2, <2>3, OneWorker, QuietStep DEF TypeOK
<1>4. ASSUME NEW w \in Workers, NEW u \in Users, NEW url \in Urls, NEW expires \in Expiries,
             CreateBegin(w, u, url, expires)
      PROVE  CacheCoherent'
  <2>1. UNCHANGED <<links, cache, raced, suspect>> /\ thread[w].pc = "idle"
    BY <1>4 DEF CreateBegin, Begin, history
  <2>2. Arrive(w)
    BY <1>4 DEF Arrive
  <2>3. thread'[w].pc # "store"
    BY <1>4 DEF CreateBegin, Begin, Idle, TypeOK, RequestsOK
  <2> QED BY <2>1, <2>2, <2>3, OneWorker, QuietStep DEF TypeOK
<1>5. ASSUME NEW w \in Workers, NEW t \in Tokens, TryInsert(w, t)
      PROVE  CacheCoherent'
  <2>1. UNCHANGED <<links, cache, raced, suspect>> /\ thread[w].pc = "mint"
    BY <1>5 DEF TryInsert, history
  <2>2. Continue(w)
    BY <1>5 DEF Continue
  <2>3. thread'[w].pc # "store"
    BY <1>5 DEF TryInsert, TypeOK, RequestsOK, Request
  <2> QED BY <2>1, <2>2, <2>3, OneWorker, QuietStep DEF TypeOK
<1>6. ASSUME NEW w \in Workers,
             StoreLoses(w) \/ LoadUnknown(w) \/ Answer302(w) \/ Scan410(w) \/ Answer410(w)
               \/ CreateGivesUp(w) \/ StatementFails(w)
      PROVE  CacheCoherent'
  <2>1. /\ UNCHANGED <<links, cache, suspect>> /\ raced \subseteq raced' \cup {w}
        /\ thread[w].pc \notin {"refresh", "evict"}
    BY <1>6 DEF StoreLoses, LoadUnknown, Answer302, Scan410, Answer410, CreateGivesUp,
         StatementFails, history
  <2>2. Continue(w) \/ Fail(w)
    BY <1>6 DEF Continue, Fail
  <2>3. thread'[w].pc # "store"
    BY <1>6 DEF StoreLoses, LoadUnknown, Answer302, Scan410, Answer410, CreateGivesUp,
         StatementFails, Goto, Finish, Idle, TypeOK, RequestsOK, Request
  <2> QED BY <2>1, <2>2, <2>3, OneWorker, QuietStep DEF TypeOK
<1>7. ASSUME NEW w \in Workers, PatchCommit(w) PROVE CacheCoherent'
  BY <1>7, CommitCoherent DEF PatchCommit, history
<1>8. ASSUME NEW w \in Workers, DeleteCommit(w) PROVE CacheCoherent'
  BY <1>8, CommitCoherent DEF DeleteCommit, history
<1>9. ASSUME NEW w \in Workers, PatchRefresh(w) PROVE CacheCoherent'
  <2> DEFINE Same(v) == /\ thread'[v].token = thread[v].token
                        /\ thread'[v].snapshot = thread[v].snapshot
                        /\ thread'[v].pc = "store" <=> thread[v].pc = "store"
                        /\ thread[v].pc \in {"refresh", "evict"} =>
                             thread'[v].pc \in {"refresh", "evict"}
  <2>1. \A v \in Workers : Same(v)
    BY <1>9 DEF PatchRefresh, Goto, TypeOK, RequestsOK, Request
  <2>2. \A t \in Tokens : Pending(t, thread) => Pending(t, thread')
    BY <2>1 DEF Pending
  <2>3. UNCHANGED <<links, cache, raced, suspect>>
    BY <1>9 DEF PatchRefresh, history
  <2>4. \A t \in Tokens \ suspect' : EntryOK(t, cache', links', thread')
    BY <2>2, <2>3, CoherentParts DEF EntryOK, Excused
  <2>5. \A v \in Workers : thread[v].pc = "store" => thread[v].token \in Tokens
    BY DEF TypeOK, RequestsOK, HoldsOK, HasToken
  <2>6. \A v \in Workers \ raced' : FillOK(v, links', thread')
    BY <2>1, <2>2, <2>3, <2>5, CoherentParts DEF FillOK, Excused
  <2> QED BY <2>4, <2>6, CoherentParts
<1>10. ASSUME NEW w \in Workers, Evict(w) PROVE CacheCoherent'
  <2>1. thread[w].token \in Tokens
    BY <1>10 DEF Evict, TypeOK, RequestsOK, HoldsOK, HasToken
  <2> QED BY <1>10, <2>1, LeaveCoherent DEF Evict, TypeOK, StoresOK
<1>11. ASSUME NEW w \in Workers, RefreshFails(w) PROVE CacheCoherent'
  <2>1. thread[w].token \in Tokens
    BY <1>11 DEF RefreshFails, TypeOK, RequestsOK, HoldsOK, HasToken
  <2> QED BY <1>11, <2>1, LeaveCoherent DEF RefreshFails, EvictionSkipped
<1>12. ASSUME NEW w \in Workers, CommitUnacknowledged(w) PROVE CacheCoherent'
  <2>1. thread[w].token \in Tokens
    BY <1>12 DEF CommitUnacknowledged, TypeOK, RequestsOK, HoldsOK, HasToken
  <2>2. \A o \in Tokens \ {thread[w].token} : links'[o] = links[o]
    BY <1>12 DEF CommitUnacknowledged, CommitRow, TypeOK, StoresOK
  <2> QED BY <1>12, <2>1, <2>2, LeaveCoherent DEF CommitUnacknowledged, EvictionSkipped
<1>13. ASSUME \/ \E t \in Tokens : WriteScan(t) \/ ScanLost(t)
              \/ Tick \/ UNCHANGED vars
       PROVE  CacheCoherent'
  BY <1>13, StillStep DEF WriteScan, ScanLost, Tick, vars, history
<1> QED BY <1>1, <1>2, <1>3, <1>4, <1>5, <1>6, <1>7, <1>8, <1>9, <1>10, <1>11, <1>12, <1>13,
           LoadCoherent, StoreCoherent, MintCoherent, CrashCoherent
        DEF Next, Arrive, Continue, Fail, TypeOK

(***************************************************************************)
(* The inductive invariant.  None of its parts is inductive alone: the     *)
(* types need the rows that sessions hold to be there, the rows stay       *)
(* because creates are apart, and a minted row is coherent because what    *)
(* it replaces was unknown to the cache.                                   *)
(***************************************************************************)
IInv ==
  /\ TypeOK
  /\ KnownTokensOnly
  /\ MintsAreDistinct
  /\ HeldRowsAgree
  /\ CacheCoherent

(* A fresh process has nothing cached, held or pending. *)
LEMMA InitIInv == Init => IInv
<1> SUFFICES ASSUME Init PROVE IInv
  OBVIOUS
<1>1. TypeOK
  BY IdleType DEF Init, TypeOK, RequestsOK, StoresOK, HoldsOK
<1>2. KnownTokensOnly /\ MintsAreDistinct /\ HeldRowsAgree
  BY DEF Init, KnownTokensOnly, MintsAreDistinct, HeldRowsAgree, Idle, At, HasSnapshot, Mutates
<1>3. CacheCoherent
  BY CoherentParts DEF Init, EntryOK, FillOK, Idle
<1> QED BY <1>1, <1>2, <1>3 DEF IInv

(* Together the parts are inductive. *)
LEMMA NextIInv == IInv /\ [Next]_vars => IInv'
BY TypeStep, KnownStep, MintsStep, HeldStep, CacheStep DEF IInv

(* In every reachable state of any number of workers, tokens and faults,   *)
(* the invariant holds.                                                    *)
THEOREM Invariant == Spec => []IInv
BY InitIInv, NextIInv, PTL DEF Spec

(* Every variable has its type and every worker what its next step needs.  *)
THEOREM TypeCorrect == Spec => []TypeOK
<1>1. IInv => TypeOK
  BY DEF IInv
<1> QED BY <1>1, Invariant, PTL

(* The redirect cache is stale for three reasons only: an eviction yet to  *)
(* come, one that a fill straddled, one that an error skipped.             *)
THEOREM CacheIsCoherent == Spec => []CacheCoherent
<1>1. IInv => CacheCoherent
  BY DEF IInv
<1> QED BY <1>1, Invariant, PTL

(* Nothing is cached, recorded or served for a token without a row.        *)
THEOREM UnknownTokensLeaveNoTrace == Spec => []KnownTokensOnly
<1>1. IInv => KnownTokensOnly
  BY DEF IInv
<1> QED BY <1>1, Invariant, PTL

(* Two creates never hold the same token. *)
THEOREM MintsNeverCollide == Spec => []MintsAreDistinct
<1>1. IInv => MintsAreDistinct
  BY DEF IInv
<1> QED BY <1>1, Invariant, PTL

(* What a handler authorised is still so when it commits. *)
THEOREM AuthorisationOutlivesTheRead == Spec => []HeldRowsAgree
<1>1. IInv => HeldRowsAgree
  BY DEF IInv
<1> QED BY <1>1, Invariant, PTL

(* The rows a step may change, and whose. *)
LEMMA OwnerStep ==
  ASSUME IInv, [Next]_vars, NEW t \in Tokens, links[t] # Null, links'[t] # links[t]
  PROVE  \E w \in Workers : /\ Serving(w, t, {"patch", "delete"})
                            /\ thread[w].user = links[t].owner
                            /\ thread[w].user \notin Demo
<1>1. ASSUME NEW w \in Workers, CreateCommit(w) PROVE FALSE
  <2>1. thread[w].token # t
    BY <1>1 DEF CreateCommit, IInv, MintsAreDistinct
  <2> QED BY <1>1, <2>1 DEF CreateCommit, IInv, TypeOK, StoresOK
<1>2. ASSUME NEW w \in Workers, thread[w].pc \in {"patch", "delete"}, CommitRow(w)
      PROVE  /\ Serving(w, t, {"patch", "delete"})
             /\ thread[w].user = links[t].owner
             /\ thread[w].user \notin Demo
  <2>1. thread[w].token = t
    BY <1>2 DEF CommitRow, IInv, TypeOK, StoresOK
  <2>2. AgreesWith(thread[w], links[t].owner)
    BY <1>2, <2>1 DEF IInv, HeldRowsAgree, Mutates
  <2> QED BY <1>2, <2>1, <2>2 DEF AgreesWith, Serving
<1> QED BY <1>1, <1>2, WhoWrites

(* A row changes only by a commit for its owner, never the demo account.   *)
THEOREM OnlyOwnersWrite == Spec => OnlyItsOwnerChangesALink
<1>1. IInv /\ [Next]_vars =>
        [\A t \in Tokens :
           links[t] # Null /\ links'[t] # links[t] =>
             \E w \in Workers : /\ Serving(w, t, {"patch", "delete"})
                                /\ thread[w].user = links[t].owner
                                /\ thread[w].user \notin Demo]_vars
  BY OwnerStep
<1> QED BY <1>1, Invariant, PTL DEF Spec, OnlyItsOwnerChangesALink

(***************************************************************************)
(* The handlers implement the registry of atomic operations.               *)
(***************************************************************************)

(* The row that a create is about to insert is its caller's and live. *)
NewRowsAreLive ==
  \A w \in Workers : thread[w].pc \in Creates =>
    thread[w].link.owner \in Users \ Demo /\ thread[w].link.deleted = Null

(* No step gives a create another row than the one it began with. *)
LEMMA NewRowsStep ==
  ASSUME TypeOK, NewRowsAreLive, [Next]_vars
  PROVE  NewRowsAreLive'
<1> USE DEF TypeOK, RequestsOK, Begin, Goto, Finish, Idle, Creates
<1> SUFFICES ASSUME NEW w \in Workers, thread'[w].pc \in Creates
             PROVE  thread'[w].link.owner \in Users \ Demo /\ thread'[w].link.deleted = Null
  BY DEF NewRowsAreLive
<1>1. CASE thread'[w] = thread[w]
  BY <1>1 DEF NewRowsAreLive
<1>2. CASE Arrive(w)
  <2>1. ASSUME NEW t \in Tokens, RedirectHit(w, t) PROVE FALSE
    BY <2>1 DEF RedirectHit
  <2>2. ASSUME NEW t \in Tokens, RedirectMiss(w, t) PROVE FALSE
    BY <2>2 DEF RedirectMiss
  <2>3. ASSUME NEW t \in Tokens, NEW u \in Users, NEW url \in Urls, NEW expires \in Expiries,
               PatchLoad(w, t, u, url, expires)
        PROVE  FALSE
    BY <2>3 DEF PatchLoad
  <2>4. ASSUME NEW t \in Tokens, NEW u \in Users, DeleteLoad(w, t, u)
        PROVE  FALSE
    BY <2>4 DEF DeleteLoad
  <2>5. ASSUME NEW u \in Users, NEW url \in Urls, NEW expires \in Expiries,
               CreateBegin(w, u, url, expires)
        PROVE  thread'[w].link.owner \in Users \ Demo /\ thread'[w].link.deleted = Null
    <3> DEFINE row == [owner |-> u, url |-> url, expires |-> expires, deleted |-> Null]
    <3>1. thread'[w].link = row /\ u \notin Demo
      BY <2>5 DEF CreateBegin
    <3> QED BY <3>1
  <2> QED BY <1>2, <2>1, <2>2, <2>3, <2>4, <2>5 DEF Arrive
<1>3. CASE Continue(w)
  <2>1. CASE \E t \in Tokens : TryInsert(w, t)
    BY <2>1 DEF TryInsert, At, Request, NewRowsAreLive
  <2>2. CASE ~ \E t \in Tokens : TryInsert(w, t)
    BY <1>3, <2>2 DEF Continue, Load, LoadUnknown, StoreLoses, StoreWins, Answer302, Scan410,
         Answer410, PatchCommit, PatchRefresh, DeleteCommit, Evict, CreateGivesUp,
         CreateCommit, Request
  <2> QED BY <2>1, <2>2
<1>4. CASE thread'[w] = Idle
  BY <1>4
<1> QED BY <1>1, <1>2, <1>3, <1>4, WorkerCases

(* Both levels speak of the same rows. *)
LEMMA SameRows == Registry!Link = Link
BY DEF Registry!Link, Registry!OptionalInstant, Link, OptionalInstant

(* What a commit makes of a row: an edit, or a retirement. *)
LEMMA CommitIsAtomic ==
  ASSUME TypeOK, KnownTokensOnly, HeldRowsAgree,
         NEW w \in Workers, thread[w].pc \in {"patch", "delete"}, CommitRow(w)
  PROVE  Registry!Edit(thread[w].token) \/ Registry!Retire(thread[w].token)
<1> DEFINE r == thread[w]
           t == r.token
           row == links[t]
<1>1. t \in Tokens /\ r.loaded \in Link /\ r.link \in Link /\ row \in Link
  BY DEF TypeOK, RequestsOK, StoresOK, HoldsOK, HasToken, Mutates, KnownTokensOnly
<1>2. links'[t] = Flush(row, r.loaded, r.link) /\ Registry!Only(t)
  BY <1>1 DEF CommitRow, TypeOK, StoresOK, Registry!Only
<1>3. links'[t] \in Link /\ links'[t].owner = row.owner
  BY <1>1, <1>2, FlushType
<1>4. AgreesWith(r, row.owner)
  BY DEF HeldRowsAgree, Mutates
<1>5. Registry!Writable(t)
  BY <1>1, <1>4 DEF AgreesWith, Registry!Writable, TypeOK, RequestsOK, HoldsOK, Mutates
<1>6. CASE r.pc = "patch"
  <2>1. r.loaded.deleted = r.link.deleted
    BY <1>4, <1>6 DEF AgreesWith
  <2>2. links'[t].deleted = row.deleted
    BY <1>1, <1>2, <2>1 DEF Flush, Link
  <2>3. Registry!Edit(t)
    <3> HIDE DEF t, r, row
    <3> QED BY <1>2, <1>3, <1>5, <2>2, SameRows DEF Registry!Edit, row
  <2> QED BY <2>3
<1>7. CASE r.pc = "delete"
  <2>1. /\ r.loaded.deleted = Null /\ r.link.deleted # Null
        /\ r.link = [r.loaded EXCEPT !.deleted = r.link.deleted]
    BY <1>4, <1>7 DEF AgreesWith
  <2>2. r.link.url = r.loaded.url /\ r.link.expires = r.loaded.expires
    BY <1>1, <2>1 DEF Link
  <2>3. links'[t].deleted = r.link.deleted
    BY <1>1, <1>2, <2>1 DEF Flush, Link
  <2>4. links'[t].url = row.url /\ links'[t].expires = row.expires
    BY <1>1, <1>2, <2>2 DEF Flush, Link
  <2>5. links'[t] = [row EXCEPT !.deleted = links'[t].deleted]
    BY <1>1, <1>3, <2>4 DEF Link
  <2>6. Registry!Retire(t)
    <3> HIDE DEF t, r
    <3> QED BY <1>2, <1>3, <1>5, <2>1, <2>3, <2>5, SameRows DEF Registry!Retire
  <2> QED BY <2>6
<1> QED BY <1>6, <1>7

(* Every step of the handlers is an atomic operation of the registry, or   *)
(* none.                                                                   *)
LEMMA RegistryStep ==
  ASSUME IInv, NewRowsAreLive, [Next]_vars
  PROVE  [Registry!Next]_links
<1> USE DEF IInv
<1>1. DOMAIN links' = Tokens
  BY TypeStep DEF TypeOK, StoresOK
<1>2. ASSUME NEW w \in Workers, thread[w].pc \in {"patch", "delete"}, CommitRow(w)
      PROVE  Registry!Next
  <2>1. thread[w].token \in Tokens
    BY <1>2 DEF TypeOK, RequestsOK, HoldsOK, HasToken
  <2> QED BY <1>1, <1>2, <2>1, CommitIsAtomic DEF Registry!Next
<1>3. ASSUME NEW w \in Workers, CreateCommit(w)
      PROVE  Registry!Next
  <2> DEFINE t == thread[w].token
  <2>1. t \in Tokens /\ thread[w].link \in Link
    BY <1>3 DEF CreateCommit, At, TypeOK, RequestsOK, HoldsOK, HasToken, Creates
  <2>2. links[t] = Null
    BY <1>3 DEF CreateCommit, MintsAreDistinct
  <2>3. links'[t] = thread[w].link /\ Registry!Only(t)
    BY <1>3, <2>1 DEF CreateCommit, TypeOK, StoresOK, Registry!Only
  <2>4. links'[t].owner \in Users \ Demo /\ links'[t].deleted = Null
    BY <1>3, <2>3 DEF CreateCommit, At, NewRowsAreLive, Creates
  <2>5. Registry!Mint(t)
    BY <2>1, <2>2, <2>3, <2>4, SameRows DEF Registry!Mint
  <2> HIDE DEF t
  <2> QED BY <1>1, <2>1, <2>5 DEF Registry!Next
<1> QED BY <1>2, <1>3, WhoWrites

(* Each token is minted once, and its row only ever edited or retired by a *)
(* writable owner, whatever the interleaving of handlers, errors and       *)
(* restarts.                                                               *)
THEOREM RegistryImplemented == Spec => ImplementsRegistry
<1>1. Init => Registry!Init /\ NewRowsAreLive
  <2> SUFFICES ASSUME Init PROVE Registry!Init /\ NewRowsAreLive
    OBVIOUS
  <2>1. links \in [Tokens -> SeedRows \cup {Null}] /\ SeedRows \subseteq Link
    BY DEF Init
  <2>2. Registry!Init
    BY <2>1, SameRows DEF Registry!Init
  <2>3. NewRowsAreLive
    BY DEF Init, NewRowsAreLive, Idle, Creates
  <2> QED BY <2>2, <2>3
<1>2. NewRowsAreLive /\ IInv /\ [Next]_vars => NewRowsAreLive'
  BY NewRowsStep DEF IInv
<1>3. IInv /\ NewRowsAreLive /\ [Next]_vars => [Registry!Next]_links
  BY RegistryStep
<1> QED BY <1>1, <1>2, <1>3, Invariant, PTL DEF Spec, ImplementsRegistry, Registry!Spec

(***************************************************************************)
(* The ledger of answers and Scans.                                        *)
(***************************************************************************)
Background(t) ==
  LET due == scans[t].found + tasks[t]
  IN due <= found[t] /\ (Faults = {} => due = found[t])

Synchronous(t) ==
  LET due == gone[t] + Cardinality(AnsweringGone(t))
  IN due <= scans[t].gone /\ (Faults = {} => due = scans[t].gone)

(* The 410s under way can be counted: each began in a step of its own.     *)
Countable == \A t \in Tokens : IsFiniteSet(AnsweringGone(t))

Ledger == Countable /\ \A t \in Tokens : Background(t) /\ Synchronous(t)

(* A background Scan is owed from its 302 on, until it is written or lost. *)
LEMMA BackgroundStep ==
  ASSUME TypeOK, [Next]_vars, NEW t \in Tokens, Background(t)
  PROVE  Background(t)'
<1> USE DEF TypeOK, StoresOK, Background
<1>0. /\ scans[t].found \in Nat /\ tasks[t] \in Nat /\ found[t] \in Nat
      /\ DOMAIN scans = Tokens /\ DOMAIN tasks = Tokens /\ DOMAIN found = Tokens
  OBVIOUS
<1>1. ASSUME NEW w \in Workers, Answer302(w) PROVE Background(t)'
  <2>1. CASE thread[w].token = t
    <3>1. tasks'[t] = tasks[t] + 1 /\ found'[t] = found[t] + 1 /\ scans' = scans
      BY <1>0, <1>1, <2>1 DEF Answer302
    <3> HIDE DEF TypeOK, StoresOK
    <3> QED BY <1>0, <3>1
  <2>2. CASE thread[w].token # t
    BY <1>0, <1>1, <2>2 DEF Answer302
  <2> QED BY <2>1, <2>2
<1>2. ASSUME NEW w \in Workers, Scan410(w) PROVE Background(t)'
  <2>1. scans'[t].found = scans[t].found /\ UNCHANGED <<found, tasks>>
    BY <1>2 DEF Scan410
  <2> QED BY <2>1
<1>3. ASSUME NEW o \in Tokens, WriteScan(o) PROVE Background(t)'
  <2>1. CASE o = t
    BY <1>0, <1>3, <2>1 DEF WriteScan
  <2>2. CASE o # t
    BY <1>0, <1>3, <2>2 DEF WriteScan
  <2> QED BY <2>1, <2>2
<1>4. ASSUME NEW o \in Tokens, ScanLost(o) PROVE Background(t)'
  <2>1. CASE o = t
    BY <1>0, <1>4, <2>1 DEF ScanLost
  <2>2. CASE o # t
    BY <1>0, <1>4, <2>2 DEF ScanLost
  <2> QED BY <2>1, <2>2
<1>5. CASE Crash
  BY <1>0, <1>5 DEF Crash
<1>6. CASE UNCHANGED ledger
  BY <1>6 DEF ledger
<1>7. CASE \E w \in Workers : Answer410(w)
  BY <1>7 DEF Answer410
<1> QED BY <1>1, <1>2, <1>3, <1>4, <1>5, <1>6, <1>7, ZenonT(40)
    DEF Next, vars, Arrive, Continue, Fail, RedirectHit, RedirectMiss, Load, LoadUnknown,
        StoreLoses, StoreWins, PatchLoad, DeleteLoad, PatchCommit, PatchRefresh,
        DeleteCommit, Evict, CreateBegin, CreateCommit, TryInsert, CreateGivesUp,
        StatementFails, RefreshFails, CommitUnacknowledged, Tick, ledger

(* Only the Scan of a 410 brings a worker to its answer, and only the      *)
(* answer or a crash takes it away.                                        *)
LEMMA WhoAnswersGone ==
  ASSUME TypeOK, [Next]_vars, ~Crash,
         \A w \in Workers : ~Scan410(w) /\ ~Answer410(w)
  PROVE  \A w \in Workers : thread'[w] = thread[w]
                              \/ (thread[w].pc # "gone" /\ thread'[w].pc # "gone")
<1> RequestsOK
  BY DEF TypeOK
<1> USE DEF RequestsOK, Request, Begin, Goto, Finish, Idle
<1>1. ASSUME NEW w \in Workers, Arrive(w)
      PROVE  thread[w].pc # "gone" /\ thread'[w].pc # "gone"
  <2>1. ASSUME NEW t \in Tokens, RedirectHit(w, t) PROVE thread'[w].pc = "answer" /\ At(w, "idle")
    BY <2>1 DEF RedirectHit
  <2>2. ASSUME NEW t \in Tokens, RedirectMiss(w, t) PROVE thread'[w].pc = "load" /\ At(w, "idle")
    BY <2>2 DEF RedirectMiss
  <2>3. ASSUME NEW t \in Tokens, NEW u \in Users, NEW url \in Urls, NEW expires \in Expiries,
               PatchLoad(w, t, u, url, expires)
        PROVE  thread'[w].pc = "patch" /\ At(w, "idle")
    BY <2>3 DEF PatchLoad
  <2>4. ASSUME NEW t \in Tokens, NEW u \in Users, DeleteLoad(w, t, u)
        PROVE  thread'[w].pc \in {"delete", "evict"} /\ At(w, "idle")
    BY <2>4 DEF DeleteLoad
  <2>5. ASSUME NEW u \in Users, NEW url \in Urls, NEW expires \in Expiries,
               CreateBegin(w, u, url, expires)
        PROVE  thread'[w].pc = "mint" /\ At(w, "idle")
    BY <2>5 DEF CreateBegin
  <2> QED BY <1>1, <2>1, <2>2, <2>3, <2>4, <2>5 DEF Arrive, At
<1>2. ASSUME NEW w \in Workers, Continue(w)
      PROVE  thread[w].pc # "gone" /\ thread'[w].pc # "gone"
  <2>1. ASSUME NEW t \in Tokens, TryInsert(w, t)
        PROVE  thread[w].pc # "gone" /\ thread'[w].pc # "gone"
    BY <2>1 DEF TryInsert, At
  <2>2. CASE ~ \E t \in Tokens : TryInsert(w, t)
    BY <1>2, <2>2 DEF Continue, Load, LoadUnknown, StoreLoses, StoreWins, Answer302,
         PatchCommit, PatchRefresh, DeleteCommit, Evict, CreateGivesUp, CreateCommit, At
  <2> QED BY <2>1, <2>2
<1>3. ASSUME NEW w \in Workers, Fail(w)
      PROVE  thread[w].pc # "gone" /\ thread'[w].pc # "gone"
  BY <1>3 DEF Fail, StatementFails, RefreshFails, CommitUnacknowledged, At
<1>4. ASSUME NEW w \in Workers, Arrive(w) \/ Continue(w) \/ Fail(w), NEW v \in Workers
      PROVE  thread'[v] = thread[v] \/ (thread[v].pc # "gone" /\ thread'[v].pc # "gone")
  <2>1. CASE v = w
    BY <1>1, <1>2, <1>3, <1>4, <2>1
  <2>2. CASE v # w
    <3> HIDE DEF RequestsOK, Request, Begin, Goto, Finish, Idle
    <3> QED BY <1>4, <2>2, OneWorker
  <2> QED BY <2>1, <2>2
<1>5. CASE thread' = thread
  BY <1>5
<1> HIDE DEF RequestsOK, Request, Begin, Goto, Finish, Idle
<1>6. (\E w \in Workers : Arrive(w) \/ Continue(w) \/ Fail(w)) \/ thread' = thread
  BY DEF Next, vars, WriteScan, ScanLost, Tick
<1> QED BY <1>4, <1>5, <1>6

(* The Scan of a 410 is written before its answer and never taken back.    *)
LEMMA SynchronousStep ==
  ASSUME TypeOK, [Next]_vars, NEW t \in Tokens, IsFiniteSet(AnsweringGone(t)), Synchronous(t)
  PROVE  IsFiniteSet(AnsweringGone(t))' /\ Synchronous(t)'
<1> DEFINE A == AnsweringGone(t)
<1>0. /\ Cardinality(A) \in Nat /\ gone[t] \in Nat /\ scans[t].gone \in Nat
      /\ DOMAIN gone = Tokens /\ DOMAIN scans = Tokens
  BY FS_CardinalityType DEF TypeOK, StoresOK
<1>1. ASSUME NEW w \in Workers, Scan410(w)
      PROVE  IsFiniteSet(A') /\ Synchronous(t)'
  <2>1. /\ thread' = [thread EXCEPT ![w].pc = "gone"] /\ thread[w].pc = "answer"
        /\ scans' = [scans EXCEPT ![thread[w].token].gone = @ + 1] /\ gone' = gone
    BY <1>1 DEF Scan410, Goto, At
  <2>2. thread \in [Workers -> Request]
    BY DEF TypeOK, RequestsOK
  <2>3. w \notin A
    BY <2>1 DEF AnsweringGone, Serving
  <2>4. CASE thread[w].token = t
    <3>1. A' = A \cup {w}
      BY <2>1, <2>2, <2>4 DEF AnsweringGone, Serving, Request
    <3>2. IsFiniteSet(A') /\ Cardinality(A') = Cardinality(A) + 1
      BY <2>3, <3>1, FS_AddElement
    <3>3. scans'[t].gone = scans[t].gone + 1
      BY <1>0, <2>1, <2>4 DEF TypeOK, StoresOK
    <3> QED BY <1>0, <2>1, <3>2, <3>3 DEF Synchronous
  <2>5. CASE thread[w].token # t
    <3>1. A' = A
      BY <2>1, <2>2, <2>5 DEF AnsweringGone, Serving, Request
    <3>2. scans'[t] = scans[t]
      BY <1>0, <2>1, <2>5
    <3> QED BY <2>1, <3>1, <3>2 DEF Synchronous
  <2> QED BY <2>4, <2>5
<1>2. ASSUME NEW w \in Workers, Answer410(w)
      PROVE  IsFiniteSet(A') /\ Synchronous(t)'
  <2>1. /\ thread' = [thread EXCEPT ![w] = Idle] /\ thread[w].pc = "gone"
        /\ gone' = [gone EXCEPT ![thread[w].token] = @ + 1] /\ scans' = scans
    BY <1>2 DEF Answer410, Finish, At
  <2>2. thread \in [Workers -> Request]
    BY DEF TypeOK, RequestsOK
  <2>3. Idle.pc # "gone"
    BY DEF Idle
  <2>4. CASE thread[w].token = t
    <3>1. A' = A \ {w} /\ w \in A
      BY <2>1, <2>2, <2>3, <2>4 DEF AnsweringGone, Serving
    <3>2. IsFiniteSet(A') /\ Cardinality(A') = Cardinality(A) - 1
      BY <3>1, FS_RemoveElement
    <3>3. gone'[t] = gone[t] + 1
      BY <1>0, <2>1, <2>4
    <3> QED BY <1>0, <2>1, <3>2, <3>3 DEF Synchronous
  <2>5. CASE thread[w].token # t
    <3>1. A' = A
      BY <2>1, <2>2, <2>3, <2>5 DEF AnsweringGone, Serving
    <3>2. gone'[t] = gone[t]
      BY <1>0, <2>1, <2>5
    <3> QED BY <2>1, <3>1, <3>2 DEF Synchronous
  <2> QED BY <2>4, <2>5
<1>3. CASE Crash
  <2>1. A' = {}
    BY <1>3 DEF Crash, Idle, AnsweringGone, Serving
  <2>2. IsFiniteSet(A') /\ Cardinality(A') = 0
    BY <2>1, FS_EmptySet
  <2>3. Faults # {} /\ gone' = gone /\ scans' = scans
    BY <1>3 DEF Crash
  <2>4. gone[t] <= scans[t].gone
    BY <1>0 DEF Synchronous
  <2>5. gone'[t] + Cardinality(A') <= scans'[t].gone
    BY <1>0, <2>2, <2>3, <2>4
  <2>6. Synchronous(t)'
    <3> HIDE DEF A
    <3> QED BY <2>3, <2>5 DEF Synchronous, A
  <2> QED BY <2>2, <2>6
<1>4. CASE ~Crash /\ \A w \in Workers : ~Scan410(w) /\ ~Answer410(w)
  <2>1. \A w \in Workers : thread'[w] = thread[w]
                             \/ (thread[w].pc # "gone" /\ thread'[w].pc # "gone")
    BY <1>4, WhoAnswersGone
  <2>2. A' = A
    BY <2>1 DEF AnsweringGone, Serving
  <2>3. gone' = gone /\ scans'[t].gone = scans[t].gone
    <3>1. ASSUME NEW o \in Tokens, WriteScan(o) PROVE gone' = gone /\ scans'[t].gone = scans[t].gone
      BY <3>1 DEF WriteScan, TypeOK, StoresOK
    <3>2. CASE gone' = gone /\ scans' = scans
      BY <3>2
    <3> QED BY <1>4, <3>1, <3>2, ZenonT(40)
        DEF Next, vars, Arrive, Continue, Fail, RedirectHit, RedirectMiss, Load, LoadUnknown,
            StoreLoses, StoreWins, Answer302, PatchLoad, DeleteLoad, PatchCommit, PatchRefresh,
            DeleteCommit, Evict, CreateBegin, CreateCommit, TryInsert, CreateGivesUp,
            StatementFails, RefreshFails, CommitUnacknowledged, ScanLost, Tick, ledger
  <2> QED BY <2>2, <2>3 DEF Synchronous
<1> QED BY <1>1, <1>2, <1>3, <1>4

(* At most one Scan per 302, at least one per 410, through every crash and *)
(* failed write; exactly one of each when nothing fails.                   *)
THEOREM ScansAreAccounted == Spec => []ScanLedger
<1>1. Init => Ledger
  <2> SUFFICES ASSUME Init, NEW t \in Tokens
               PROVE  IsFiniteSet(AnsweringGone(t)) /\ Background(t) /\ Synchronous(t)
    BY DEF Ledger, Countable
  <2>1. AnsweringGone(t) = {}
    BY DEF Init, Idle, AnsweringGone, Serving
  <2> QED BY <2>1, FS_EmptySet DEF Init, Background, Synchronous
<1>2. IInv /\ Ledger /\ [Next]_vars => Ledger'
  <2> SUFFICES ASSUME IInv, Ledger, [Next]_vars, NEW t \in Tokens
               PROVE  (IsFiniteSet(AnsweringGone(t)) /\ Background(t) /\ Synchronous(t))'
    BY DEF Ledger, Countable
  <2>1. TypeOK /\ IsFiniteSet(AnsweringGone(t)) /\ Background(t) /\ Synchronous(t)
    BY DEF IInv, Ledger, Countable
  <2>2. Background(t)'
    BY <2>1, BackgroundStep
  <2> QED BY <2>1, <2>2, SynchronousStep
<1>3. Ledger => ScanLedger
  BY DEF Ledger, Background, Synchronous, ScanLedger
<1> QED BY <1>1, <1>2, <1>3, Invariant, PTL DEF Spec
==============================================================================
