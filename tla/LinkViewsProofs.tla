--------------------------- MODULE LinkViewsProofs ---------------------------
(***************************************************************************)
(* Theorems of LinkViews, for any accounts, fields, edits and retries.     *)
(*                                                                         *)
(* Typing and AcknowledgedIsShown are inductive.  The others rest on what  *)
(* each query keeps to itself: whose it is (CachedMine), that it always    *)
(* shows something (QueriesShow), and that all the server has said of the  *)
(* Link are states of one history in which it is never undeleted (History).*)
(***************************************************************************)
EXTENDS LinkViews, SessionProofs

USE SessionAssumption, ViewsAssumption

(***************************************************************************)
(* Types.                                                                  *)
(***************************************************************************)
LEMMA SessionStep ==
  ASSUME [ViewsNext]_allVars
  PROVE  [SessionNext]_sessionVars
<1>1. CASE UNCHANGED allVars
  BY <1>1 DEF allVars
<1>2. CASE Quietly \/ MeAnswered \/ \E u \in Accounts : Login(u)
  BY <1>2 DEF SessionNext
<1>3. CASE \E c \in calls : SetSession(c)
  BY <1>3 DEF SessionNext, SetSession
<1>4. CASE UNCHANGED sessionVars
  BY <1>4
<1>5. ASSUME NEW k \in Keys, Refetch(k) \/ GoOn(k) \/ ServeQuery(k) \/ Answers(k)
      PROVE  UNCHANGED sessionVars
  BY <1>5 DEF Refetch, GoOn, ServeQuery, Answers, QueryAnswered, QueryRefused, QueryFailed
<1>6. ASSUME NEW e \in edits, EditGoesOn(e) \/ ServeEdit(e) \/ EditAnswered(e) \/ EditFailed(e)
      PROVE  UNCHANGED sessionVars
  BY <1>6 DEF EditGoesOn, ServeEdit, EditAnswered, EditFailed
<1>7. QED
  BY <1>1, <1>2, <1>3, <1>4, <1>5, <1>6
     DEF ViewsNext, LearnMe, Navigate, Submit, ConfirmDelete, Send

LEMMA BlankTypes == NoAsk \in Ask /\ NoData \in Data /\ NoQuery \in Query
<1>1. NoAsk \in Ask
  BY DEF NoAsk, Ask, Sessions
<1>2. NoData \in Data
  BY DEF NoData, Data
<1>3. QED
  BY <1>1, <1>2 DEF NoQuery, Query

LEMMA SentAsk ==
  ASSUME NEW a \in Ask, cookie \in Sessions
  PROVE  /\ Sent(a) \in Ask
         /\ Sent(a).as = cookie
         /\ Sent(a).state \in {"sent", "paused"}
BY DEF Sent, Ask

LEMMA FetchType ==
  ASSUME NEW q \in Query, cookie \in Sessions
  PROVE  Fetch(q) \in Query
<1>1. Sent(NoAsk) \in Ask
  BY BlankTypes, SentAsk
<1>2. QED
  BY <1>1 DEF Fetch, Query

LEMMA MountType ==
  ASSUME NEW q \in Query, cookie \in Sessions, NEW k, NEW p, NEW user
  PROVE  Mount(q, k, p, user) \in Query
BY FetchType DEF Mount

LEMMA InvalidateType ==
  ASSUME NEW q \in Query, cookie \in Sessions, NEW k
  PROVE  Invalidate(q, k) \in Query
<1> DEFINE stale == [q EXCEPT !.old = q.data.via # "none"]
<1>1. stale \in Query
  BY DEF Query
<1>2. QED
  BY <1>1, FetchType DEF Invalidate

(* The parts of TypeOK that are not the session's.                         *)
Rest ==
  /\ row \in [ver : Nat, gone : BOOLEAN]
  /\ route \in Keys \cup {"other"}
  /\ query \in [Keys -> Query]
  /\ edits \subseteq Edit
  /\ clicks \in 0 .. MaxEdits
  /\ acked \in [ver : Nat, gone : BOOLEAN]

LEMMA QuerySet ==
  ASSUME query \in [Keys -> Query], NEW k \in Keys, NEW q \in Query,
         query' = [query EXCEPT ![k] = q]
  PROVE  query' \in [Keys -> Query]
OBVIOUS

LEMMA PageTypes ==
  ASSUME TypeOK,
         \/ LearnMe
         \/ \E c \in calls : SetSession(c)
         \/ \E p \in Keys \cup {"other"} : Navigate(p)
  PROVE  Rest'
<1> USE DEF TypeOK, SessionTypeOK, Rest
<1>1. CASE LearnMe
  <2>1. \A k \in Keys : query'[k] \in Query
    BY <1>1, MountType DEF LearnMe
  <2>2. QED
    BY <1>1, <2>1 DEF LearnMe
<1>2. ASSUME NEW c \in calls, SetSession(c)
      PROVE  Rest'
  <2>1. \A k \in Keys : query'[k] \in Query
    BY <1>2, BlankTypes, FetchType DEF SetSession
  <2>2. QED
    BY <1>2, <2>1 DEF SetSession
<1>3. ASSUME NEW p \in Keys \cup {"other"}, Navigate(p)
      PROVE  Rest'
  <2>1. \A k \in Keys : query'[k] \in Query
    BY <1>3, MountType DEF Navigate
  <2>2. edits' \subseteq Edit
    <3>1. \A e \in Edit : [e EXCEPT !.here = FALSE] \in Edit
      BY DEF Edit
    <3>2. QED
      BY <1>3, <3>1 DEF Navigate
  <2>3. QED
    BY <1>3, <2>1, <2>2 DEF Navigate
<1>4. QED
  BY <1>1, <1>2, <1>3

LEMMA EditTypes ==
  ASSUME TypeOK,
         \/ \E f \in Forms : Send(f)
         \/ \E e \in edits : EditGoesOn(e) \/ ServeEdit(e) \/ EditAnswered(e) \/ EditFailed(e)
  PROVE  Rest'
<1> USE DEF TypeOK, SessionTypeOK, Rest
<1>1. ASSUME NEW f \in Forms, Send(f)
      PROVE  Rest'
  <2> DEFINE new == [id |-> clicks, form |-> f, as |-> cookie, here |-> TRUE,
                     state |-> IF online THEN "sent" ELSE "paused",
                     ver |-> 0, gone |-> FALSE]
  <2>1. clicks \in 1 .. MaxEdits /\ clicks' \in 0 .. MaxEdits
    BY <1>1 DEF Send
  <2>2. new \in Edit
    BY <2>1 DEF Edit
  <2>3. edits' = edits \cup {new}
    BY <1>1 DEF Send
  <2>4. QED
    BY <1>1, <2>1, <2>2, <2>3 DEF Send
<1>2. ASSUME NEW e \in edits, ServeEdit(e)
      PROVE  Rest'
  <2>1. row' \in [ver : Nat, gone : BOOLEAN]
    <3>1. row' = [ver |-> row.ver + 1, gone |-> row.gone \/ e.form = "delete"]
      BY <1>2 DEF ServeEdit
    <3>2. row.ver + 1 \in Nat
      OBVIOUS
    <3>3. (row.gone \/ e.form = "delete") \in BOOLEAN
      OBVIOUS
    <3>4. QED
      BY <3>1, <3>2, <3>3
  <2>2. edits' \subseteq Edit
    <3>1. [e EXCEPT !.state = "served", !.ver = row'.ver, !.gone = row'.gone] \in Edit
      <4>1. e \in Edit /\ row'.ver \in Nat /\ row'.gone \in BOOLEAN
        BY <2>1
      <4>2. QED
        BY <4>1 DEF Edit
    <3>2. QED
      BY <1>2, <3>1 DEF ServeEdit
  <2>3. QED
    BY <1>2, <2>1, <2>2 DEF ServeEdit
<1>3. ASSUME NEW e \in edits, EditAnswered(e)
      PROVE  Rest'
  <2>1. e \in Edit
    OBVIOUS
  <2>2. Patched(e) \in Query
    <3>1. Older(e.ver, e.as) \in BOOLEAN
      BY DEF Older
    <3>2. [ver |-> e.ver, gone |-> e.gone, as |-> e.as,
           via |-> "edit", late |-> Older(e.ver, e.as)] \in Data
      BY <2>1, <3>1 DEF Data, Edit
    <3>3. query["link"] \in Query
      BY DEF Keys
    <3>4. QED
      BY <3>2, <3>3 DEF Patched, Query
  <2>3. Deleted \in Query
    <3> DEFINE q == query["link"]
    <3>1. q \in Query /\ q.data \in Data
      BY DEF Keys, Query
    <3>2. [q.data EXCEPT !.gone = TRUE] \in Data
      BY <3>1 DEF Data
    <3>3. [q EXCEPT !.data.gone = TRUE, !.err = "none"] \in Query
      BY <3>1, <3>2 DEF Query
    <3>4. QED
      BY <3>1, <3>3, InvalidateType DEF Deleted
  <2>4. Invalidate(query["list"], "list") \in Query
    BY InvalidateType DEF Keys
  <2>5. query' \in [Keys -> Query]
    BY <1>3, <2>2, <2>3, <2>4 DEF EditAnswered, Keys
  <2>6. acked' \in [ver : Nat, gone : BOOLEAN]
    BY <1>3, <2>1 DEF EditAnswered, Edit
  <2>7. QED
    BY <1>3, <2>5, <2>6 DEF EditAnswered
<1>4. ASSUME NEW e \in edits, EditFailed(e)
      PROVE  Rest'
  BY <1>4 DEF EditFailed
<1>5. ASSUME NEW e \in edits, EditGoesOn(e)
      PROVE  Rest'
  <2>1. [e EXCEPT !.state = "sent", !.as = cookie] \in Edit
    BY DEF Edit
  <2>2. QED
    BY <1>5, <2>1, ZenonT(30) DEF EditGoesOn
<1>6. QED
  BY <1>1, <1>2, <1>3, <1>4, <1>5

LEMMA QueryTypes ==
  ASSUME TypeOK, NEW k \in Keys, Refetch(k) \/ GoOn(k) \/ ServeQuery(k) \/ Answers(k)
  PROVE  Rest'
<1> USE DEF TypeOK, SessionTypeOK
<1> DEFINE q == query[k]
           ask == query[k].ask
<1>0. q \in Query /\ ask \in Ask /\ q.data \in Data
  BY DEF Query
<1>1. CASE Refetch(k)
  <2>1. query' = [query EXCEPT ![k] = Fetch(q)]
    BY <1>1 DEF Refetch
  <2>2. QED
    BY <1>0, <1>1, <2>1, FetchType, QuerySet DEF Refetch, Rest
<1>2. CASE ServeQuery(k)
  <2> DEFINE new == [q EXCEPT !.ask = [ask EXCEPT !.state = "answered",
                                                  !.ver = IF ask.as = Owner THEN row.ver ELSE 0,
                                                  !.gone = k = "link" /\ row.gone]]
  <2>1. new \in Query
    BY <1>0 DEF Query, Ask
  <2>2. query' = [query EXCEPT ![k] = new]
    BY <1>2 DEF ServeQuery
  <2>3. QED
    BY <1>2, <2>1, <2>2, QuerySet DEF ServeQuery, Rest
<1>3. CASE QueryAnswered(k)
  <2> DEFINE new == [NoQuery EXCEPT !.data =
                       [ver |-> ask.ver, gone |-> ask.gone, as |-> ask.as,
                        via |-> "query", late |-> Older(ask.ver, ask.as)]]
  <2>1. new \in Query
    BY <1>0, BlankTypes DEF Query, Ask, Data, Older
  <2>2. query' = [query EXCEPT ![k] = new]
    BY <1>3 DEF QueryAnswered
  <2>3. QED
    BY <1>3, <2>1, <2>2, QuerySet DEF QueryAnswered, Rest
<1>4. CASE QueryRefused(k)
  <2> DEFINE new == [q EXCEPT !.ask = NoAsk, !.err = Refusal(k, ask.as)]
  <2>1. new \in Query
    BY <1>0, BlankTypes DEF Query, Refusal
  <2>2. query' = [query EXCEPT ![k] = new]
    BY <1>4 DEF QueryRefused
  <2>3. QED
    BY <1>4, <2>1, <2>2, QuerySet DEF QueryRefused, Rest
<1>5. CASE QueryFailed(k)
  <2> DEFINE new == IF ask.tries < MaxRetries
                      THEN [q EXCEPT !.ask = Sent([ask EXCEPT !.tries = @ + 1])]
                      ELSE [q EXCEPT !.ask = NoAsk, !.err = "failed"]
  <2>1. new \in Query
    <3>1. CASE ask.tries < MaxRetries
      <4>1. ask.tries \in 0 .. MaxRetries /\ ask.tries + 1 \in 0 .. MaxRetries
        BY <1>0, <3>1 DEF Ask
      <4>2. [ask EXCEPT !.tries = @ + 1] \in Ask
        BY <1>0, <4>1 DEF Ask
      <4>3. Sent([ask EXCEPT !.tries = @ + 1]) \in Ask
        BY <4>2, SentAsk
      <4>4. QED
        BY <1>0, <3>1, <4>3 DEF Query
    <3>2. CASE ~(ask.tries < MaxRetries)
      BY <1>0, <3>2, BlankTypes DEF Query
    <3>3. QED
      BY <3>1, <3>2
  <2>2. query' = [query EXCEPT ![k] = new]
    BY <1>5 DEF QueryFailed
  <2>3. QED
    BY <1>5, <2>1, <2>2, QuerySet DEF QueryFailed, Rest
<1>6. CASE GoOn(k)
  <2> DEFINE new == [q EXCEPT !.ask = Sent(@)]
  <2>1. new \in Query
    BY <1>0, SentAsk DEF Query
  <2>2. query' = [query EXCEPT ![k] = new]
    BY <1>6 DEF GoOn
  <2>3. QED
    BY <1>6, <2>1, <2>2, QuerySet DEF GoOn, Rest
<1>7. QED
  BY <1>1, <1>2, <1>3, <1>4, <1>5, <1>6 DEF Answers

LEMMA TypeStep ==
  ASSUME TypeOK, [ViewsNext]_allVars
  PROVE  TypeOK'
<1>1. SessionTypeOK'
  BY SessionStep, SessionTypeNext DEF TypeOK
<1>2. Rest'
  <2>1. CASE UNCHANGED viewVars
    BY <2>1 DEF TypeOK, Rest, viewVars
  <2>2. QED
    BY <2>1, PageTypes, EditTypes, QueryTypes
       DEF ViewsNext, Submit, ConfirmDelete, Forms, allVars
<1>3. QED
  BY <1>1, <1>2 DEF TypeOK, Rest

LEMMA TypeInit == ViewsInit => TypeOK
<1>1. SUFFICES ASSUME ViewsInit
               PROVE  TypeOK
  OBVIOUS
<1>2. query \in [Keys -> Query]
  BY <1>1, BlankTypes DEF ViewsInit
<1>3. QED
  BY <1>1, <1>2, SessionTypeInit DEF ViewsInit, TypeOK

(* Every variable has its type, and no request is retried more often than  *)
(* hooks.ts allows.                                                        *)
THEOREM ViewsTypeCorrect == ViewsSpec => []TypeOK
<1>1. QED
  BY TypeInit, TypeStep, PTL DEF ViewsSpec

(***************************************************************************)
(* Whose data is cached.                                                   *)
(***************************************************************************)
(* What is asked for and what a query has brought are the cookie's, once   *)
(* the page knows of that cookie: SetSession leaves nothing of the old one.*)
Mine(q, u) ==
  /\ q.ask.state # "none" => q.ask.as = u
  /\ q.data.via = "query" => q.data.as = u

CachedMine == known => \A k \in Keys : Mine(query[k], cookie)

LEMMA BlankMine == \A u : Mine(NoQuery, u)
BY DEF Mine, NoQuery, NoAsk, NoData

LEMMA FetchMine ==
  ASSUME NEW q \in Query, cookie \in Sessions, Mine(q, cookie)
  PROVE  Mine(Fetch(q), cookie)
<1>1. Fetch(q).ask = Sent(NoAsk) /\ Fetch(q).data = q.data
  BY DEF Fetch, Query
<1>2. Sent(NoAsk).as = cookie
  BY BlankTypes, SentAsk
<1>3. QED
  BY <1>1, <1>2 DEF Mine

LEMMA MountMine ==
  ASSUME NEW q \in Query, cookie \in Sessions, Mine(q, cookie), NEW k, NEW p, NEW user
  PROVE  Mine(Mount(q, k, p, user), cookie)
BY FetchMine DEF Mount

LEMMA InvalidateMine ==
  ASSUME NEW q \in Query, cookie \in Sessions, Mine(q, cookie), NEW k
  PROVE  Mine(Invalidate(q, k), cookie)
<1> DEFINE stale == [q EXCEPT !.old = q.data.via # "none"]
<1>1. stale \in Query /\ Mine(stale, cookie)
  BY DEF Query, Mine
<1>2. QED
  BY <1>1, FetchMine DEF Invalidate

LEMMA MineStep ==
  ASSUME TypeOK, CachedMine, [ViewsNext]_allVars
  PROVE  CachedMine'
<1> USE DEF TypeOK, SessionTypeOK
<1>1. CASE UNCHANGED query /\ (known' => known /\ cookie' = cookie)
  BY <1>1 DEF CachedMine
<1>2. CASE LearnMe
  <2>1. cookie' = cookie /\ known' = known
    BY <1>2 DEF LearnMe, MeAnswered
  <2>2. known => \A k \in Keys : Mine(query'[k], cookie)
    BY <1>2, MountMine DEF LearnMe, CachedMine
  <2>3. QED
    BY <2>1, <2>2 DEF CachedMine
<1>3. ASSUME NEW c \in calls, SetSession(c)
      PROVE  CachedMine'
  <2>1. cookie' = cookie
    BY <1>3 DEF SetSession, SessionSet
  <2>2. \A k \in Keys : Mine(query'[k], cookie)
    BY <1>3, BlankTypes, BlankMine, FetchMine DEF SetSession
  <2>3. QED
    BY <2>1, <2>2 DEF CachedMine
<1>4. ASSUME NEW p \in Keys \cup {"other"}, Navigate(p)
      PROVE  CachedMine'
  <2>1. cookie' = cookie /\ known' = known
    BY <1>4 DEF Navigate, sessionVars
  <2>2. known => \A k \in Keys : Mine(query'[k], cookie)
    BY <1>4, MountMine DEF Navigate, CachedMine
  <2>3. QED
    BY <2>1, <2>2 DEF CachedMine
<1>5. ASSUME NEW e \in edits, EditAnswered(e), known
      PROVE  CachedMine'
  <2> DEFINE q == query["link"]
  <2>1. q \in Query /\ q.data \in Data /\ Mine(q, cookie)
    BY <1>5 DEF Keys, Query, CachedMine
  <2>2. Mine(Patched(e), cookie)
    BY <2>1 DEF Patched, Query, Mine
  <2>3. Mine(Deleted, cookie)
    <3> DEFINE gone == [q EXCEPT !.data.gone = TRUE, !.err = "none"]
    <3>1. [q.data EXCEPT !.gone = TRUE] \in Data
      BY <2>1 DEF Data
    <3>2. gone \in Query /\ Mine(gone, cookie)
      BY <2>1, <3>1 DEF Query, Data, Mine
    <3>3. QED
      BY <2>1, <3>2, InvalidateMine DEF Deleted
  <2>4. Mine(Invalidate(query["list"], "list"), cookie)
    BY <1>5, InvalidateMine DEF CachedMine, Keys
  <2>5. cookie' = cookie
    BY <1>5 DEF EditAnswered, sessionVars
  <2>6. QED
    BY <1>5, <2>2, <2>3, <2>4, <2>5 DEF EditAnswered, CachedMine, Keys
<1>6. ASSUME NEW k \in Keys, Refetch(k) \/ GoOn(k) \/ ServeQuery(k) \/ Answers(k), known
      PROVE  CachedMine'
  <2>1. query[k] \in Query /\ query[k].ask \in Ask /\ Mine(query[k], cookie)
    BY <1>6 DEF Query, CachedMine
  <2>2. cookie' = cookie /\ \A j \in Keys \ {k} : query'[j] = query[j]
    BY <1>6 DEF Refetch, GoOn, ServeQuery, Answers, QueryAnswered, QueryRefused, QueryFailed, sessionVars
  <2>3. Mine(query'[k], cookie)
    <3>1. CASE Refetch(k)
      BY <2>1, <3>1, FetchMine DEF Refetch
    <3>2. CASE ServeQuery(k)
      BY <2>1, <3>2 DEF ServeQuery, Mine, Query, Ask
    <3>3. CASE QueryAnswered(k)
      BY <2>1, <3>3, BlankTypes DEF QueryAnswered, Mine, NoQuery, NoAsk
    <3>4. CASE QueryRefused(k)
      BY <2>1, <3>4 DEF QueryRefused, Mine, Query, NoAsk
    <3>5. CASE QueryFailed(k)
      <4> DEFINE again == [query[k].ask EXCEPT !.tries = @ + 1]
      <4>1. \/ query'[k].ask = Sent(again) /\ Sent(again).as = cookie
            \/ query'[k].ask.state = "none"
        BY <2>1, <3>5 DEF QueryFailed, Query, NoAsk, Sent, Ask
      <4>2. query'[k].data = query[k].data
        BY <2>1, <3>5 DEF QueryFailed, Query
      <4>3. QED
        BY <2>1, <4>1, <4>2 DEF Mine
    <3>6. CASE GoOn(k)
      BY <2>1, <3>6, SentAsk DEF GoOn, Mine, Query
    <3>7. QED
      BY <1>6, <3>1, <3>2, <3>3, <3>4, <3>5, <3>6 DEF Answers
  <2>4. QED
    BY <1>6, <2>2, <2>3 DEF CachedMine
<1>7. CASE UNCHANGED viewVars /\ (Quietly \/ \E u \in Accounts : Login(u))
  <2>1. CASE Expire \/ \E c \in calls : SetCookie(c)
    BY <1>1, <1>7, <2>1 DEF viewVars, Expire, SetCookie
  <2>2. CASE ~(Expire \/ \E c \in calls : SetCookie(c))
    <3>1. UNCHANGED <<cookie, known>>
      BY <1>7, <2>2
         DEF Quietly, AskMe, MeGoesOn, MeFailed, LoginAsGuest, Logout, Login, Call, CallGoesOn,
             CallFailed, GoOffline, GoOnline
    <3>2. QED
      BY <1>1, <1>7, <3>1 DEF viewVars
  <2>3. QED
    BY <2>1, <2>2
<1>8. CASE \/ UNCHANGED allVars
           \/ \E f \in Forms : Send(f)
           \/ \E e \in edits : EditGoesOn(e) \/ ServeEdit(e) \/ EditFailed(e)
  <2>1. UNCHANGED <<query, known, cookie>>
    BY <1>8 DEF allVars, viewVars, sessionVars, Send, EditGoesOn, ServeEdit, EditFailed
  <2>2. QED
    BY <1>1, <2>1
<1>9. CASE /\ ~known
           /\ \/ \E e \in edits : EditAnswered(e)
              \/ \E k \in Keys : Refetch(k) \/ GoOn(k) \/ ServeQuery(k) \/ Answers(k)
  <2>1. UNCHANGED sessionVars
    BY <1>9 DEF EditAnswered, Refetch, GoOn, ServeQuery, Answers,
                QueryAnswered, QueryRefused, QueryFailed
  <2>2. QED
    BY <1>9, <2>1 DEF CachedMine, sessionVars
<1>10. QED
  BY <1>2, <1>3, <1>4, <1>5, <1>6, <1>7, <1>8, <1>9 DEF ViewsNext, Submit, ConfirmDelete, Forms

LEMMA MineAlways == ViewsSpec => [](TypeOK /\ CachedMine)
<1>1. ViewsInit => CachedMine
  BY BlankMine DEF ViewsInit, CachedMine
<1>2. QED
  BY <1>1, TypeInit, TypeStep, MineStep, PTL DEF ViewsSpec

(* Once the page knows of a sign-in or sign-out, what is cached was fetched*)
(* for the account signed in now, or an edit of the previous one that was  *)
(* answered after the change wrote it: useAuth.ts drops the rest.          *)
THEOREM NoOthersData == ViewsSpec => []OthersDataIsALateEdit
<1>1. TypeOK /\ CachedMine => OthersDataIsALateEdit
  BY DEF TypeOK, Query, Data, CachedMine, Mine, HasData, OthersDataIsALateEdit
<1>2. QED
  BY <1>1, MineAlways, PTL

(***************************************************************************)
(* What the pages show.                                                    *)
(***************************************************************************)
(* A query with an observer has something to show for itself.              *)
Shows(q) == q.ask.state # "none" \/ q.data.via # "none" \/ q.err # "none"

(* An error without data has no request behind it.                         *)
Settled(q) == q.data.via = "none" /\ q.err # "none" => q.ask.state = "none"

QueriesShow ==
  /\ \A k \in Keys : Settled(query[k]) /\ (Observed(k, route, me) => Shows(query[k]))
  /\ me = Unknown => query["list"] = NoQuery

LEMMA FetchShows ==
  ASSUME NEW q \in Query, cookie \in Sessions
  PROVE  Settled(Fetch(q)) /\ Shows(Fetch(q))
<1>1. Fetch(q).ask.state # "none" /\ Fetch(q).data = q.data
  BY BlankTypes, SentAsk DEF Fetch, Query
<1>2. q.data.via = "none" => Fetch(q).err = "none"
  BY DEF Fetch, Query
<1>3. QED
  BY <1>1, <1>2 DEF Settled, Shows

LEMMA MountShows ==
  ASSUME NEW q \in Query, cookie \in Sessions, Settled(q), NEW k, NEW p, NEW user
  PROVE  /\ Settled(Mount(q, k, p, user))
         /\ Observed(k, p, user) => Shows(Mount(q, k, p, user))
BY FetchShows DEF Mount, MustFetch, Shows

LEMMA InvalidateShows ==
  ASSUME NEW q \in Query, cookie \in Sessions, Settled(q), NEW k
  PROVE  /\ Settled(Invalidate(q, k))
         /\ Observed(k, route, me) => Shows(Invalidate(q, k))
<1> DEFINE stale == [q EXCEPT !.old = q.data.via # "none"]
<1>1. stale \in Query /\ Settled(stale)
  BY DEF Query, Settled
<1>2. FirstLoad(q) => Shows(stale)
  BY <1>1 DEF FirstLoad, Shows, Query
<1>3. QED
  BY <1>1, <1>2, FetchShows DEF Invalidate

LEMMA NotObserved ==
  ASSUME me = Unknown, NEW p
  PROVE  ~Observed("list", p, me)
BY DEF Observed

LEMMA ShowStep ==
  ASSUME TypeOK, QueriesShow, [ViewsNext]_allVars
  PROVE  QueriesShow'
<1> USE DEF TypeOK, SessionTypeOK
<1>1. CASE UNCHANGED <<me, route, query>>
  BY <1>1 DEF QueriesShow, Observed
<1>2. CASE LearnMe
  <2>1. me' = meAsk.as /\ meAsk.as \in Sessions /\ route' = route
    BY <1>2 DEF LearnMe, MeAnswered
  <2>2. me' # Unknown
    BY <2>1 DEF Sessions
  <2>3. \A k \in Keys : /\ Settled(query'[k])
                        /\ Observed(k, route, meAsk.as) => Shows(query'[k])
    BY <1>2, MountShows DEF LearnMe, QueriesShow
  <2>4. QED
    BY <2>1, <2>2, <2>3 DEF QueriesShow, Observed
<1>3. ASSUME NEW c \in calls, SetSession(c)
      PROVE  QueriesShow'
  <2>1. me' = c.to /\ c.to # Unknown /\ route' = route
    BY <1>3 DEF SetSession, SessionSet, CallOf, Sessions
  <2>2. Settled(NoQuery)
    BY DEF Settled, NoQuery, NoAsk
  <2>3. \A k \in Keys : /\ Settled(query'[k])
                        /\ Observed(k, route, c.to) => Shows(query'[k])
    BY <1>3, <2>2, BlankTypes, FetchShows DEF SetSession
  <2>4. QED
    BY <2>1, <2>3 DEF QueriesShow, Observed
<1>4. ASSUME NEW p \in Keys \cup {"other"}, Navigate(p)
      PROVE  QueriesShow'
  <2>1. me' = me /\ route' = p
    BY <1>4 DEF Navigate, sessionVars
  <2>2. \A k \in Keys : /\ Settled(query'[k])
                        /\ Observed(k, p, me) => Shows(query'[k])
    BY <1>4, MountShows DEF Navigate, QueriesShow
  <2>3. me = Unknown => query'["list"] = query["list"]
    BY <1>4, NotObserved DEF Navigate, Mount, Keys
  <2>4. QED
    BY <2>1, <2>2, <2>3 DEF QueriesShow, Observed
<1>5. ASSUME NEW e \in edits, EditAnswered(e)
      PROVE  QueriesShow'
  <2> DEFINE q == query["link"]
  <2>1. q \in Query /\ q.data \in Data /\ Settled(q)
    BY DEF Keys, Query, QueriesShow
  <2>2. Settled(Patched(e)) /\ Shows(Patched(e))
    BY <2>1 DEF Patched, Query, Settled, Shows
  <2>3. /\ Settled(Deleted)
        /\ Observed("link", route, me) => Shows(Deleted)
    <3> DEFINE gone == [q EXCEPT !.data.gone = TRUE, !.err = "none"]
    <3>1. [q.data EXCEPT !.gone = TRUE] \in Data
      BY <2>1 DEF Data
    <3>2. gone \in Query /\ Settled(gone)
      BY <2>1, <3>1 DEF Query, Settled
    <3>3. QED
      BY <2>1, <3>2, InvalidateShows DEF Deleted
  <2>4. query["list"] \in Query /\ Settled(query["list"])
    BY DEF Keys, QueriesShow
  <2>5. /\ Settled(Invalidate(query["list"], "list"))
        /\ Observed("list", route, me) => Shows(Invalidate(query["list"], "list"))
    BY <2>4, InvalidateShows
  <2>6. me = Unknown => Invalidate(query["list"], "list") = NoQuery
    <3>1. NoQuery.data.via = "none"
      BY DEF NoQuery, NoData
    <3>2. [NoQuery EXCEPT !.old = FALSE] = NoQuery
      <4>1. NoQuery \in Query /\ NoQuery.old = FALSE
        BY BlankTypes DEF NoQuery
      <4>2. QED
        BY <4>1 DEF Query
    <3>3. [NoQuery EXCEPT !.old = NoQuery.data.via # "none"] = NoQuery
      <4>1. (NoQuery.data.via # "none") = FALSE
        BY <3>1
      <4>2. QED
        BY <3>2, <4>1
    <3>4. me = Unknown => Invalidate(NoQuery, "list") = NoQuery
      BY <3>3, NotObserved DEF Invalidate
    <3>5. QED
      BY <3>4 DEF QueriesShow
  <2>7. me' = me /\ route' = route
    BY <1>5 DEF EditAnswered, sessionVars
  <2>8. /\ query'["list"] = Invalidate(query["list"], "list")
        /\ query'["link"] = IF e.form = "delete" THEN Deleted ELSE Patched(e)
    BY <1>5 DEF EditAnswered
  <2>9. QED
    BY <2>2, <2>3, <2>5, <2>6, <2>7, <2>8 DEF QueriesShow, Observed, Keys
<1>6. ASSUME NEW k \in Keys, Refetch(k) \/ GoOn(k) \/ ServeQuery(k) \/ Answers(k)
      PROVE  QueriesShow'
  <2>1. query[k] \in Query /\ query[k].ask \in Ask /\ Settled(query[k])
    BY DEF Query, QueriesShow
  <2>2. me' = me /\ route' = route /\ \A j \in Keys \ {k} : query'[j] = query[j]
    BY <1>6 DEF Refetch, GoOn, ServeQuery, Answers, QueryAnswered, QueryRefused, QueryFailed, sessionVars
  <2>3. Settled(query'[k]) /\ Shows(query'[k])
    <3>1. CASE Refetch(k)
      BY <2>1, <3>1, FetchShows DEF Refetch
    <3>2. CASE ServeQuery(k)
      BY <2>1, <3>2 DEF ServeQuery, Settled, Shows, Query, Ask
    <3>3. CASE QueryAnswered(k)
      BY <2>1, <3>3, BlankTypes DEF QueryAnswered, Settled, Shows, NoQuery, NoAsk
    <3>4. CASE QueryRefused(k)
      BY <2>1, <3>4 DEF QueryRefused, Settled, Shows, Query, NoAsk
    <3>5. CASE QueryFailed(k)
      <4>1. \/ query'[k].ask.state # "none" /\ query'[k].err = query[k].err
            \/ query'[k].ask.state = "none" /\ query'[k].err = "failed"
        BY <2>1, <3>5 DEF QueryFailed, Query, Ask, NoAsk, Sent
      <4>2. query'[k].data = query[k].data /\ query[k].ask.state # "none"
        BY <2>1, <3>5 DEF QueryFailed, Query
      <4>3. QED
        BY <2>1, <4>1, <4>2 DEF Settled, Shows
    <3>6. CASE GoOn(k)
      <4>1. query'[k].ask.state # "none" /\ query[k].ask.state # "none"
        BY <2>1, <3>6, SentAsk DEF GoOn, Query
      <4>2. query'[k].data = query[k].data /\ query'[k].err = query[k].err
        BY <2>1, <3>6 DEF GoOn, Query
      <4>3. QED
        BY <2>1, <4>1, <4>2 DEF Settled, Shows
    <3>7. QED
      BY <1>6, <3>1, <3>2, <3>3, <3>4, <3>5, <3>6 DEF Answers
  <2>4. me = Unknown => k # "list"
    <3>1. me = Unknown => ~Observed("list", route, me)
      BY NotObserved
    <3>2. me = Unknown => query["list"].ask.state = "none"
      BY DEF QueriesShow, NoQuery, NoAsk
    <3>3. QED
      BY <1>6, <3>1, <3>2
         DEF Refetch, GoOn, ServeQuery, Answers, QueryAnswered, QueryRefused, QueryFailed
  <2>5. QED
    BY <2>2, <2>3, <2>4 DEF QueriesShow, Observed, Keys
<1>7. CASE UNCHANGED viewVars /\ (Quietly \/ \E u \in Accounts : Login(u))
  <2>1. me' = me
    BY <1>7
       DEF Quietly, AskMe, MeGoesOn, MeFailed, LoginAsGuest, Logout, Login, Call, CallGoesOn,
           SetCookie, CallFailed, Expire, GoOffline, GoOnline
  <2>2. QED
    BY <1>1, <1>7, <2>1 DEF viewVars
<1>8. CASE \/ UNCHANGED allVars
           \/ \E f \in Forms : Send(f)
           \/ \E e \in edits : EditGoesOn(e) \/ ServeEdit(e) \/ EditFailed(e)
  BY <1>1, <1>8 DEF allVars, viewVars, sessionVars, Send, EditGoesOn, ServeEdit, EditFailed
<1>9. QED
  BY <1>2, <1>3, <1>4, <1>5, <1>6, <1>7, <1>8 DEF ViewsNext, Submit, ConfirmDelete, Forms

LEMMA ShowInit == ViewsInit => QueriesShow
<1>1. Settled(NoQuery)
  BY DEF Settled, NoQuery, NoAsk
<1>2. ASSUME ViewsInit, NEW k \in Keys
      PROVE  ~Observed(k, route, me)
  BY <1>2 DEF ViewsInit, Observed, Keys
<1>3. QED
  BY <1>1, <1>2 DEF ViewsInit, QueriesShow, Keys

LEMMA ShowAlways == ViewsSpec => [](TypeOK /\ QueriesShow)
<1>1. QED
  BY ShowInit, ShowStep, TypeInit, TypeStep, PTL DEF ViewsSpec

(* What is not loading although it is asked for is paused.                 *)
LEMMA PausedOrLoading ==
  ASSUME TypeOK, NEW k \in Keys, ~HasData(k), query[k].ask.state # "none"
  PROVE  Loading(k) \/ query[k].ask.state = "paused"
<1>1. query[k].ask \in Ask
  BY DEF TypeOK, Query
<1>2. QED
  BY <1>1 DEF Ask, Loading

LEMMA DashboardShowsOne ==
  ASSUME TypeOK, QueriesShow, route = "list"
  PROVE  \/ \E p \in Dashboard : Dashboard = {p}
         \/ Dashboard = {} /\ query["list"].ask.state = "paused"
<1> DEFINE q == query["list"]
           prompt  == SignedOut \/ q.err = "401"
           loading == IsLoading \/ (IsAuthenticated /\ Loading("list"))
<1>1. /\ Settled(q)
      /\ IsAuthenticated => Shows(q)
      /\ IsLoading => q.err = "none"
  BY DEF QueriesShow, Observed, IsAuthenticated, IsLoading, NoQuery, Keys
<1>2. CASE prompt
  <2>1. Dashboard = {"prompt"}
    BY <1>2 DEF Dashboard
  <2>2. QED
    BY <2>1
<1>3. CASE ~prompt /\ loading
  <2>1. q.err = "none"
    BY <1>1, <1>3 DEF Settled, Loading, HasData
  <2>2. Dashboard = {"spinner"}
    BY <1>3, <2>1 DEF Dashboard
  <2>3. QED
    BY <2>2
<1>4. CASE ~prompt /\ ~loading
  <2>1. IsAuthenticated /\ ~Loading("list") /\ Shows(q)
    BY <1>1, <1>4 DEF SignedOut
  <2>2. CASE q.err = "none" /\ HasData("list")
    <3>1. Dashboard = {"links"}
      BY <1>4, <2>2 DEF Dashboard
    <3>2. QED
      BY <3>1
  <2>3. CASE q.err = "none" /\ ~HasData("list")
    <3>1. Dashboard = {}
      BY <1>4, <2>3 DEF Dashboard
    <3>2. q.ask.state # "none"
      BY <2>1, <2>3 DEF Shows, HasData
    <3>3. QED
      BY <2>1, <2>3, <3>1, <3>2, PausedOrLoading DEF Keys
  <2>4. CASE q.err # "none"
    <3>1. Dashboard = {"error"}
      BY <1>4, <2>4 DEF Dashboard
    <3>2. QED
      BY <3>1
  <2>5. QED
    BY <2>2, <2>3, <2>4
<1>5. QED
  BY <1>2, <1>3, <1>4

LEMMA LinkDetailShows ==
  ASSUME TypeOK, QueriesShow, route = "link"
  PROVE  LinkDetail # {} \/ query["link"].ask.state = "paused"
<1> DEFINE q == query["link"]
<1>1. CASE SignedOut
  BY <1>1 DEF LinkDetail
<1>2. CASE ~SignedOut
  <2>1. q \in Query /\ Shows(q)
    BY DEF TypeOK, QueriesShow, Observed, Keys
  <2>2. q.err \in {"none", "401", "404", "failed"}
    BY <2>1 DEF Query
  <2>3. CASE HasData("link")
    <3>1. "link" \in LinkDetail
      BY <1>2, <2>3 DEF LinkDetail
    <3>2. QED
      BY <3>1
  <2>4. CASE ~HasData("link") /\ q.ask.state # "none"
    <3>1. Loading("link") => "spinner" \in LinkDetail
      BY <1>2 DEF LinkDetail
    <3>2. QED
      BY <2>4, <3>1, PausedOrLoading DEF Keys
  <2>5. CASE q.err # "none"
    <3>1. \/ "prompt" \in LinkDetail
          \/ "notFound" \in LinkDetail
          \/ "error" \in LinkDetail
      BY <1>2, <2>2, <2>5 DEF LinkDetail
    <3>2. QED
      BY <3>1
  <2>6. QED
    BY <2>1, <2>3, <2>4, <2>5 DEF Shows, HasData
<1>3. QED
  BY <1>1, <1>2

(* Dashboard.tsx shows one thing at a time and LinkDetail.tsx shows        *)
(* something, whichever of the session and the query comes first, fails,   *)
(* is dropped or goes offline, unless the query of the page is paused: the *)
(* paused query is the one cause of a blank page.                          *)
THEOREM BlankPageExplained == ViewsSpec => []BlankOnlyWhilePaused
<1>1. TypeOK /\ QueriesShow => BlankOnlyWhilePaused
  BY DashboardShowsOne, LinkDetailShows DEF BlankOnlyWhilePaused
<1>2. QED
  BY <1>1, ShowAlways, PTL

(***************************************************************************)
(* What an acknowledged edit has to do with the cached data.               *)
(***************************************************************************)
LEMMA FetchKeepsData ==
  ASSUME NEW q \in Query, cookie \in Sessions
  PROVE  /\ Fetch(q).data = q.data
         /\ Fetch(q).old = q.old
         /\ Fetch(q).ask.state # "answered"
<1>1. Fetch(q).ask = Sent(NoAsk) /\ Fetch(q).data = q.data /\ Fetch(q).old = q.old
  BY DEF Fetch, Query
<1>2. Sent(NoAsk).state # "answered"
  BY BlankTypes, SentAsk
<1>3. QED
  BY <1>1, <1>2

LEMMA MountKeepsData ==
  ASSUME NEW q \in Query, cookie \in Sessions, NEW k, NEW p, NEW user
  PROVE  LET m == Mount(q, k, p, user) IN
         m.data = q.data /\ m.old = q.old /\ (m.ask = q.ask \/ m.ask.state # "answered")
BY FetchKeepsData DEF Mount

LEMMA InvalidateKeepsData ==
  ASSUME NEW q \in Query, cookie \in Sessions, NEW k
  PROVE  LET i == Invalidate(q, k) IN
         /\ i.data = q.data
         /\ q.data.via # "none" => i.old
         /\ i.ask = q.ask \/ i.ask.state # "answered"
<1> DEFINE stale == [q EXCEPT !.old = q.data.via # "none"]
<1>1. stale \in Query /\ stale.data = q.data /\ stale.ask = q.ask
  BY DEF Query
<1>2. q.data.via # "none" => stale.old
  BY DEF Query
<1>3. QED
  BY <1>1, <1>2, FetchKeepsData DEF Invalidate

(* AcknowledgedIsShown of one key.                                         *)
Current(q) ==
  q.data.via # "none" /\ q.data.as = Owner /\ ~q.old /\ ~q.data.late => q.data.ver >= acked.ver

LEMMA PointwiseCurrent == AcknowledgedIsShown <=> \A k \in Keys : Current(query[k])
BY DEF AcknowledgedIsShown, Current, HasData

(* Whatever is no older than acked by its data alone.                      *)
LEMMA SameDataCurrent ==
  ASSUME NEW q, NEW r, Current(q), r.data = q.data, r.old = q.old \/ r.old
  PROVE  Current(r)
BY DEF Current

LEMMA BlankCurrent == Current(NoQuery)
BY DEF Current, NoQuery, NoData

LEMMA CurrentStep ==
  ASSUME TypeOK, AcknowledgedIsShown, [ViewsNext]_allVars
  PROVE  AcknowledgedIsShown'
<1> USE DEF TypeOK, SessionTypeOK
<1>0. \A k \in Keys : query[k] \in Query /\ query[k].data \in Data /\ query[k].ask \in Ask
                      /\ Current(query[k])
  BY PointwiseCurrent DEF Query
<1>1. CASE UNCHANGED <<query, acked>>
  BY <1>1 DEF AcknowledgedIsShown, HasData
<1>2. ASSUME UNCHANGED acked, \A k \in Keys : Current(query'[k])
      PROVE  AcknowledgedIsShown'
  BY <1>2 DEF AcknowledgedIsShown, HasData, Current
<1>3. CASE LearnMe
  <2>1. \A k \in Keys : Current(query'[k])
    BY <1>0, <1>3, MountKeepsData, SameDataCurrent DEF LearnMe
  <2>2. QED
    BY <1>2, <1>3, <2>1 DEF LearnMe
<1>4. ASSUME NEW c \in calls, SetSession(c)
      PROVE  AcknowledgedIsShown'
  <2>1. \A k \in Keys : Current(query'[k])
    BY <1>4, BlankTypes, BlankCurrent, FetchKeepsData, SameDataCurrent DEF SetSession
  <2>2. QED
    BY <1>2, <1>4, <2>1 DEF SetSession
<1>5. ASSUME NEW p \in Keys \cup {"other"}, Navigate(p)
      PROVE  AcknowledgedIsShown'
  <2>1. \A k \in Keys : Current(query'[k])
    BY <1>0, <1>5, MountKeepsData, SameDataCurrent DEF Navigate
  <2>2. QED
    BY <1>2, <1>5, <2>1 DEF Navigate
<1>6. ASSUME NEW e \in edits, EditAnswered(e)
      PROVE  AcknowledgedIsShown'
  <2> DEFINE q == query["link"]
  <2>1. q \in Query /\ q.data \in Data /\ e \in Edit
    BY <1>0 DEF Keys
  <2>2. acked' = IF e.ver > acked.ver THEN [ver |-> e.ver, gone |-> e.gone] ELSE acked
    BY <1>6 DEF EditAnswered
  <2>3. ASSUME e.form = "delete"
        PROVE  query'["link"].data.via # "none" => query'["link"].old
    <3>1. query'["link"] = Deleted
      BY <1>6, <2>3 DEF EditAnswered
    <3>2. Deleted.data.via # "none" => Deleted.old
      <4> DEFINE gone == [q EXCEPT !.data.gone = TRUE, !.err = "none"]
      <4>1. [q.data EXCEPT !.gone = TRUE] \in Data
        BY <2>1 DEF Data
      <4>2. gone \in Query
        BY <2>1, <4>1 DEF Query
      <4>3. QED
        BY <2>1, <4>2, InvalidateKeepsData DEF Deleted
    <3>3. QED
      BY <3>1, <3>2
  <2>4. ASSUME e.form # "delete"
        PROVE  ~query'["link"].data.late => query'["link"].data.ver >= acked'.ver \/ e.as # Owner
    <3>1. query'["link"].data = [ver |-> e.ver, gone |-> e.gone, as |-> e.as,
                                 via |-> "edit", late |-> Older(e.ver, e.as)]
      BY <1>6, <2>1, <2>4 DEF EditAnswered, Patched, Query
    <3>2. e.ver \in Nat /\ acked.ver \in Nat
      BY <2>1 DEF Edit
    <3>3. CASE e.ver > acked.ver
      BY <2>2, <3>1, <3>2, <3>3
    <3>4. CASE ~(e.ver > acked.ver)
      <4>1. Older(e.ver, e.as) <=> e.as = Owner /\ e.ver < acked.ver
        BY DEF Older
      <4>2. query'["link"].data.late = Older(e.ver, e.as)
        <5>1. PICK l : l = Older(e.ver, e.as)
          BY Zenon
        <5>2. query'["link"].data.late = l
          BY <3>1, <5>1
        <5>3. QED
          BY <5>1, <5>2, Zenon
      <4>3. e.as = Owner /\ ~query'["link"].data.late => ~(e.ver < acked.ver)
        BY <4>1, <4>2, Zenon
      <4>4. query'["link"].data.ver = e.ver /\ acked' = acked
        BY <2>2, <3>1, <3>4
      <4>5. QED
        BY <3>2, <4>3, <4>4
    <3>5. QED
      BY <3>3, <3>4
  <2>5. query'["list"].data.via # "none" => query'["list"].old
    <3>1. query'["list"] = Invalidate(query["list"], "list") /\ query["list"] \in Query
      BY <1>0, <1>6 DEF EditAnswered, Keys
    <3>2. QED
      BY <3>1, InvalidateKeepsData
  <2>6. e.form # "delete" => query'["link"].data.as = e.as
    BY <1>6, <2>1 DEF EditAnswered, Patched, Query
  <2>7. QED
    BY <2>3, <2>4, <2>5, <2>6 DEF AcknowledgedIsShown, HasData, Keys
<1>7. ASSUME NEW k \in Keys, Refetch(k) \/ GoOn(k) \/ ServeQuery(k) \/ Answers(k)
      PROVE  AcknowledgedIsShown'
  <2>1. acked' = acked /\ \A j \in Keys \ {k} : query'[j] = query[j]
    BY <1>7 DEF Refetch, GoOn, ServeQuery, Answers, QueryAnswered, QueryRefused, QueryFailed
  <2>2. Current(query'[k])
    <3>1. CASE Refetch(k)
      BY <1>0, <3>1, FetchKeepsData, SameDataCurrent DEF Refetch
    <3>2. CASE ServeQuery(k)
      BY <1>0, <3>2, SameDataCurrent DEF ServeQuery, Query
    <3>3. CASE QueryAnswered(k)
      <4> DEFINE ask == query[k].ask
      <4>1. query'[k].data = [ver |-> ask.ver, gone |-> ask.gone, as |-> ask.as,
                              via |-> "query", late |-> Older(ask.ver, ask.as)]
        BY <3>3, BlankTypes DEF QueryAnswered, Query
      <4>2. ask.ver \in Nat /\ acked.ver \in Nat
        BY <1>0 DEF Ask
      <4>3. Older(ask.ver, ask.as) <=> ask.as = Owner /\ ask.ver < acked.ver
        BY DEF Older
      <4>4. query'[k].data.late = Older(ask.ver, ask.as)
        <5>1. PICK l : l = Older(ask.ver, ask.as)
          BY Zenon
        <5>2. query'[k].data.late = l
          BY <4>1, <5>1
        <5>3. QED
          BY <5>1, <5>2, Zenon
      <4>5. ask.as = Owner /\ ~query'[k].data.late => ask.ver >= acked.ver
        <5>1. ask.as = Owner /\ ~query'[k].data.late => ~(ask.ver < acked.ver)
          BY <4>3, <4>4, Zenon
        <5>2. QED
          BY <4>2, <5>1
      <4>6. query'[k].data.ver = ask.ver /\ query'[k].data.as = ask.as
        BY <4>1
      <4>7. QED
        BY <4>5, <4>6 DEF Current
    <3>4. CASE QueryRefused(k)
      BY <1>0, <3>4, SameDataCurrent DEF QueryRefused, Query
    <3>5. CASE QueryFailed(k)
      BY <1>0, <3>5, SameDataCurrent DEF QueryFailed, Query
    <3>6. CASE GoOn(k)
      BY <1>0, <3>6, SameDataCurrent DEF GoOn, Query
    <3>7. QED
      BY <1>7, <3>1, <3>2, <3>3, <3>4, <3>5, <3>6 DEF Answers
  <2>3. QED
    BY <1>0, <1>2, <2>1, <2>2
<1>8. CASE UNCHANGED viewVars
  BY <1>1, <1>8 DEF viewVars
<1>9. CASE \/ \E f \in Forms : Send(f)
           \/ \E e \in edits : EditGoesOn(e) \/ ServeEdit(e) \/ EditFailed(e)
  BY <1>1, <1>9 DEF Send, EditGoesOn, ServeEdit, EditFailed
<1>10. QED
  BY <1>3, <1>4, <1>5, <1>6, <1>7, <1>8, <1>9
     DEF ViewsNext, Submit, ConfirmDelete, Forms, allVars

(* Cached data that nothing has invalidated is no older than any edit the  *)
(* server has acknowledged, unless answers overtook each other: hooks.ts   *)
(* writes the answer of an edit and invalidates the rest.                  *)
THEOREM AcknowledgedEditsShow == ViewsSpec => []AcknowledgedIsShown
<1>1. ViewsInit => AcknowledgedIsShown
  BY BlankCurrent, PointwiseCurrent DEF ViewsInit
<1>2. QED
  BY <1>1, CurrentStep, TypeInit, TypeStep, PTL DEF ViewsSpec

(***************************************************************************)
(* A deletion that was acknowledged.  Everything the server has said of    *)
(* the Link to its owner is a state it once had, and the Link never comes  *)
(* back: of two such states the newer is gone if the older is.             *)
(***************************************************************************)
Answer == {a \in {query["link"].ask} : a.state = "answered" /\ a.as = Owner}

Said == {row, acked} \cup {e \in edits : e.state = "served"} \cup Answer

NeverBack(s, t) == s.ver <= t.ver /\ s.gone => t.gone

History ==
  /\ \A s, t \in Said : NeverBack(s, t)
  /\ \A s \in Said : s.ver \in Nat /\ s.ver <= row.ver
  /\ \A e \in edits : e.state = "served" => e.as = Owner

LEMMA HistoryStep ==
  ASSUME TypeOK, History, [ViewsNext]_allVars
  PROVE  History'
<1> USE DEF TypeOK, SessionTypeOK
<1>0. /\ \A s, t \in Said : NeverBack(s, t)
      /\ \A s \in Said : s.ver \in Nat /\ s.ver <= row.ver
      /\ \A e \in edits : e.state = "served" => e.as = Owner
      /\ row \in Said /\ acked \in Said
  BY DEF History, Said
<1>1. ASSUME row' = row, Said' \subseteq Said, \A e \in edits' : e.state = "served" => e.as = Owner
      PROVE  History'
  BY <1>0, <1>1 DEF History, NeverBack
<1>2. ASSUME UNCHANGED <<row, acked, edits>>,
             \/ query'["link"].ask = query["link"].ask
             \/ query'["link"].ask.state # "answered"
      PROVE  History'
  <2>1. Answer' \subseteq Answer
    BY <1>2 DEF Answer
  <2>2. QED
    BY <1>0, <1>1, <1>2, <2>1 DEF Said
<1>3. CASE UNCHANGED <<row, acked, edits, query>>
  BY <1>2, <1>3
<1>4. CASE LearnMe
  BY <1>2, <1>4, MountKeepsData DEF LearnMe, Keys
<1>5. ASSUME NEW c \in calls, SetSession(c)
      PROVE  History'
  <2>1. query'["link"].ask.state # "answered"
    BY <1>5, BlankTypes, FetchKeepsData DEF SetSession, Keys, NoQuery, NoAsk
  <2>2. QED
    BY <1>2, <1>5, <2>1 DEF SetSession
<1>6. ASSUME NEW p \in Keys \cup {"other"}, Navigate(p)
      PROVE  History'
  <2> DEFINE left(e) == [e EXCEPT !.here = FALSE]
  <2>1. \A e \in edits : /\ left(e).state = e.state /\ left(e).as = e.as
                         /\ left(e).ver = e.ver /\ left(e).gone = e.gone
    BY DEF Edit
  <2>2. UNCHANGED <<row, acked>> /\ edits' = {left(e) : e \in edits} /\ Answer' \subseteq Answer
    BY <1>6, MountKeepsData DEF Navigate, Keys, Answer
  <2> HIDE DEF left
  <2>3. \A s \in Said' : \E t \in Said : s.ver = t.ver /\ s.gone = t.gone
    <3>1. ASSUME NEW s \in edits', s.state = "served"
          PROVE  \E t \in Said : s.ver = t.ver /\ s.gone = t.gone
      <4>1. PICK e \in edits : s = left(e)
        BY <2>2, <3>1
      <4>2. e \in Said
        BY <2>1, <3>1, <4>1 DEF Said
      <4>3. QED
        BY <2>1, <4>1, <4>2
    <3>2. \A s \in Said' : s \in Said \/ (s \in edits' /\ s.state = "served")
      BY <2>2 DEF Said
    <3>3. QED
      BY <3>1, <3>2
  <2>4. \A e \in edits' : e.state = "served" => e.as = Owner
    <3>1. SUFFICES ASSUME NEW s \in edits', s.state = "served"
                   PROVE  s.as = Owner
      OBVIOUS
    <3>2. PICK e \in edits : s = left(e)
      BY <2>2
    <3>3. QED
      BY <1>0, <2>1, <3>1, <3>2
  <2>5. \A s, t \in Said' : NeverBack(s, t)
    BY <1>0, <2>3 DEF NeverBack
  <2>6. \A s \in Said' : s.ver \in Nat /\ s.ver <= row'.ver
    BY <1>0, <2>2, <2>3
  <2>7. QED
    BY <2>4, <2>5, <2>6 DEF History
<1>7. ASSUME NEW e \in edits, ServeEdit(e)
      PROVE  History'
  <2> DEFINE new == [e EXCEPT !.state = "served", !.ver = row'.ver, !.gone = row'.gone]
  <2>1. row'.ver = row.ver + 1 /\ row.ver \in Nat /\ (row.gone => row'.gone)
    BY <1>7 DEF ServeEdit
  <2>2. new.ver = row'.ver /\ new.gone = row'.gone /\ new.as = Owner
    BY <1>7 DEF ServeEdit, MayEdit, Edit
  <2>3. Said' \subseteq Said \cup {row', new}
    BY <1>7 DEF ServeEdit, Said, Answer
  <2>4. \A s \in Said' : s \in Said \/ (s.ver = row'.ver /\ s.gone = row'.gone)
    BY <2>2, <2>3
  <2>5. \A s \in Said : s.ver \in Nat /\ s.ver < row'.ver /\ (s.gone => row'.gone)
    BY <1>0, <2>1 DEF NeverBack
  <2>6. \A s, t \in Said' : NeverBack(s, t)
    <3>1. SUFFICES ASSUME NEW s \in Said', NEW t \in Said'
                   PROVE  NeverBack(s, t)
      OBVIOUS
    <3>2. CASE s \in Said /\ t \in Said
      BY <1>0, <3>2
    <3>3. CASE t.ver = row'.ver /\ t.gone = row'.gone
      BY <2>4, <2>5, <3>3 DEF NeverBack
    <3>4. CASE s.ver = row'.ver /\ t \in Said
      BY <2>1, <2>5, <3>4 DEF NeverBack
    <3>5. QED
      BY <2>4, <3>2, <3>3, <3>4
  <2>7. \A s \in Said' : s.ver \in Nat /\ s.ver <= row'.ver
    BY <2>1, <2>4, <2>5
  <2>8. \A f \in edits' : f.state = "served" => f.as = Owner
    BY <1>0, <1>7, <2>2 DEF ServeEdit
  <2>9. QED
    BY <2>6, <2>7, <2>8 DEF History
<1>8. ASSUME NEW e \in edits, EditAnswered(e)
      PROVE  History'
  <2> DEFINE q == query["link"]
             said == [ver |-> e.ver, gone |-> e.gone]
  <2>1. q \in Query /\ q.data \in Data
    BY DEF Keys, Query
  <2>2. Deleted.ask = q.ask \/ Deleted.ask.state # "answered"
    <3> DEFINE gone == [q EXCEPT !.data.gone = TRUE, !.err = "none"]
    <3>1. [q.data EXCEPT !.gone = TRUE] \in Data
      BY <2>1 DEF Data
    <3>2. gone \in Query
      BY <2>1, <3>1, ZenonT(30) DEF Query
    <3>3. gone.ask = q.ask
      BY <2>1 DEF Query
    <3> DEFINE p == IF HasData("link") THEN gone ELSE q
    <3>4. p \in Query /\ p.ask = q.ask
      BY <2>1, <3>2, <3>3
    <3>5. Deleted = Invalidate(p, "link")
      BY DEF Deleted
    <3> HIDE DEF p
    <3>6. Invalidate(p, "link").ask = p.ask \/ Invalidate(p, "link").ask.state # "answered"
      BY <3>4, InvalidateKeepsData
    <3>7. QED
      BY <3>4, <3>5, <3>6
  <2>3. Patched(e).ask = q.ask
    BY <2>1 DEF Patched, Query
  <2>4. query'["link"].ask = q.ask \/ query'["link"].ask.state # "answered"
    BY <1>8, <2>2, <2>3 DEF EditAnswered
  <2>5. Answer' \subseteq Answer
    BY <2>4 DEF Answer
  <2>6. row' = row /\ edits' \subseteq edits /\ acked' \in {acked, said} /\ e \in Said
    BY <1>8 DEF EditAnswered, Said
  <2>7. \A s \in Said' : \E t \in Said : s.ver = t.ver /\ s.gone = t.gone
    BY <2>5, <2>6 DEF Said
  <2>8. \A s, t \in Said' : NeverBack(s, t)
    BY <1>0, <2>7 DEF NeverBack
  <2>9. \A s \in Said' : s.ver \in Nat /\ s.ver <= row'.ver
    BY <1>0, <2>6, <2>7
  <2>10. QED
    BY <1>0, <2>6, <2>8, <2>9 DEF History
<1>9. ASSUME NEW e \in edits, EditFailed(e)
      PROVE  History'
  <2>1. Said' \subseteq Said
    BY <1>9 DEF EditFailed, Said, Answer
  <2>2. QED
    BY <1>0, <1>1, <1>9, <2>1 DEF EditFailed
<1>10. ASSUME NEW f \in Forms, Send(f)
      PROVE  History'
  <2>1. \A e \in edits' : e.state = "served" => e \in edits
    BY <1>10 DEF Send
  <2>2. Said' \subseteq Said /\ row' = row
    BY <1>10, <2>1 DEF Send, Said, Answer
  <2>3. QED
    BY <1>0, <1>1, <2>1, <2>2
<1>11. ASSUME NEW k \in Keys, Refetch(k) \/ GoOn(k) \/ Answers(k)
      PROVE  History'
  <2>1. query[k] \in Query /\ query[k].ask \in Ask
    BY DEF Query
  <2>2. UNCHANGED <<row, acked, edits>> /\ \A j \in Keys \ {k} : query'[j] = query[j]
    BY <1>11 DEF Refetch, GoOn, Answers, QueryAnswered, QueryRefused, QueryFailed
  <2>3. query'[k].ask.state # "answered"
    <3>1. CASE Refetch(k)
      BY <2>1, <3>1, FetchKeepsData DEF Refetch
    <3>2. CASE QueryAnswered(k)
      BY <2>1, <3>2, BlankTypes DEF QueryAnswered, NoQuery, NoAsk
    <3>3. CASE QueryRefused(k)
      BY <2>1, <3>3 DEF QueryRefused, Query, NoAsk
    <3>4. CASE QueryFailed(k)
      BY <2>1, <3>4 DEF QueryFailed, Query, Ask, NoAsk, Sent
    <3>5. CASE GoOn(k)
      BY <2>1, <3>5, SentAsk DEF GoOn, Query
    <3>6. QED
      BY <1>11, <3>1, <3>2, <3>3, <3>4, <3>5 DEF Answers
  <2>4. QED
    BY <1>2, <2>2, <2>3 DEF Keys
<1>12. ASSUME NEW k \in Keys, ServeQuery(k)
      PROVE  History'
  <2>1. query[k] \in Query /\ query[k].ask \in Ask
    BY DEF Query
  <2>2. UNCHANGED <<row, acked, edits>> /\ \A j \in Keys \ {k} : query'[j] = query[j]
    BY <1>12 DEF ServeQuery
  <2>3. CASE k = "list"
    BY <1>2, <2>2, <2>3 DEF Keys
  <2>4. CASE k = "link"
    <3> DEFINE a == query'["link"].ask
    <3>1. a.as = Owner => a.ver = row.ver /\ a.gone = row.gone
      BY <1>12, <2>1, <2>4 DEF ServeQuery, Query, Ask
    <3>2. \A s \in Said' : \E t \in Said : s.ver = t.ver /\ s.gone = t.gone
      BY <1>0, <2>2, <3>1 DEF Said, Answer
    <3>3. \A s, t \in Said' : NeverBack(s, t)
      BY <1>0, <3>2 DEF NeverBack
    <3>4. \A s \in Said' : s.ver \in Nat /\ s.ver <= row'.ver
      BY <1>0, <2>2, <3>2
    <3>5. QED
      BY <1>0, <2>2, <3>3, <3>4 DEF History
  <2>5. QED
    BY <2>3, <2>4 DEF Keys
<1>13. ASSUME NEW e \in edits, EditGoesOn(e)
       PROVE  History'
  <2>1. \A f \in edits' : f.state = "served" => f \in edits
    BY <1>13 DEF EditGoesOn, Edit
  <2>2. Said' \subseteq Said /\ row' = row
    BY <1>13, <2>1 DEF EditGoesOn, Said, Answer
  <2>3. QED
    BY <1>0, <1>1, <2>1, <2>2
<1>14. CASE UNCHANGED viewVars
  BY <1>3, <1>14 DEF viewVars
<1>15. QED
  BY <1>4, <1>5, <1>6, <1>7, <1>8, <1>9, <1>10, <1>11, <1>12, <1>13, <1>14
     DEF ViewsNext, Submit, ConfirmDelete, Forms, allVars

LEMMA DeletionStep ==
  ASSUME TypeOK, History, DeletionIsShown, [ViewsNext]_allVars
  PROVE  DeletionIsShown'
<1> USE DEF TypeOK, SessionTypeOK
<1> DEFINE q == query["link"]
<1>0. q \in Query /\ q.data \in Data /\ q.ask \in Ask
  BY DEF Query, Keys
<1>1. ASSUME acked' = acked, query'["link"].data = q.data
      PROVE  DeletionIsShown'
  BY <1>1 DEF DeletionIsShown, HasData
<1>2. CASE UNCHANGED <<acked, query>>
  BY <1>1, <1>2
<1>3. CASE LearnMe
  BY <1>0, <1>1, <1>3, MountKeepsData DEF LearnMe, Keys
<1>4. ASSUME NEW c \in calls, SetSession(c)
      PROVE  DeletionIsShown'
  <2>1. query'["link"].data = NoData
    BY <1>4, BlankTypes, FetchKeepsData DEF SetSession, Keys, NoQuery
  <2>2. QED
    BY <2>1 DEF DeletionIsShown, HasData, NoData
<1>5. ASSUME NEW p \in Keys \cup {"other"}, Navigate(p)
      PROVE  DeletionIsShown'
  BY <1>0, <1>1, <1>5, MountKeepsData DEF Navigate, Keys
<1>6. ASSUME NEW e \in edits, EditAnswered(e)
      PROVE  DeletionIsShown'
  <2>1. e \in Edit /\ e \in Said /\ acked \in Said
    BY <1>6 DEF EditAnswered, Said
  <2>2. CASE e.form = "delete"
    <3> DEFINE gone == [q EXCEPT !.data.gone = TRUE, !.err = "none"]
    <3>1. query'["link"] = Deleted
      BY <1>6, <2>2 DEF EditAnswered
    <3>2. [q.data EXCEPT !.gone = TRUE] \in Data
      BY <1>0 DEF Data
    <3>3. gone \in Query /\ gone.data.gone
      BY <1>0, <3>2 DEF Query, Data
    <3>4. HasData("link") => Deleted.data.gone
      BY <1>0, <3>3, InvalidateKeepsData DEF Deleted
    <3>5. ~HasData("link") => Deleted.data.via = "none"
      BY <1>0, InvalidateKeepsData DEF Deleted, HasData
    <3>6. QED
      BY <3>1, <3>4, <3>5 DEF DeletionIsShown, HasData
  <2>3. CASE e.form # "delete"
    <3>1. query'["link"].data = [ver |-> e.ver, gone |-> e.gone, as |-> e.as,
                                 via |-> "edit", late |-> Older(e.ver, e.as)]
      BY <1>0, <1>6, <2>3 DEF EditAnswered, Patched, Query
    <3>2. acked' = IF e.ver > acked.ver THEN [ver |-> e.ver, gone |-> e.gone] ELSE acked
      BY <1>6 DEF EditAnswered
    <3>3. CASE e.ver > acked.ver
      BY <3>1, <3>2, <3>3 DEF DeletionIsShown
    <3>4. CASE ~(e.ver > acked.ver)
      <4>1. acked' = acked /\ query'["link"].data.gone = e.gone /\ query'["link"].data.as = e.as
        BY <3>1, <3>2, <3>4
      <4>2. query'["link"].data.late = Older(e.ver, e.as)
        <5>1. PICK l : l = Older(e.ver, e.as)
          BY Zenon
        <5>2. query'["link"].data.late = l
          BY <3>1, <5>1
        <5>3. QED
          BY <5>1, <5>2, Zenon
      <4>3. e.as = Owner /\ ~query'["link"].data.late => ~(e.ver < acked.ver)
        BY <4>2, Zenon DEF Older
      <4>4. e.as = Owner /\ ~query'["link"].data.late /\ acked.gone => e.gone
        <5>1. e.ver \in Nat /\ acked.ver \in Nat /\ NeverBack(acked, e)
          BY <2>1 DEF History, Edit
        <5>2. QED
          BY <4>3, <5>1 DEF NeverBack
      <4>5. QED
        BY <4>1, <4>4 DEF DeletionIsShown
    <3>5. QED
      BY <3>3, <3>4
  <2>4. QED
    BY <2>2, <2>3
<1>7. ASSUME NEW k \in Keys, Refetch(k) \/ GoOn(k) \/ ServeQuery(k) \/ QueryRefused(k) \/ QueryFailed(k)
      PROVE  DeletionIsShown'
  <2>1. query[k] \in Query
    OBVIOUS
  <2>2. acked' = acked /\ \A j \in Keys \ {k} : query'[j] = query[j]
    BY <1>7 DEF Refetch, GoOn, ServeQuery, QueryRefused, QueryFailed
  <2>3. query'[k].data = query[k].data
    <3>1. CASE Refetch(k)
      BY <2>1, <3>1, FetchKeepsData DEF Refetch
    <3>2. CASE ServeQuery(k)
      BY <2>1, <3>2 DEF ServeQuery, Query
    <3>3. CASE QueryRefused(k)
      BY <2>1, <3>3 DEF QueryRefused, Query
    <3>4. CASE QueryFailed(k)
      BY <2>1, <3>4 DEF QueryFailed, Query
    <3>5. CASE GoOn(k)
      BY <2>1, <3>5 DEF GoOn, Query
    <3>6. QED
      BY <1>7, <3>1, <3>2, <3>3, <3>4, <3>5
  <2>4. QED
    BY <1>1, <2>2, <2>3 DEF Keys
<1>8. ASSUME NEW k \in Keys, QueryAnswered(k)
      PROVE  DeletionIsShown'
  <2>1. acked' = acked /\ \A j \in Keys \ {k} : query'[j] = query[j]
    BY <1>8 DEF QueryAnswered
  <2>2. CASE k = "list"
    BY <1>1, <2>1, <2>2 DEF Keys
  <2>3. CASE k = "link"
    <3> DEFINE a == q.ask
               d == query'["link"].data
    <3>1. d = [ver |-> a.ver, gone |-> a.gone, as |-> a.as,
               via |-> "query", late |-> Older(a.ver, a.as)]
      BY <1>8, <2>3, BlankTypes DEF QueryAnswered, Query, Keys
    <3>2. d.late = Older(a.ver, a.as)
      <4>1. PICK l : l = Older(a.ver, a.as)
        BY Zenon
      <4>2. d.late = l
        BY <3>1, <4>1
      <4>3. QED
        BY <4>1, <4>2, Zenon
    <3>3. d.gone = a.gone /\ d.as = a.as
      BY <3>1
    <3>4. a.as = Owner /\ ~d.late => ~(a.ver < acked.ver)
      BY <3>2, Zenon DEF Older
    <3>5. a.as = Owner /\ ~d.late /\ acked.gone => a.gone
      <4>1. a.as = Owner => a \in Said
        BY <1>8, <2>3 DEF QueryAnswered, Said, Answer
      <4>2. a.as = Owner => NeverBack(acked, a)
        BY <4>1 DEF History, Said
      <4>3. a.ver \in Nat /\ acked.ver \in Nat
        BY <1>0 DEF Ask
      <4>4. QED
        BY <3>4, <4>2, <4>3 DEF NeverBack
    <3>6. QED
      BY <2>1, <3>3, <3>5 DEF DeletionIsShown
  <2>4. QED
    BY <2>2, <2>3 DEF Keys
<1>9. CASE UNCHANGED viewVars
  BY <1>2, <1>9 DEF viewVars
<1>10. CASE \/ \E f \in Forms : Send(f)
            \/ \E e \in edits : EditGoesOn(e) \/ ServeEdit(e) \/ EditFailed(e)
  BY <1>2, <1>10 DEF Send, EditGoesOn, ServeEdit, EditFailed
<1>11. QED
  BY <1>3, <1>4, <1>5, <1>6, <1>7, <1>8, <1>9, <1>10
     DEF ViewsNext, Submit, ConfirmDelete, Forms, Answers, allVars

(* After an acknowledged deletion no refetch, failed or late, makes        *)
(* LinkDetail.tsx offer the Link for editing again, unless an answer from  *)
(* before the deletion came after it.                                      *)
THEOREM DeletionStays == ViewsSpec => []DeletionIsShown
<1>1. ViewsInit => History /\ DeletionIsShown
  <2>1. SUFFICES ASSUME ViewsInit
                 PROVE  History /\ DeletionIsShown
    OBVIOUS
  <2>2. Said = {row, acked}
    <3>1. query["link"].ask.state = "none"
      BY <2>1 DEF ViewsInit, Keys, NoQuery, NoAsk
    <3>2. QED
      BY <2>1, <3>1 DEF ViewsInit, Said, Answer
  <2>3. QED
    BY <2>1, <2>2 DEF ViewsInit, History, NeverBack, DeletionIsShown
<1>2. QED
  BY <1>1, HistoryStep, DeletionStep, TypeInit, TypeStep, PTL DEF ViewsSpec
==============================================================================
