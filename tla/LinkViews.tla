------------------------------ MODULE LinkViews ------------------------------
(***************************************************************************)
(* What a browser tab shows of a Link (frontend/src/state/linkEntry,       *)
(* pages/LinkDetail.tsx, pages/Dashboard.tsx): the cached answers of the   *)
(* Link and of the list, the forms that edit it, and the requests between  *)
(* them and the server, which answers in any order, or not at all.         *)
(*                                                                         *)
(* There is one Link.  Its content is the number of edits it has had: all  *)
(* that the properties tell apart is which of two answers is the newer.    *)
(***************************************************************************)
EXTENDS Session

CONSTANTS Owner,       \* the account that owns the Link
          Fields,      \* the forms that PATCH a field of it
          MaxEdits,    \* bound: PATCHes and DELETEs in a behaviour
          MaxRetries   \* of a query whose request fails

ASSUME ViewsAssumption ==
  /\ Owner \in Accounts
  /\ "delete" \notin Fields
  /\ MaxEdits \in Nat /\ MaxRetries \in Nat

Forms == Fields \cup {"delete"}
Keys == {"link", "list"}

NoAsk == [state |-> "none", as |-> Nobody, ver |-> 0, gone |-> FALSE, tries |-> 0]
NoData == [ver |-> 0, gone |-> FALSE, as |-> Unknown, via |-> "none", late |-> FALSE]
NoQuery == [data |-> NoData, old |-> FALSE, err |-> "none", ask |-> NoAsk]

VARIABLES row,     \* the Link in the database
          route,   \* the route: link, list (the dashboard) or other
          query,   \* key -> cached data, invalidated?, error, request in flight
          edits,   \* PATCHes and DELETEs in flight
          clicks,  \* edits that may still be made
          acked    \* the newest content an answered edit has reported

viewVars == <<row, route, query, edits, clicks, acked>>
allVars == <<sessionVars, viewVars>>

ViewsInit ==
  /\ SessionInit
  /\ row = [ver |-> 1, gone |-> FALSE]
  /\ route = "other"
  /\ query = [k \in Keys |-> NoQuery]
  /\ edits = {}
  /\ clicks = MaxEdits
  /\ acked = [ver |-> 0, gone |-> FALSE]

HasData(k) == query[k].data.via # "none"
IsIdle(k) == query[k].ask.state = "none"

(* isLoading: a first load that is under way, and not paused.              *)
Loading(k) == ~HasData(k) /\ query[k].ask.state \in {"sent", "answered"}

(* A query has an enabled observer: Dashboard holds its request until      *)
(* somebody is signed in, LinkDetail does not.                             *)
Observed(k, p, user) == p = k /\ (k = "list" => user \in Accounts)

(* A request is sent with the cookie there is, or paused while offline.    *)
Sent(ask) == [ask EXCEPT !.state = IF online THEN "sent" ELSE "paused", !.as = cookie]

(* An error goes when a query without data is asked again.                 *)
Fetch(q) ==
  [q EXCEPT !.ask = Sent(NoAsk),
            !.err = IF q.data.via = "none" THEN "none" ELSE @]

(* A mount, or becoming enabled, fetches what is absent or invalidated.    *)
MustFetch(q) == q.ask.state = "none" /\ (q.data.via = "none" \/ q.old)

Mount(q, k, p, user) ==
  IF Observed(k, p, user) /\ MustFetch(q) THEN Fetch(q) ELSE q

FirstLoad(q) == q.data.via = "none" /\ q.ask.state # "none"

(* invalidateQueries: an observed query is asked again at once, and what   *)
(* was under way cancelled - but not its first load, which goes on.  A     *)
(* query that is not observed will be asked again when it is mounted.      *)
Invalidate(q, k) ==
  LET stale == [q EXCEPT !.old = q.data.via # "none"]
  IN  IF Observed(k, route, me) /\ ~FirstLoad(q) THEN Fetch(stale) ELSE stale

(***************************************************************************)
(* The session changes.  resetQueries and removeQueries drop data and      *)
(* requests of everything but the me query; what is on the page is asked   *)
(* for again with the cookie there is.                                     *)
(***************************************************************************)
(* Mutant: what is in flight is kept. *)
SetSessionKeepsRequests(c) ==
  /\ SessionSet(c)
  /\ query' = [k \in Keys |-> IF ~IsIdle(k) THEN [NoQuery EXCEPT !.ask = query[k].ask]
                              ELSE Mount(NoQuery, k, route, c.to)]
  /\ UNCHANGED <<row, route, edits, clicks, acked>>

SetSession(c) ==
  /\ SessionSet(c)
  /\ query' = [k \in Keys |-> IF Observed(k, route, c.to) THEN Fetch(NoQuery) ELSE NoQuery]
  /\ UNCHANGED <<row, route, edits, clicks, acked>>

(* Mutant: nobody asks for the list when it becomes enabled. *)
LearnMeOnly ==
  /\ MeAnswered
  /\ UNCHANGED viewVars

LearnMe ==
  /\ MeAnswered
  /\ query' = [k \in Keys |-> Mount(query[k], k, route, meAsk.as)]
  /\ UNCHANGED <<row, route, edits, clicks, acked>>

(***************************************************************************)
(* The pages.                                                              *)
(***************************************************************************)
Navigate(p) ==
  /\ p # route
  /\ route' = p
  /\ edits' = {[e EXCEPT !.here = FALSE] : e \in edits}
  /\ query' = [k \in Keys |-> Mount(query[k], k, p, me)]
  /\ UNCHANGED <<sessionVars, row, clicks, acked>>

(* Data older than 30 seconds is asked for again on a mount or when the    *)
(* window gets the focus or the network back, an error at any time.        *)
Refetch(k) ==
  /\ Observed(k, route, me) /\ IsIdle(k)
  /\ query' = [query EXCEPT ![k] = Fetch(@)]
  /\ UNCHANGED <<sessionVars, row, route, edits, clicks, acked>>

(* Back online, what was paused goes on.  react-query has paused edits     *)
(* settle before it goes on with queries; here they go on in any order.    *)
GoOn(k) ==
  /\ online /\ query[k].ask.state = "paused"
  /\ query' = [query EXCEPT ![k].ask = Sent(@)]
  /\ UNCHANGED <<sessionVars, row, route, edits, clicks, acked>>

EditGoesOn(e) ==
  /\ online /\ e.state = "paused"
  /\ edits' = (edits \ {e}) \cup {[e EXCEPT !.state = "sent", !.as = cookie]}
  /\ UNCHANGED <<sessionVars, row, route, query, clicks, acked>>

(* LinkDetail shows the Link and its forms, one for each field; a button   *)
(* is disabled while its own request is pending.                           *)
LinkShown == route = "link" /\ HasData("link") /\ ~SignedOut
IsPending(f) == \E e \in edits : e.form = f /\ e.here

Send(f) ==
  /\ LinkShown /\ ~IsPending(f)
  /\ clicks > 0
  /\ clicks' = clicks - 1
  /\ edits' = edits \cup {[id |-> clicks, form |-> f, as |-> cookie, here |-> TRUE,
                            state |-> IF online THEN "sent" ELSE "paused",
                            ver |-> 0, gone |-> FALSE]}
  /\ UNCHANGED <<sessionVars, row, route, query, acked>>

(* A form that was opened before stays when the Link turns out deleted.    *)
Submit(f) == f \in Fields /\ Send(f)

ConfirmDelete == ~query["link"].data.gone /\ Send("delete")

(***************************************************************************)
(* The server.  Only the owner sees the Link, and the demo account edits   *)
(* nothing; a deleted Link is still shown, and cannot be PATCHed.          *)
(***************************************************************************)
MayEdit(u) == u = Owner /\ u # Guest

ServeEdit(e) ==
  /\ e.state = "sent"
  /\ MayEdit(e.as)
  /\ row.gone => e.form = "delete"
  /\ row' = [ver |-> row.ver + 1, gone |-> row.gone \/ e.form = "delete"]
  /\ edits' = (edits \ {e}) \cup
               {[e EXCEPT !.state = "served", !.ver = row'.ver, !.gone = row'.gone]}
  /\ UNCHANGED <<sessionVars, route, query, clicks, acked>>

(* The status of a refusal: nobody is asked to sign in, others find        *)
(* nothing.  Everyone has a list of their own.                             *)
Refusal(k, u) ==
  CASE u = Nobody                  -> "401"
    [] k = "link" /\ u \in Accounts \ {Owner} -> "404"
    [] OTHER                       -> "none"

ServeQuery(k) ==
  LET ask == query[k].ask IN
  /\ ask.state = "sent"
  /\ Refusal(k, ask.as) = "none"
  /\ query' = [query EXCEPT ![k].ask =
       [ask EXCEPT !.state = "answered",
                   !.ver = IF ask.as = Owner THEN row.ver ELSE 0,
                   !.gone = k = "link" /\ row.gone]]
  /\ UNCHANGED <<sessionVars, row, route, edits, clicks, acked>>

(***************************************************************************)
(* The answers.  A refetch that is refused or fails keeps the data.        *)
(***************************************************************************)
Older(ver, u) == u = Owner /\ ver < acked.ver

QueryAnswered(k) ==
  LET ask == query[k].ask IN
  /\ ask.state = "answered"
  /\ query' = [query EXCEPT ![k] =
       [NoQuery EXCEPT !.data = [ver |-> ask.ver, gone |-> ask.gone, as |-> ask.as,
                                 via |-> "query", late |-> Older(ask.ver, ask.as)]]]
  /\ UNCHANGED <<sessionVars, row, route, edits, clicks, acked>>

(* Mutant: a refusal is retried, without end. *)
QueryRefusedForever(k) ==
  LET ask == query[k].ask IN
  /\ ask.state = "sent"
  /\ Refusal(k, ask.as) # "none"
  /\ query' = [query EXCEPT ![k].ask.as = cookie,
                            ![k].ask.tries = (@ + 1) % (MaxRetries + 1)]
  /\ UNCHANGED <<sessionVars, row, route, edits, clicks, acked>>

(* retry: a status below 500 is final.                                     *)
QueryRefused(k) ==
  LET ask == query[k].ask IN
  /\ ask.state = "sent"
  /\ Refusal(k, ask.as) # "none"
  /\ query' = [query EXCEPT ![k].ask = NoAsk, ![k].err = Refusal(k, ask.as)]
  /\ UNCHANGED <<sessionVars, row, route, edits, clicks, acked>>

(* Mutant: one retry too many. *)
QueryFailedOnceMore(k) ==
  LET ask == query[k].ask IN
  /\ ask.state = "sent"
  /\ query' = [query EXCEPT ![k] =
       IF ask.tries <= MaxRetries
         THEN [@ EXCEPT !.ask = Sent([ask EXCEPT !.tries = @ + 1])]
         ELSE [@ EXCEPT !.ask = NoAsk, !.err = "failed"]]
  /\ UNCHANGED <<sessionVars, row, route, edits, clicks, acked>>

(* Lost, or the server failed: retried with the cookie of then, unless     *)
(* offline by then.                                                        *)
QueryFailed(k) ==
  LET ask == query[k].ask IN
  /\ ask.state = "sent"
  /\ query' = [query EXCEPT ![k] =
       IF ask.tries < MaxRetries
         THEN [@ EXCEPT !.ask = Sent([ask EXCEPT !.tries = @ + 1])]
         ELSE [@ EXCEPT !.ask = NoAsk, !.err = "failed"]]
  /\ UNCHANGED <<sessionVars, row, route, edits, clicks, acked>>

(* onLinkMutated, and the onSuccess of the delete.  They run whether or    *)
(* not the page that sent the edit is still there.                         *)
Patched(e) ==
  [query["link"] EXCEPT !.old = FALSE, !.err = "none",
     !.data = [ver |-> e.ver, gone |-> e.gone, as |-> e.as,
               via |-> "edit", late |-> Older(e.ver, e.as)]]

(* Mutant: the cached Link is only invalidated. *)
DeletedLater == Invalidate(query["link"], "link")

Deleted ==
  LET q == query["link"] IN
  Invalidate(IF HasData("link") THEN [q EXCEPT !.data.gone = TRUE, !.err = "none"] ELSE q,
             "link")

(* Mutant: the list is not invalidated. *)
EditAnsweredLocally(e) ==
  /\ e.state = "served"
  /\ edits' = edits \ {e}
  /\ query' = [query EXCEPT !["link"] = IF e.form = "delete" THEN Deleted ELSE Patched(e)]
  /\ acked' = IF e.ver > acked.ver THEN [ver |-> e.ver, gone |-> e.gone] ELSE acked
  /\ UNCHANGED <<sessionVars, row, route, clicks>>

EditAnswered(e) ==
  /\ e.state = "served"
  /\ edits' = edits \ {e}
  /\ query' = [link |-> IF e.form = "delete" THEN Deleted ELSE Patched(e),
               list |-> Invalidate(query["list"], "list")]
  /\ acked' = IF e.ver > acked.ver THEN [ver |-> e.ver, gone |-> e.gone] ELSE acked
  /\ UNCHANGED <<sessionVars, row, route, clicks>>

(* Refused, or lost on the way there or back: a toast, the form stays.     *)
EditFailed(e) ==
  /\ e.state # "paused"
  /\ edits' = edits \ {e}
  /\ UNCHANGED <<sessionVars, row, route, query, clicks, acked>>

Answers(k) == QueryAnswered(k) \/ QueryRefused(k) \/ QueryFailed(k)

ViewsNext ==
  \/ Quietly /\ UNCHANGED viewVars
  \/ \E u \in Accounts : Login(u) /\ UNCHANGED viewVars
  \/ LearnMe
  \/ \E c \in calls : SetSession(c)
  \/ \E p \in Keys \cup {"other"} : Navigate(p)
  \/ (\E f \in Fields : Submit(f)) \/ ConfirmDelete
  \/ \E e \in edits : EditGoesOn(e) \/ ServeEdit(e) \/ EditAnswered(e) \/ EditFailed(e)
  \/ \E k \in Keys : Refetch(k) \/ GoOn(k) \/ ServeQuery(k) \/ Answers(k)

(* A request that is sent is answered or fails, one that is paused goes on *)
(* when the network is back.  Nothing else has to happen.                  *)
Fairness ==
  \A k \in Keys : WF_allVars(GoOn(k)) /\ WF_allVars(ServeQuery(k)) /\ WF_allVars(Answers(k))

ViewsSpec == ViewsInit /\ [][ViewsNext]_allVars /\ Fairness

(***************************************************************************)
(* What holds.                                                             *)
(***************************************************************************)
(* What the pages show.  LinkDetail may show the Link next to an error.    *)
Dashboard ==
  LET q == query["list"]
      prompt  == SignedOut \/ q.err = "401"
      loading == IsLoading \/ (IsAuthenticated /\ Loading("list"))
  IN  {p \in {"prompt", "spinner", "error", "links"} :
         CASE p = "prompt"  -> prompt
           [] p = "spinner" -> ~prompt /\ loading
           [] p = "error"   -> ~prompt /\ q.err # "none"
           [] p = "links"   -> ~prompt /\ ~loading /\ HasData("list") /\ q.err = "none"}

LinkDetail ==
  LET q == query["link"]
  IN  IF SignedOut THEN {"prompt"}
      ELSE {p \in {"spinner", "prompt", "notFound", "error", "link"} :
              CASE p = "spinner"  -> Loading("link")
                [] p = "prompt"   -> q.err = "401"
                [] p = "notFound" -> q.err = "404"
                [] p = "error"    -> q.err = "failed"
                [] p = "link"     -> HasData("link")}

Data == [ver : Nat, gone : BOOLEAN, as : Sessions \cup {Unknown},
         via : {"none", "query", "edit"}, late : BOOLEAN]

Ask == [state : {"none", "paused", "sent", "answered"}, as : Sessions,
        ver : Nat, gone : BOOLEAN, tries : 0 .. MaxRetries]

Query == [data : Data, old : BOOLEAN, ask : Ask, err : {"none", "401", "404", "failed"}]

Edit == [id : 1 .. MaxEdits, form : Forms, as : Sessions, here : BOOLEAN,
         state : {"paused", "sent", "served"}, ver : Nat, gone : BOOLEAN]

(* Every variable has its type; no request is retried more often than it   *)
(* may be.                                                                 *)
TypeOK ==
  /\ SessionTypeOK
  /\ row \in [ver : Nat, gone : BOOLEAN]
  /\ route \in Keys \cup {"other"}
  /\ query \in [Keys -> Query]
  /\ edits \subseteq Edit
  /\ clicks \in 0 .. MaxEdits
  /\ acked \in [ver : Nat, gone : BOOLEAN]

(* useAuth.ts drops what the previous account had cached, so that the next *)
(* one starts clean: once the page has been told of the sign-in or -out    *)
(* that made the cookie, what is cached was fetched with it.  Only an edit *)
(* of the previous account that is answered after the change writes its    *)
(* Link back.                                                              *)
OthersDataIsALateEdit ==
  known => \A k \in Keys :
    HasData(k) /\ query[k].data.as # cookie => query[k].data.via = "edit"

(* What is cached and not invalidated is no older than any edit that the   *)
(* server has acknowledged - unless it already was when it arrived:        *)
(* answers overtook each other.                                            *)
AcknowledgedIsShown ==
  \A k \in Keys :
    LET q == query[k] IN
    HasData(k) /\ q.data.as = Owner /\ ~q.old /\ ~q.data.late => q.data.ver >= acked.ver

(* After an acknowledged deletion the page does not show the Link as one   *)
(* that can be edited, whatever fetches fail, with the same exception.     *)
DeletionIsShown ==
  LET d == query["link"].data IN
  acked.gone /\ HasData("link") /\ d.as = Owner /\ ~d.late => d.gone

(* The dashboard never shows two things at a time, and either page shows   *)
(* something, whichever of the session and the query comes first, fails,   *)
(* is dropped or goes offline - unless the query of the page is paused.    *)
BlankOnlyWhilePaused ==
  /\ route = "list" =>
       \/ \E p \in Dashboard : Dashboard = {p}
       \/ Dashboard = {} /\ query["list"].ask.state = "paused"
  /\ route = "link" => LinkDetail # {} \/ query["link"].ask.state = "paused"

(* A query that has nothing to show gets something - data, a refusal or an *)
(* error - or is offline.  hooks.ts tells of the retry that never gave up  *)
(* on a refusal.                                                           *)
Waiting(k) == ~HasData(k) /\ ~IsIdle(k)

LoadingEnds == \A k \in Keys : Waiting(k) ~> ~Waiting(k) \/ ~online
==============================================================================
