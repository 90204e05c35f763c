----------------------------- MODULE ServerEdge -----------------------------
(***************************************************************************)
(* The way of a request through server/index.ts, in the order in which its *)
(* middlewares are mounted, and the browser login that starts there.  One  *)
(* browser and its session cookie: one tab goes through documents and the  *)
(* login, while pages that are open beside it, and the cluster's probe,    *)
(* send requests at any time.  Keycloak with keycloak-connect, the session *)
(* library and the limiter are modelled by what this code relies on; the   *)
(* refresh of a grant by keycloak-connect is left out.                     *)
(***************************************************************************)
EXTENDS Naturals, FiniteSets

CONSTANTS Pages,         \* paths of documents
          Slots,         \* requests of other pages that are out at once
          Doc,           \* the slot of the tab's document request
          Ours, Foreign, \* KEYCLOAK_ISSUER, and any other issuer
          ExpectedKnown, \* KEYCLOAK_ISSUER is set
          GeneralMax,    \* GENERAL_MAX_REQUESTS
          AuthMax,       \* AUTH_FAILURE_MAX
          MaxFailures,   \* bound: counted requests told apart in an auth window
          None

Fixed == {"asset", "projection", "projections", "config", "onboarding", "probe"}
Paths == Pages \cup Fixed

ASSUME EdgeValues ==
  /\ Doc \notin Slots
  /\ Ours # Foreign
  /\ ExpectedKnown \in BOOLEAN
  /\ GeneralMax \in Nat /\ AuthMax \in Nat /\ MaxFailures \in Nat
  /\ Pages \cap Fixed = {}
  /\ IsFiniteSet(Slots)

\* An address: its path and the issuers in its query.
Urls == [path: Paths, iss: SUBSET {Ours, Foreign}]
Url(path) == [path |-> path, iss |-> {}]

\* A request: whether it carries the code of a login, and whether it is a GET
\* that Sec-Fetch-Dest, or else Accept, calls a document.
Requests == [url: Urls, code: BOOLEAN, document: BOOLEAN]

\* The stored session: keycloak-connect's grant and the callback of its login.
Sessions == [grant: {"none", "expired", "live"}, callback: Urls \cup {None}]

VARIABLES session,   \* the session in the store
          tab,       \* what the tab is doing
          at,        \* the address of its document, or the callback of its login
          out,       \* out[s]: the request in slot s and how far it is
          hits,      \* the general limiter's count, up to the first refusal
          failures,  \* the auth limiter's count
          failed     \* requests behind the auth limiter that ended badly in its window

vars == <<session, tab, at, out, hits, failures, failed>>
browser == <<tab, at>>
budget == <<failures, failed>>

AllSlots == Slots \cup {Doc}
Idle == [stage |-> "idle"]
Done(o) == o.stage = "done"
Counted(o) == IF Done(o) THEN o.counted ELSE FALSE

Init ==
  /\ session \in [grant: {"none", "expired", "live"}, callback: {None}]
  /\ tab = "blank"
  /\ at = None
  /\ out = [s \in AllSlots |-> Idle]
  /\ hits = 0
  /\ failures = 0
  /\ failed = 0

-----------------------------------------------------------------------------
(* Decisions                                                               *)

\* Slip: the catalogue of projections is missing from the data paths.
ForgetsProjections(path) == path \in Fixed \ {"asset", "projections"}

isDataPath(path) == path \in Fixed \ {"asset"}

shouldProtectBrowserNavigation(r) == ~isDataPath(r.url.path) /\ r.document

PUBLIC_PATHS == {"config", "probe"}

RejectsIssuer(url) == url.iss # {} /\ (~ExpectedKnown \/ url.iss # {Ours})

\* Slip: the issuer stays in the address.
KeepsIssuer(url) == url

normalizeOidcIssuerQuery(url) == [url EXCEPT !.iss = {}]

-----------------------------------------------------------------------------
(* The stages of a request                                                 *)

Succeeded(outcome) == outcome \in {"ok", "login", "redirect"}

Answered(r, outcome, copy, modified, counted) ==
  [stage |-> "done", r |-> r, outcome |-> outcome,
   session |-> copy, modified |-> modified, counted |-> counted]

Refuse(s, r, outcome) ==
  out' = [out EXCEPT ![s] = Answered(r, outcome, session, FALSE, FALSE)]

\* Slip: the limiter comes before the probe.
CountsTheProbe(s, r) ==
  /\ hits' = IF hits > GeneralMax THEN hits ELSE hits + 1
  /\ IF hits >= GeneralMax THEN Refuse(s, r, "limited") ELSE Refuse(s, r, "ok")

AnswerProbe(s, r) == Refuse(s, r, "ok") /\ UNCHANGED hits

\* The general limiter, and behind it the session the request works on.
LimitAndLoad(s, r) ==
  /\ hits' = IF hits > GeneralMax THEN hits ELSE hits + 1
  /\ IF hits >= GeneralMax THEN Refuse(s, r, "limited")
     ELSE out' = [out EXCEPT ![s] = [stage |-> "loaded", r |-> r, session |-> session]]

Arrive(s, sent) ==
  LET r == [sent EXCEPT !.url = normalizeOidcIssuerQuery(@)]
  IN /\ out[s] = Idle
     /\ CASE RejectsIssuer(sent.url) -> Refuse(s, sent, "issuer") /\ UNCHANGED hits
          [] ~RejectsIssuer(sent.url) /\ r.url.path = "probe" -> AnswerProbe(s, r)
          [] OTHER -> LimitAndLoad(s, r)
     /\ UNCHANGED <<session, budget>>

Loaded(s) == out[s].stage = "loaded"

\* keycloak-connect trades the code in, naming the callback the session recorded.
Callback(s) ==
  LET o == out[s]
  IN /\ Loaded(s) /\ o.r.code
     /\ out' = [out EXCEPT ![s] =
          IF o.session.callback = o.r.url
          THEN Answered(o.r, "redirect", [grant |-> "live", callback |-> o.r.url], TRUE, FALSE)
          ELSE Answered(o.r, "mismatch", o.session, FALSE, FALSE)]
     /\ UNCHANGED <<session, browser, hits, budget>>

StartsLogin(o) ==
  /\ shouldProtectBrowserNavigation(o.r)
  /\ o.r.url.path \notin PUBLIC_PATHS
  /\ o.session.grant # "live"

\* keycloak.protect records the address of the request and redirects to the login.
Protect(s) ==
  LET o == out[s]
  IN /\ Loaded(s) /\ ~o.r.code /\ StartsLogin(o)
     /\ out' = [out EXCEPT ![s] =
          Answered(o.r, "login", [o.session EXCEPT !.callback = o.r.url], TRUE, FALSE)]
     /\ UNCHANGED <<session, browser, hits, budget>>

\* Onboarding answers before the boundary, by the bearer token of the request.
Onboard(s) ==
  LET o == out[s]
  IN /\ Loaded(s) /\ ~o.r.code /\ ~StartsLogin(o) /\ o.r.url.path = "onboarding"
     /\ \E outcome \in {"ok", "failed"} :
          out' = [out EXCEPT ![s] = Answered(o.r, outcome, o.session, FALSE, FALSE)]
     /\ UNCHANGED <<session, browser, hits, budget>>

\* The boundary lets a live grant pass; its routes answer, or fail with a status
\* of their own (a database that is away, a projection nobody knows).
Outcomes(o) ==
  CASE o.r.url.path \in PUBLIC_PATHS -> {"ok"}
    [] o.r.url.path \notin PUBLIC_PATHS /\ o.session.grant # "live" -> {"refused"}
    [] OTHER -> {"ok", "failed"}

\* The auth limiter counts every request that reaches it.
PassBoundary(s) ==
  LET o == out[s]
  IN /\ Loaded(s) /\ ~o.r.code /\ ~StartsLogin(o) /\ o.r.url.path # "onboarding"
     /\ failures < MaxFailures
     /\ failures' = failures + 1
     /\ \E outcome \in IF failures >= AuthMax THEN {"throttled"} ELSE Outcomes(o) :
          out' = [out EXCEPT ![s] = Answered(o.r, outcome, o.session, FALSE, TRUE)]
     /\ UNCHANGED <<session, browser, hits, failed>>

\* Slip: resave writes back what an untouched request had loaded.
ResavesAll(o) == o.session

\* Slip: keycloak-connect is built without the store and keeps no grant.
GrantNotStored(o) ==
  IF o.modified THEN [session EXCEPT !.callback = o.session.callback] ELSE session

Saved(o) == IF o.modified THEN o.session ELSE session

\* Slip: a request that went well stays counted.
NeverForgives(o) ==
  /\ failures' = failures
  /\ failed' = IF Counted(o) /\ ~Succeeded(o.outcome) THEN failed + 1 ELSE failed

\* skipSuccessfulRequests: the count of a request that went well is taken back.
Settle(o) ==
  /\ failures' = IF Counted(o) /\ Succeeded(o.outcome) /\ failures > 0
                 THEN failures - 1 ELSE failures
  /\ failed' = IF Counted(o) /\ ~Succeeded(o.outcome) THEN failed + 1 ELSE failed

\* The answer goes out, after the session if the request changed it.
Finish(s) ==
  LET o == out[s]
  IN /\ Done(o)
     /\ session' = Saved(o)
     /\ Settle(o)
     /\ out' = [out EXCEPT ![s] = Idle]
     /\ IF s # Doc THEN UNCHANGED browser
        ELSE /\ tab' = CASE o.outcome = "ok" -> "shown"
                         [] o.outcome = "login" -> "login"
                         [] o.outcome = "redirect" -> "landing"
                         [] ~Succeeded(o.outcome) -> "error"
             /\ at' = o.r.url
     /\ UNCHANGED hits

-----------------------------------------------------------------------------
(* The browser, Keycloak, and time                                         *)

\* A person opens a document, maybe by a link with issuers left in it.
Navigate ==
  /\ tab \in {"blank", "shown", "error", "login"}
  /\ tab' = "waiting"
  /\ at' \in [path: Pages, iss: SUBSET {Ours, Foreign}]
  /\ UNCHANGED <<session, out, hits, budget>>

\* The tab asks for its document, or follows a redirect to it.  Keycloak sends
\* the browser back with a code and its issuer.
Request ==
  /\ \/ /\ tab \in {"waiting", "landing"}
        /\ Arrive(Doc, [url |-> at, code |-> FALSE, document |-> TRUE])
     \/ /\ tab = "returning"
        /\ Arrive(Doc, [url |-> [at EXCEPT !.iss = @ \cup {Ours}], code |-> TRUE, document |-> TRUE])
  /\ UNCHANGED browser

\* Another page reads, loads an asset or onboards, the cluster probes, or a
\* person opens the address of a read.
Elsewhere(s) ==
  /\ \E path \in Fixed, document \in BOOLEAN :
       /\ document => path \in {"projection", "projections"}
       /\ Arrive(s, [url |-> Url(path), code |-> FALSE, document |-> document])
  /\ UNCHANGED browser

\* The person signs in at Keycloak.
SignIn ==
  /\ tab = "login"
  /\ tab' = "returning"
  /\ UNCHANGED <<session, at, out, hits, budget>>

\* The grant's token passes its exp; it outlives the redirect that follows its issue.
Expire ==
  /\ session.grant = "live" /\ tab \notin {"returning", "landing"}
  /\ session' = [session EXCEPT !.grant = "expired"]
  /\ UNCHANGED <<browser, out, hits, budget>>

ResetGeneral == hits' = 0 /\ UNCHANGED <<session, browser, out, budget>>

ResetAuth == failures' = 0 /\ failed' = 0 /\ UNCHANGED <<session, browser, out, hits>>

Step(s) ==
  Callback(s) \/ Protect(s) \/ Onboard(s) \/ PassBoundary(s) \/ Finish(s)

Next ==
  \/ Navigate \/ Request \/ SignIn
  \/ \E s \in Slots : Elsewhere(s)
  \/ \E s \in AllSlots : Step(s)
  \/ Expire \/ ResetGeneral \/ ResetAuth

Spec == Init /\ [][Next]_vars

\* The server works off every request, the browser follows redirects, windows
\* end, and a person who keeps meeting the login signs in at last.
Fairness ==
  /\ \A s \in AllSlots : SF_vars(Step(s))
  /\ WF_vars(Request) /\ WF_vars(ResetGeneral) /\ WF_vars(ResetAuth)
  /\ SF_vars(SignIn)

LiveSpec == Spec /\ Fairness

-----------------------------------------------------------------------------
(* Properties                                                              *)

Tabs == {"blank", "waiting", "login", "returning", "landing", "shown", "error"}
Outcome == {"issuer", "ok", "limited", "redirect", "mismatch", "login",
            "failed", "refused", "throttled"}

\* The session, the tab, the slots and the counters stay within their shapes.
TypeOK ==
  /\ session \in Sessions
  /\ tab \in Tabs
  /\ at \in Urls \cup {None}
  /\ out \in [AllSlots -> {Idle}
              \cup [stage: {"loaded"}, r: Requests, session: Sessions]
              \cup [stage: {"done"}, r: Requests, outcome: Outcome, session: Sessions,
                    modified: BOOLEAN, counted: BOOLEAN]]
  /\ hits \in 0..GeneralMax + 1
  /\ failures \in 0..MaxFailures
  /\ failed \in Nat

\* The code a login returns with is always traded in under the callback that
\* login recorded: no read, asset or typed data address of another page puts its
\* own in between, and no request writes an older session back
\* (server/index.ts:130-139, auth-navigation.ts:66-92, session.ts:47).
LoginMatches == \A s \in AllSlots : Done(out[s]) => out[s].outcome # "mismatch"

\* No issuer outlives the request that brought it: not in a callback, where
\* each further login would add one (auth-navigation.ts:33-64).
NoIssuerKept ==
  /\ session.callback # None => session.callback.iss = {}
  /\ tab \in {"login", "returning", "landing", "shown"} => at.iss = {}

\* A grant in the session is only lost by its token's end, whatever requests
\* were under way with the session of before (session.ts:47-48).
GrantKept == [][session.grant = "live" /\ session'.grant # "live" => Expire]_vars

\* The auth limiter never holds more against a client than the requests that
\* ended badly in its window and those still out (server/index.ts:157-172).
BudgetNeverOver == failures <= failed + Cardinality({s \in AllSlots : Counted(out[s])})

\* The probe is answered however many requests came before it
\* (server/index.ts:73-88).
ProbeAlwaysAnswered ==
  \A s \in AllSlots : Done(out[s]) /\ out[s].r.url.path = "probe" => out[s].outcome = "ok"

\* A navigation ends with a page or an error and not in a circle of logins
\* (server/index.ts:125-139).
NavigationEnds == tab = "waiting" ~> tab \in {"shown", "error"}

\* A login is completed under the callback it recorded, and no callback or
\* address keeps an issuer that would make it another one.
LoginSound == LoginMatches /\ NoIssuerKept

\* The auth limiter counts nothing but bad answers and requests still out, and
\* the probe does not depend on it.
LimiterSound == BudgetNeverOver /\ ProbeAlwaysAnswered
=============================================================================
