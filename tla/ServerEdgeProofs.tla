-------------------------- MODULE ServerEdgeProofs --------------------------
(***************************************************************************)
(* The safety properties of ServerEdge, for any pages, slots and limits.   *)
(* What makes them inductive is the state of each request under way: those *)
(* of other pages never change the session (Beside), the tab's own carries *)
(* the callback its login recorded (Trip), no address that is still of use *)
(* carries an issuer (Clean), and a copy of the session is never older in  *)
(* what it would take away than the session itself (Grants).               *)
(***************************************************************************)
EXTENDS ServerEdge, FiniteSetTheorems, TLAPS

CleanUrl(url) == url # None => url.iss = {}

Clean ==
  /\ CleanUrl(session.callback)
  /\ \A s \in AllSlots : ~(out[s].stage = "idle") => CleanUrl(out[s].session.callback)
  /\ \A s \in AllSlots : Loaded(s) => out[s].r.url.iss = {}
  /\ \A s \in AllSlots : Done(out[s]) /\ Succeeded(out[s].outcome) => out[s].r.url.iss = {}
  /\ tab \in {"login", "returning", "landing", "shown"} => at.iss = {}

Beside == \A s \in Slots :
  /\ Loaded(s) => /\ ~out[s].r.code
                  /\ out[s].r.url.path \in Fixed \ {"probe"}
                  /\ out[s].r.document => isDataPath(out[s].r.url.path)
  /\ Done(out[s]) => /\ ~out[s].modified
                     /\ out[s].outcome # "mismatch"
                     /\ out[s].r.url.path = "probe" => out[s].outcome = "ok"

Trip ==
  /\ tab # "blank" => at \in Urls /\ at.path \in Pages
  /\ ~(out[Doc].stage = "idle") => /\ tab \in {"waiting", "returning", "landing"}
                                   /\ out[Doc].r.url.path \in Pages
  /\ Loaded(Doc) => /\ out[Doc].r.code <=> tab = "returning"
                    /\ out[Doc].r.code => out[Doc].session.callback = out[Doc].r.url
  /\ Done(out[Doc]) => /\ out[Doc].outcome # "mismatch"
                       /\ out[Doc].outcome = "login" => /\ out[Doc].modified
                                                        /\ out[Doc].session.callback = out[Doc].r.url
  /\ out[Doc].stage = "idle" /\ tab \in {"login", "returning"} => session.callback = at

Grants ==
  /\ Loaded(Doc) /\ session.grant = "live" => out[Doc].session.grant = "live"
  /\ Done(out[Doc]) /\ out[Doc].modified /\ session.grant = "live"
       => out[Doc].session.grant = "live"

IInv == TypeOK /\ Clean /\ Beside /\ Trip /\ Grants

-----------------------------------------------------------------------------

SlotStates == {Idle}
  \cup [stage: {"loaded"}, r: Requests, session: Sessions]
  \cup [stage: {"done"}, r: Requests, outcome: Outcome, session: Sessions,
        modified: BOOLEAN, counted: BOOLEAN]

\* What the type says of a slot.
LEMMA SlotType ==
  ASSUME NEW o \in SlotStates
  PROVE  /\ o.stage \in {"idle", "loaded", "done"}
         /\ o.stage = "idle" => o = Idle
         /\ o.stage = "loaded" => o.r \in Requests /\ o.session \in Sessions
         /\ o.stage = "done" => /\ o.r \in Requests /\ o.session \in Sessions
                                /\ o.outcome \in Outcome
                                /\ o.modified \in BOOLEAN /\ o.counted \in BOOLEAN
  BY DEF SlotStates, Idle

\* The initial states satisfy the invariant.
LEMMA InitInv == Init => IInv
  <1> SUFFICES ASSUME Init PROVE IInv
    OBVIOUS
  <1>1. TypeOK
    BY EdgeValues DEF Init, TypeOK, Sessions, Tabs, Idle
  <1>2. Clean /\ Beside /\ Trip /\ Grants
    BY EdgeValues DEF Init, Clean, CleanUrl, Beside, Trip, Grants, Idle, Done, Loaded, AllSlots
  <1> QED
    BY <1>1, <1>2 DEF IInv

\* What arriving makes of the slot s: its state o, about the cleaned request r.
Arrived(s, sent, r, o) ==
  /\ out' = [out EXCEPT ![s] = o]
  /\ r.url = [path |-> sent.url.path, iss |-> {}]
  /\ r.url.path = sent.url.path /\ r.url.iss = {}
  /\ r.code = sent.code /\ r.document = sent.document
  /\ o.session = session
  /\ \/ /\ o.stage = "done" /\ o.r = sent /\ o.outcome = "issuer" /\ ~(sent.url.iss = {})
        /\ o.modified = FALSE /\ o.counted = FALSE
     \/ /\ o.stage = "done" /\ o.r = r /\ o.outcome = "ok" /\ sent.url.path = "probe"
        /\ o.modified = FALSE /\ o.counted = FALSE
     \/ /\ o.stage = "done" /\ o.r = r /\ o.outcome = "limited" /\ ~(sent.url.path = "probe")
        /\ o.modified = FALSE /\ o.counted = FALSE
     \/ o.stage = "loaded" /\ o.r = r /\ ~(sent.url.path = "probe")

\* A request that arrives is refused, answered (the probe), or loaded with the
\* session and without issuers.
LEMMA ArrivalOutcome ==
  ASSUME IInv, NEW s \in AllSlots, NEW sent \in Requests, Arrive(s, sent)
  PROVE  /\ out[s] = Idle
         /\ hits' \in 0..GeneralMax + 1
         /\ UNCHANGED <<session, failures, failed>>
         /\ \E r \in Requests, o \in SlotStates : Arrived(s, sent, r, o)
  <1> DEFINE r == [sent EXCEPT !.url = normalizeOidcIssuerQuery(@)]
  <1> DEFINE quiet == UNCHANGED <<session, failures, failed>>
  <1>1. /\ r \in Requests
        /\ r.url = [path |-> sent.url.path, iss |-> {}]
        /\ r.code = sent.code /\ r.document = sent.document
    BY DEF normalizeOidcIssuerQuery, Requests, Urls
  <1>2. r.url.path = sent.url.path /\ r.url.iss = {}
    BY <1>1
  <1>3. session \in Sessions /\ hits \in 0..GeneralMax + 1 /\ GeneralMax \in Nat
    BY EdgeValues DEF IInv, TypeOK
  <1>4. out[s] = Idle /\ quiet
    BY DEF Arrive, budget
  <1> HIDE DEF r
  <1>5. CASE RejectsIssuer(sent.url)
    <2>1. Refuse(s, sent, "issuer") /\ hits' = hits
      BY <1>5 DEF Arrive
    <2>2. ~(sent.url.iss = {})
      BY <1>5 DEF RejectsIssuer
    <2> DEFINE o == Answered(sent, "issuer", session, FALSE, FALSE)
    <2>3. out' = [out EXCEPT ![s] = o]
      BY <2>1 DEF Refuse
    <2>4. /\ o \in SlotStates /\ o.stage = "done" /\ o.r = sent /\ o.outcome = "issuer"
          /\ o.session = session /\ o.modified = FALSE /\ o.counted = FALSE
      <3>1. "issuer" \in Outcome
        BY DEF Outcome
      <3> QED
        BY <1>3, <3>1 DEF Answered, SlotStates
    <2> HIDE DEF o
    <2> QED
      BY <1>1, <1>2, <1>3, <1>4, <2>1, <2>2, <2>3, <2>4 DEF Arrived
  <1>6. CASE ~RejectsIssuer(sent.url) /\ r.url.path = "probe"
    <2>1. AnswerProbe(s, r)
      BY <1>6 DEF Arrive, r
    <2> DEFINE o == Answered(r, "ok", session, FALSE, FALSE)
    <2>2. out' = [out EXCEPT ![s] = o] /\ hits' = hits
      BY <2>1 DEF AnswerProbe, Refuse
    <2>3. /\ o \in SlotStates /\ o.stage = "done" /\ o.r = r /\ o.outcome = "ok"
          /\ o.session = session /\ o.modified = FALSE /\ o.counted = FALSE
      BY <1>1, <1>3 DEF Answered, SlotStates, Outcome
    <2> HIDE DEF o
    <2> QED
      BY <1>1, <1>2, <1>3, <1>4, <1>6, <2>2, <2>3 DEF Arrived
  <1>7. CASE ~RejectsIssuer(sent.url) /\ ~(r.url.path = "probe")
    <2>1. LimitAndLoad(s, r)
      BY <1>7 DEF Arrive, r
    <2>2. hits' \in 0..GeneralMax + 1
      BY <1>3, <2>1 DEF LimitAndLoad
    <2>3. CASE hits >= GeneralMax
      <3> DEFINE o == Answered(r, "limited", session, FALSE, FALSE)
      <3>1. out' = [out EXCEPT ![s] = o]
        BY <2>1, <2>3 DEF LimitAndLoad, Refuse
      <3>2. /\ o \in SlotStates /\ o.stage = "done" /\ o.r = r /\ o.outcome = "limited"
            /\ o.session = session /\ o.modified = FALSE /\ o.counted = FALSE
        BY <1>1, <1>3 DEF Answered, SlotStates, Outcome
      <3> HIDE DEF o
      <3> QED
        BY <1>1, <1>2, <1>4, <1>7, <2>2, <3>1, <3>2 DEF Arrived
    <2>4. CASE ~(hits >= GeneralMax)
      <3> DEFINE o == [stage |-> "loaded", r |-> r, session |-> session]
      <3>1. out' = [out EXCEPT ![s] = o]
        BY <2>1, <2>4 DEF LimitAndLoad
      <3>2. o \in SlotStates /\ o.stage = "loaded" /\ o.r = r /\ o.session = session
        BY <1>1, <1>3 DEF SlotStates
      <3> HIDE DEF o
      <3> QED
        BY <1>1, <1>2, <1>4, <1>7, <2>2, <3>1, <3>2 DEF Arrived
    <2> QED
      BY <2>3, <2>4
  <1> QED
    BY <1>5, <1>6, <1>7

-----------------------------------------------------------------------------
(* Every step keeps the invariant.                                         *)

\* Replacing one slot keeps the type, and leaves the other slots alone.
LEMMA PutSlot ==
  ASSUME TypeOK, NEW s \in AllSlots, NEW o \in SlotStates, out' = [out EXCEPT ![s] = o]
  PROVE  /\ out' \in [AllSlots -> SlotStates]
         /\ out'[s] = o
         /\ \A t \in AllSlots \ {s} : out'[t] = out[t]
  BY DEF TypeOK, SlotStates

LEMMA TypeParts ==
  ASSUME TypeOK
  PROVE  out \in [AllSlots -> SlotStates]
  BY DEF TypeOK, SlotStates

LEMMA TypeFromParts ==
  ASSUME session' \in Sessions, tab' \in Tabs, at' \in Urls \cup {None},
         out' \in [AllSlots -> SlotStates], hits' \in 0..GeneralMax + 1,
         failures' \in 0..MaxFailures, failed' \in Nat
  PROVE  TypeOK'
  BY DEF TypeOK, SlotStates

\* The tab's document request goes out.
LEMMA RequestInv == ASSUME IInv, Request PROVE IInv'
  <1>1. PICK sent \in Requests :
          /\ Arrive(Doc, sent)
          /\ sent.url.path = at.path
          /\ sent.code <=> tab = "returning"
          /\ tab = "returning" => sent.url = [at EXCEPT !.iss = @ \cup {Ours}]
    <2>1. at \in Urls /\ tab \in {"waiting", "landing", "returning"}
      BY DEF IInv, Trip, Request
    <2>2. CASE tab \in {"waiting", "landing"}
      <3> DEFINE r == [url |-> at, code |-> FALSE, document |-> TRUE]
      <3>1. r \in Requests
        BY <2>1 DEF Requests
      <3>2. Arrive(Doc, r)
        BY <2>2 DEF Request
      <3> QED
        BY <2>2, <3>1, <3>2
    <2>3. CASE tab = "returning"
      <3> DEFINE r == [url |-> [at EXCEPT !.iss = @ \cup {Ours}], code |-> TRUE, document |-> TRUE]
      <3>1. r \in Requests /\ r.url.path = at.path
        BY <2>1 DEF Requests, Urls
      <3>2. Arrive(Doc, r)
        BY <2>3 DEF Request
      <3> QED
        BY <2>3, <3>1, <3>2
    <2> QED
      BY <2>1, <2>2, <2>3
  <1>2. Doc \in AllSlots
    BY DEF AllSlots
  <1>a. PICK r \in Requests, o \in SlotStates : Arrived(Doc, sent, r, o)
    BY <1>1, <1>2, ArrivalOutcome
  <1>3. /\ out' = [out EXCEPT ![Doc] = o]
        /\ r.url = [path |-> sent.url.path, iss |-> {}] /\ r.code = sent.code
        /\ o.session = session
        /\ \/ /\ o.stage = "done" /\ o.r = sent /\ o.outcome = "issuer" /\ ~(sent.url.iss = {})
              /\ o.modified = FALSE /\ o.counted = FALSE
           \/ /\ o.stage = "done" /\ o.r = r /\ o.outcome = "ok" /\ sent.url.path = "probe"
              /\ o.modified = FALSE /\ o.counted = FALSE
           \/ /\ o.stage = "done" /\ o.r = r /\ o.outcome = "limited"
              /\ o.modified = FALSE /\ o.counted = FALSE
           \/ o.stage = "loaded" /\ o.r = r
    BY <1>a DEF Arrived
  <1>4. /\ out[Doc] = Idle /\ hits' \in 0..GeneralMax + 1
        /\ UNCHANGED <<session, failures, failed, tab, at>>
    BY <1>1, <1>2, ArrivalOutcome DEF Request, browser
  <1>5. /\ out' \in [AllSlots -> SlotStates]
        /\ out'[Doc] = o
        /\ \A t \in AllSlots \ {Doc} : out'[t] = out[t]
    BY <1>2, <1>3, PutSlot DEF IInv
  <1>6. tab \in {"waiting", "landing", "returning"} /\ at \in Urls /\ at.path \in Pages
    BY DEF IInv, Trip, Request
  <1>7. o.stage \in {"loaded", "done"}
    BY <1>3
  <1>8. TypeOK'
    BY <1>4, <1>5, TypeFromParts DEF IInv, TypeOK
  <1>9. Clean'
    <2>1. Loaded(Doc)' => out'[Doc].r.url.iss = {}
      BY <1>3, <1>5 DEF Loaded
    <2>2. Done(out[Doc])' /\ Succeeded(out[Doc].outcome)' => out'[Doc].r.url.iss = {}
      BY <1>3, <1>5 DEF Done, Succeeded
    <2>3. CleanUrl(session.callback)
      BY DEF IInv, Clean
    <2> QED
      BY <1>2, <1>3, <1>4, <1>5, <2>1, <2>2, <2>3 DEF IInv, Clean, CleanUrl, Loaded, Done, Succeeded
  <1>10. Beside'
    BY <1>5, EdgeValues DEF IInv, Beside, AllSlots, Loaded, Done
  <1>11. Trip'
    <2>1. r.url.path = at.path /\ sent.url.path = at.path
      BY <1>1, <1>3
    <2>2. o.r.url.path \in Pages
      BY <1>3, <1>6, <2>1
    <2>3. tab = "returning" => session.callback = at /\ at.iss = {}
      BY <1>4 DEF IInv, Trip, Clean, Idle
    <2>4. tab = "returning" => r.url = at
      BY <1>3, <1>6, <2>1, <2>3 DEF Urls
    <2>5. o.stage = "loaded" => (o.r.code <=> tab = "returning") /\ (o.r.code => session.callback = o.r.url)
      BY <1>1, <1>3, <2>3, <2>4
    <2>6. o.stage = "done" => ~(o.outcome = "mismatch") /\ ~(o.outcome = "login")
      BY <1>3
    <2> QED
      BY <1>3, <1>4, <1>5, <1>6, <1>7, <2>2, <2>5, <2>6 DEF IInv, Trip, Loaded, Done
  <1>12. Grants'
    BY <1>3, <1>4, <1>5 DEF Grants, Loaded, Done
  <1> QED
    BY <1>8, <1>9, <1>10, <1>11, <1>12 DEF IInv

\* A request of another page goes out: it has no issuer and is no document.
LEMMA ElsewhereInv == ASSUME IInv, NEW s \in Slots, Elsewhere(s) PROVE IInv'
  <1>1. PICK path \in Fixed, document \in BOOLEAN :
          /\ document => path \in {"projection", "projections"}
          /\ Arrive(s, [url |-> Url(path), code |-> FALSE, document |-> document])
    BY DEF Elsewhere
  <1> DEFINE sent == [url |-> Url(path), code |-> FALSE, document |-> document]
  <1>2. /\ sent \in Requests /\ sent.url.path = path /\ sent.url.iss = {}
        /\ sent.code = FALSE /\ sent.document = document
    BY DEF Requests, Url, Urls, Paths
  <1>3. s \in AllSlots /\ s # Doc
    BY EdgeValues DEF AllSlots
  <1>4. Arrive(s, sent)
    BY <1>1
  <1> HIDE DEF sent
  <1>a. PICK r \in Requests, o \in SlotStates : Arrived(s, sent, r, o)
    BY <1>2, <1>3, <1>4, ArrivalOutcome
  <1>5. /\ out' = [out EXCEPT ![s] = o]
        /\ r.url.path = path /\ r.code = FALSE /\ r.document = document
        /\ r.url.iss = {}
        /\ o.session = session
        /\ \/ /\ o.stage = "done" /\ o.r = r /\ o.outcome = "ok" /\ path = "probe"
              /\ o.modified = FALSE /\ o.counted = FALSE
           \/ /\ o.stage = "done" /\ o.r = r /\ o.outcome = "limited" /\ ~(path = "probe")
              /\ o.modified = FALSE /\ o.counted = FALSE
           \/ o.stage = "loaded" /\ o.r = r /\ ~(path = "probe")
    BY <1>2, <1>a DEF Arrived
  <1>6. /\ hits' \in 0..GeneralMax + 1
        /\ UNCHANGED <<session, failures, failed, tab, at>>
    BY <1>2, <1>3, <1>4, ArrivalOutcome DEF Elsewhere, browser
  <1>7. /\ out' \in [AllSlots -> SlotStates]
        /\ out'[s] = o
        /\ \A t \in AllSlots \ {s} : out'[t] = out[t]
    BY <1>3, <1>5, PutSlot DEF IInv
  <1>8. TypeOK'
    BY <1>6, <1>7, TypeFromParts DEF IInv, TypeOK
  <1>9. Clean'
    BY <1>3, <1>5, <1>6, <1>7 DEF IInv, Clean, CleanUrl, Loaded, Done, Succeeded
  <1>10. Beside'
    <2>1. document => isDataPath(path)
      BY <1>1 DEF isDataPath, Fixed
    <2> QED
      BY <1>3, <1>5, <1>7, <2>1 DEF IInv, Beside, AllSlots, Loaded, Done
  <1>11. Trip' /\ Grants'
    <2>1. out'[Doc] = out[Doc]
      BY <1>3, <1>7 DEF AllSlots
    <2> QED
      BY <1>6, <2>1 DEF IInv, Trip, Grants, Loaded, Done
  <1> QED
    BY <1>8, <1>9, <1>10, <1>11 DEF IInv

\* A loaded request is answered: what the answer d must be like.
LEMMA HandledInv ==
  ASSUME IInv, NEW s \in AllSlots, Loaded(s), NEW d \in SlotStates,
         out' = [out EXCEPT ![s] = d],
         d.stage = "done", d.r = out[s].r, ~(d.outcome = "mismatch"),
         CleanUrl(d.session.callback),
         s \in Slots => d.modified = FALSE,
         d.outcome = "login" => d.modified /\ d.session.callback = d.r.url,
         d.modified /\ session.grant = "live" => d.session.grant = "live",
         UNCHANGED <<session, tab, at, hits, failed>>, failures' \in 0..MaxFailures
  PROVE  IInv'
  <1>1. /\ out' \in [AllSlots -> SlotStates]
        /\ out'[s] = d
        /\ \A t \in AllSlots \ {s} : out'[t] = out[t]
    BY PutSlot DEF IInv
  <1>2. TypeOK'
    BY <1>1, TypeFromParts DEF IInv, TypeOK
  <1>3. Clean'
    BY <1>1 DEF IInv, Clean, CleanUrl, Loaded, Done, Succeeded
  <1>4. Beside'
    BY <1>1, EdgeValues DEF IInv, Beside, AllSlots, Loaded, Done
  <1>5. Trip' /\ Grants'
    <2>1. CASE s = Doc
      BY <1>1, <2>1 DEF IInv, Trip, Grants, Loaded, Done
    <2>2. CASE s # Doc
      <3>1. out'[Doc] = out[Doc]
        BY <1>1, <2>2 DEF AllSlots
      <3> QED
        BY <3>1 DEF IInv, Trip, Grants, Loaded, Done
    <2> QED
      BY <2>1, <2>2
  <1> QED
    BY <1>2, <1>3, <1>4, <1>5 DEF IInv

\* What is known of a loaded request.
LEMMA LoadedFacts ==
  ASSUME IInv, NEW s \in AllSlots, Loaded(s)
  PROVE  /\ out[s].r \in Requests /\ out[s].session \in Sessions
         /\ CleanUrl(out[s].session.callback) /\ out[s].r.url.iss = {}
         /\ out[s].r.code => s = Doc /\ out[s].session.callback = out[s].r.url
         /\ StartsLogin(out[s]) => s = Doc
  <1>1. out[s] \in SlotStates
    BY TypeParts DEF IInv
  <1>2. out[s].r \in Requests /\ out[s].session \in Sessions
    BY <1>1, SlotType DEF Loaded
  <1>3. CleanUrl(out[s].session.callback) /\ out[s].r.url.iss = {}
    BY DEF IInv, Clean, Loaded
  <1>4. CASE s = Doc
    BY <1>2, <1>3, <1>4 DEF IInv, Trip
  <1>5. CASE s \in Slots
    BY <1>2, <1>3, <1>5 DEF IInv, Beside, StartsLogin, shouldProtectBrowserNavigation
  <1> QED
    BY <1>4, <1>5 DEF AllSlots

LEMMA CallbackInv == ASSUME IInv, NEW s \in AllSlots, Callback(s) PROVE IInv'
  <1> DEFINE o == out[s]
  <1> DEFINE d == Answered(o.r, "redirect", [grant |-> "live", callback |-> o.r.url], TRUE, FALSE)
  <1>1. Loaded(s) /\ o.r.code
    BY DEF Callback
  <1>2. s = Doc /\ o.session.callback = o.r.url /\ o.r \in Requests /\ o.r.url.iss = {}
    BY <1>1, LoadedFacts
  <1>3. out' = [out EXCEPT ![s] = d]
    BY <1>2 DEF Callback
  <1>4. /\ d \in SlotStates /\ d.stage = "done" /\ d.r = o.r /\ d.outcome = "redirect"
        /\ d.session.callback = o.r.url /\ d.session.grant = "live"
    BY <1>2 DEF Answered, SlotStates, Outcome, Requests, Sessions
  <1>5. CleanUrl(d.session.callback) /\ ~(s \in Slots)
    BY <1>2, <1>4, EdgeValues DEF CleanUrl
  <1>6. UNCHANGED <<session, tab, at, hits, failures, failed>>
    BY DEF Callback, browser, budget
  <1>7. failures' \in 0..MaxFailures
    BY <1>6 DEF IInv, TypeOK
  <1> HIDE DEF d
  <1> QED
    BY <1>1, <1>3, <1>4, <1>5, <1>6, <1>7, HandledInv

LEMMA ProtectInv == ASSUME IInv, NEW s \in AllSlots, Protect(s) PROVE IInv'
  <1> DEFINE o == out[s]
  <1> DEFINE d == Answered(o.r, "login", [o.session EXCEPT !.callback = o.r.url], TRUE, FALSE)
  <1>1. Loaded(s) /\ StartsLogin(o)
    BY DEF Protect
  <1>2. s = Doc /\ o.r \in Requests /\ o.session \in Sessions /\ o.r.url.iss = {}
    BY <1>1, LoadedFacts
  <1>3. out' = [out EXCEPT ![s] = d]
    BY DEF Protect
  <1>4. /\ d \in SlotStates /\ d.stage = "done" /\ d.r = o.r /\ d.outcome = "login"
        /\ d.session.callback = o.r.url /\ d.modified
    BY <1>2 DEF Answered, SlotStates, Outcome, Requests, Sessions
  <1>5. CleanUrl(d.session.callback) /\ ~(s \in Slots)
    BY <1>2, <1>4, EdgeValues DEF CleanUrl
  <1>6. session.grant # "live"
    BY <1>1, <1>2 DEF IInv, Grants, StartsLogin
  <1>7. UNCHANGED <<session, tab, at, hits, failures, failed>>
    BY DEF Protect, browser, budget
  <1>8. failures' \in 0..MaxFailures
    BY <1>7 DEF IInv, TypeOK
  <1> HIDE DEF d
  <1> QED
    BY <1>1, <1>3, <1>4, <1>5, <1>6, <1>7, <1>8, HandledInv

LEMMA OnboardInv == ASSUME IInv, NEW s \in AllSlots, Onboard(s) PROVE IInv'
  <1>1. PICK outcome \in {"ok", "failed"} :
          out' = [out EXCEPT ![s] = Answered(out[s].r, outcome, out[s].session, FALSE, FALSE)]
    BY DEF Onboard
  <1> DEFINE d == Answered(out[s].r, outcome, out[s].session, FALSE, FALSE)
  <1>2. Loaded(s)
    BY DEF Onboard
  <1>3. out[s].r \in Requests /\ out[s].session \in Sessions /\ CleanUrl(out[s].session.callback)
    BY <1>2, LoadedFacts
  <1>4. /\ d \in SlotStates /\ d.stage = "done" /\ d.r = out[s].r /\ d.outcome = outcome
        /\ d.session = out[s].session /\ d.modified = FALSE
    BY <1>3 DEF Answered, SlotStates, Outcome
  <1>5. UNCHANGED <<session, tab, at, hits, failures, failed>>
    BY DEF Onboard, browser, budget
  <1>6. failures' \in 0..MaxFailures
    BY <1>5 DEF IInv, TypeOK
  <1> HIDE DEF d
  <1>7. out' = [out EXCEPT ![s] = d]
    BY <1>1 DEF d
  <1> QED
    BY <1>2, <1>3, <1>4, <1>5, <1>6, <1>7, HandledInv

LEMMA PassBoundaryInv == ASSUME IInv, NEW s \in AllSlots, PassBoundary(s) PROVE IInv'
  <1>1. PICK outcome \in {"ok", "failed", "refused", "throttled"} :
          out' = [out EXCEPT ![s] = Answered(out[s].r, outcome, out[s].session, FALSE, TRUE)]
    BY DEF PassBoundary, Outcomes
  <1> DEFINE d == Answered(out[s].r, outcome, out[s].session, FALSE, TRUE)
  <1>2. Loaded(s)
    BY DEF PassBoundary
  <1>3. out[s].r \in Requests /\ out[s].session \in Sessions /\ CleanUrl(out[s].session.callback)
    BY <1>2, LoadedFacts
  <1>4. /\ d \in SlotStates /\ d.stage = "done" /\ d.r = out[s].r /\ d.outcome = outcome
        /\ d.session = out[s].session /\ d.modified = FALSE
    BY <1>3 DEF Answered, SlotStates, Outcome
  <1>5. UNCHANGED <<session, tab, at, hits, failed>>
    BY DEF PassBoundary, browser
  <1>6. failures' \in 0..MaxFailures
    BY EdgeValues DEF PassBoundary, IInv, TypeOK
  <1> HIDE DEF d
  <1>7. out' = [out EXCEPT ![s] = d]
    BY <1>1 DEF d
  <1> QED
    BY <1>2, <1>3, <1>4, <1>5, <1>6, <1>7, HandledInv

\* An answer goes out; the tab takes up what its own request brought.
LEMMA FinishInv == ASSUME IInv, NEW s \in AllSlots, Finish(s) PROVE IInv'
  <1> DEFINE o == out[s]
  <1>1. Done(o) /\ out' = [out EXCEPT ![s] = Idle] /\ session' = Saved(o) /\ hits' = hits
    BY DEF Finish
  <1>2. Idle \in SlotStates /\ Idle.stage = "idle"
    BY DEF SlotStates, Idle
  <1>3. /\ out' \in [AllSlots -> SlotStates]
        /\ out'[s] = Idle
        /\ \A t \in AllSlots \ {s} : out'[t] = out[t]
    BY <1>1, <1>2, PutSlot DEF IInv
  <1>4. /\ o.r \in Requests /\ o.session \in Sessions /\ o.outcome \in Outcome
        /\ o.modified \in BOOLEAN /\ o.counted \in BOOLEAN
    BY <1>1, TypeParts, SlotType DEF IInv, Done
  <1>5. failures' \in 0..MaxFailures /\ failed' \in Nat
    <2>1. failures \in 0..MaxFailures /\ failed \in Nat /\ MaxFailures \in Nat /\ Settle(o)
      BY EdgeValues DEF IInv, TypeOK, Finish
    <2>2. (failures' = failures - 1 /\ failures > 0) \/ failures' = failures
      BY <2>1 DEF Settle
    <2>3. failed' = failed + 1 \/ failed' = failed
      BY <2>1 DEF Settle
    <2> QED
      BY <2>1, <2>2, <2>3
  <1>6. CASE s # Doc
    <2>1. s \in Slots /\ ~o.modified /\ out'[Doc] = out[Doc]
      BY <1>1, <1>3, <1>6 DEF IInv, Beside, AllSlots
    <2>2. UNCHANGED <<session, tab, at>>
      BY <1>1, <1>6, <2>1 DEF Finish, Saved, browser
    <2>3. TypeOK'
      BY <1>1, <1>3, <1>5, <2>2, TypeFromParts DEF IInv, TypeOK
    <2>4. Clean'
      BY <1>2, <1>3, <2>2 DEF IInv, Clean, CleanUrl, Loaded, Done, Succeeded
    <2>5. Beside' /\ Trip' /\ Grants'
      BY <1>2, <1>3, <2>1, <2>2 DEF IInv, Beside, Trip, Grants, Loaded, Done, AllSlots
    <2> QED
      BY <2>3, <2>4, <2>5 DEF IInv
  <1>7. CASE s = Doc
    <2>1. at' = o.r.url /\ o.r.url \in Urls /\ o.r.url.path \in Pages
      BY <1>1, <1>4, <1>7 DEF Finish, Requests, IInv, Trip, Done
    <2>2. tab' = CASE o.outcome = "ok" -> "shown"
                   [] o.outcome = "login" -> "login"
                   [] o.outcome = "redirect" -> "landing"
                   [] ~Succeeded(o.outcome) -> "error"
      BY <1>7 DEF Finish
    <2>3. /\ tab' \in {"shown", "login", "landing", "error"}
          /\ tab' = "login" => o.outcome = "login"
          /\ tab' \in {"shown", "login", "landing"} => Succeeded(o.outcome)
      BY <1>4, <2>2 DEF Succeeded
    <2>4. session' \in Sessions /\ CleanUrl(session.callback)'
      BY <1>1, <1>4, <1>7 DEF Saved, IInv, TypeOK, Clean, Done
    <2>5. TypeOK'
      BY <1>1, <1>3, <1>5, <2>1, <2>3, <2>4, TypeFromParts DEF IInv, TypeOK, Tabs
    <2>6. Clean'
      <3>1. Succeeded(o.outcome) => o.r.url.iss = {}
        BY <1>1 DEF IInv, Clean
      <3>2. tab' \in {"login", "returning", "landing", "shown"} => at'.iss = {}
        BY <2>1, <2>3, <3>1
      <3> QED
        BY <1>2, <1>3, <2>4, <3>2 DEF IInv, Clean, CleanUrl, Loaded, Done, Succeeded
    <2>7. Beside'
      BY <1>3, <1>7, EdgeValues DEF IInv, Beside, Loaded, Done, AllSlots
    <2>8. Trip'
      <3>1. tab' = "login" => session'.callback = at'
        BY <1>1, <1>7, <2>1, <2>3 DEF IInv, Trip, Saved
      <3> QED
        BY <1>2, <1>3, <1>7, <2>1, <2>3, <3>1 DEF Trip, Loaded, Done
    <2>9. Grants'
      BY <1>2, <1>3, <1>7 DEF Grants, Loaded, Done
    <2> QED
      BY <2>5, <2>6, <2>7, <2>8, <2>9 DEF IInv
  <1> QED
    BY <1>6, <1>7

\* Steps of the person, of Keycloak and of time.
LEMMA OtherInv ==
  ASSUME IInv, Navigate \/ SignIn \/ Expire \/ ResetGeneral \/ ResetAuth
  PROVE  IInv'
  <1>1. CASE Navigate
    <2>1. tab \in {"blank", "shown", "error", "login"} /\ tab' = "waiting"
      BY <1>1 DEF Navigate
    <2>2. at' \in Urls /\ at'.path \in Pages
      BY <1>1 DEF Navigate, Urls, Paths
    <2>3. UNCHANGED <<session, out, hits, failures, failed>>
      BY <1>1 DEF Navigate, budget
    <2>4. TypeOK'
      BY <2>1, <2>2, <2>3 DEF IInv, TypeOK, Tabs
    <2>5. Clean' /\ Beside' /\ Grants'
      BY <2>1, <2>3 DEF IInv, Clean, Beside, Grants, Loaded, Done
    <2>6. out[Doc].stage = "idle"
      BY <2>1 DEF IInv, Trip
    <2>7. Trip'
      BY <2>1, <2>2, <2>3, <2>6 DEF Trip, Loaded, Done
    <2> QED
      BY <2>4, <2>5, <2>7 DEF IInv
  <1>2. CASE SignIn
    <2>1. tab = "login" /\ tab' = "returning" /\ UNCHANGED <<session, at, out, hits, failures, failed>>
      BY <1>2 DEF SignIn, budget
    <2>2. TypeOK'
      BY <2>1 DEF IInv, TypeOK, Tabs
    <2>3. Clean' /\ Beside' /\ Grants'
      BY <2>1 DEF IInv, Clean, Beside, Grants, Loaded, Done
    <2>4. Trip'
      BY <2>1 DEF IInv, Trip, Loaded, Done
    <2> QED
      BY <2>2, <2>3, <2>4 DEF IInv
  <1>3. CASE Expire
    <2>1. /\ session' = [session EXCEPT !.grant = "expired"]
          /\ UNCHANGED <<tab, at, out, hits, failures, failed>>
      BY <1>3 DEF Expire, browser, budget
    <2>2. session' \in Sessions /\ session'.callback = session.callback /\ session'.grant = "expired"
      BY <2>1 DEF IInv, TypeOK, Sessions
    <2>3. TypeOK'
      BY <2>1, <2>2 DEF IInv, TypeOK
    <2>4. Clean' /\ Beside' /\ Trip'
      BY <2>1, <2>2 DEF IInv, Clean, CleanUrl, Beside, Trip, Loaded, Done
    <2>5. Grants'
      BY <2>2 DEF Grants
    <2> QED
      BY <2>3, <2>4, <2>5 DEF IInv
  <1>4. CASE ResetGeneral
    <2>1. hits' = 0 /\ UNCHANGED <<session, tab, at, out, failures, failed>>
      BY <1>4 DEF ResetGeneral, browser, budget
    <2>2. TypeOK'
      BY <2>1, EdgeValues DEF IInv, TypeOK
    <2> QED
      BY <2>1, <2>2 DEF IInv, Clean, Beside, Trip, Grants, Loaded, Done
  <1>5. CASE ResetAuth
    <2>1. failures' = 0 /\ failed' = 0 /\ UNCHANGED <<session, tab, at, out, hits>>
      BY <1>5 DEF ResetAuth, browser
    <2>2. TypeOK'
      BY <2>1, EdgeValues DEF IInv, TypeOK
    <2> QED
      BY <2>1, <2>2 DEF IInv, Clean, Beside, Trip, Grants, Loaded, Done
  <1> QED
    BY <1>1, <1>2, <1>3, <1>4, <1>5

LEMMA NextInv == IInv /\ [Next]_vars => IInv'
  <1> SUFFICES ASSUME IInv, [Next]_vars PROVE IInv'
    OBVIOUS
  <1>1. CASE Request
    BY <1>1, RequestInv
  <1>2. ASSUME NEW s \in Slots, Elsewhere(s) PROVE IInv'
    BY <1>2, ElsewhereInv
  <1>3. ASSUME NEW s \in AllSlots, Step(s) PROVE IInv'
    BY <1>3, CallbackInv, ProtectInv, OnboardInv, PassBoundaryInv, FinishInv DEF Step
  <1>4. CASE Navigate \/ SignIn \/ Expire \/ ResetGeneral \/ ResetAuth
    BY <1>4, OtherInv
  <1>5. CASE UNCHANGED vars
    BY <1>5 DEF vars, IInv, TypeOK, Clean, Beside, Trip, Grants, Loaded, Done
  <1> QED
    BY <1>1, <1>2, <1>3, <1>4, <1>5 DEF Next

\* The strengthened invariant holds in every state the server and the browser reach.
THEOREM Inductive == Spec => []IInv
  BY InitInv, NextInv, PTL DEF Spec

\* The session, the tab, the slots and the counters stay within their shapes.
THEOREM TypeCorrect == Spec => []TypeOK
  <1>1. IInv => TypeOK
    BY DEF IInv
  <1> QED
    BY <1>1, Inductive, PTL

\* A login is always completed under the callback it recorded, whatever other
\* pages of the browser ask for meanwhile (auth-navigation.ts:66-92, session.ts:47).
THEOREM CallbackSurvives == Spec => []LoginMatches
  <1>1. IInv => LoginMatches
    BY DEF IInv, Beside, Trip, LoginMatches, AllSlots
  <1> QED
    BY <1>1, Inductive, PTL

\* No callback and no address of the tab keeps an issuer (auth-navigation.ts:33-64).
THEOREM IssuersRemoved == Spec => []NoIssuerKept
  <1>1. IInv => NoIssuerKept
    BY DEF IInv, Clean, CleanUrl, NoIssuerKept
  <1> QED
    BY <1>1, Inductive, PTL

\* The cluster's probe is answered, whatever the limiter has counted
\* (server/index.ts:73-88).
THEOREM ProbeAnswered == Spec => []ProbeAlwaysAnswered
  <1>1. ASSUME IInv PROVE ProbeAlwaysAnswered
    <2>1. Done(out[Doc]) => ~(out[Doc].r.url.path = "probe")
      BY <1>1, EdgeValues DEF IInv, Trip, Done, Fixed
    <2>2. \A s \in Slots : Done(out[s]) /\ out[s].r.url.path = "probe" => out[s].outcome = "ok"
      BY <1>1 DEF IInv, Beside
    <2> QED
      BY <2>1, <2>2 DEF ProbeAlwaysAnswered, AllSlots
  <1>2. IInv => ProbeAlwaysAnswered
    BY <1>1
  <1> QED
    BY <1>2, Inductive, PTL

\* No request takes a live grant out of the session (session.ts:47-48).
THEOREM GrantSurvives == Spec => GrantKept
  <1>1. ASSUME IInv, [Next]_vars, session.grant = "live", ~(session'.grant = "live")
        PROVE  Expire
    <2>1. ASSUME NEW s \in AllSlots, Step(s) PROVE FALSE
      <3>1. CASE Finish(s)
        <4>1. Done(out[s]) /\ session' = Saved(out[s])
          BY <3>1 DEF Finish
        <4>2. out[s].modified /\ ~(out[s].session.grant = "live")
          BY <1>1, <4>1 DEF Saved
        <4>3. s = Doc
          BY <1>1, <4>1, <4>2 DEF IInv, Beside, AllSlots
        <4> QED
          BY <1>1, <4>1, <4>2, <4>3 DEF IInv, Grants
      <3>2. CASE Callback(s) \/ Protect(s) \/ Onboard(s) \/ PassBoundary(s)
        <4>1. session' = session
          BY <3>2 DEF Callback, Protect, Onboard, PassBoundary
        <4> QED
          BY <1>1, <4>1
      <3> QED
        BY <2>1, <3>1, <3>2 DEF Step
    <2>2. ASSUME Request PROVE FALSE
      BY <1>1, <2>2 DEF Request, Arrive
    <2>3. ASSUME NEW s \in Slots, Elsewhere(s) PROVE FALSE
      BY <1>1, <2>3 DEF Elsewhere, Arrive
    <2>4. ASSUME Navigate \/ SignIn \/ ResetGeneral \/ ResetAuth PROVE FALSE
      BY <1>1, <2>4 DEF Navigate, SignIn, ResetGeneral, ResetAuth
    <2>5. ASSUME UNCHANGED vars PROVE FALSE
      BY <1>1, <2>5 DEF vars
    <2> QED
      BY <1>1, <2>1, <2>2, <2>3, <2>4, <2>5 DEF Next
  <1>2. IInv /\ [Next]_vars => [session.grant = "live" /\ session'.grant # "live" => Expire]_vars
    BY <1>1
  <1> QED
    BY <1>2, Inductive, PTL DEF Spec, GrantKept

-----------------------------------------------------------------------------
(* The budget of the auth limiter.                                         *)

CountedSlots == {s \in AllSlots : Counted(out[s])}

LEMMA CountedFinite ==
  ASSUME TypeOK
  PROVE  IsFiniteSet(CountedSlots) /\ Cardinality(CountedSlots) \in Nat
  <1>1. IsFiniteSet(AllSlots)
    BY EdgeValues, FS_AddElement DEF AllSlots
  <1>2. IsFiniteSet(CountedSlots)
    BY <1>1, FS_Subset DEF CountedSlots
  <1> QED
    BY <1>2, FS_CardinalityType

\* A slot that is not counted before and after leaves the counted ones alone.
LEMMA SameCounted ==
  ASSUME TypeOK, NEW s \in AllSlots, NEW d, out' = [out EXCEPT ![s] = d],
         ~Counted(out[s]), ~Counted(d)
  PROVE  CountedSlots' = CountedSlots
  <1>1. out'[s] = d /\ \A t \in AllSlots \ {s} : out'[t] = out[t]
    BY TypeParts
  <1>2. \A t \in AllSlots : Counted(out'[t]) <=> Counted(out[t])
    BY <1>1
  <1> QED
    BY <1>2 DEF CountedSlots

LEMMA BudgetArrive ==
  ASSUME IInv, NEW s \in AllSlots, NEW sent \in Requests, Arrive(s, sent)
  PROVE  CountedSlots' = CountedSlots /\ UNCHANGED budget
  <1>1. PICK r \in Requests, o \in SlotStates : Arrived(s, sent, r, o)
    BY ArrivalOutcome
  <1>2. out' = [out EXCEPT ![s] = o] /\ (o.stage = "done" => o.counted = FALSE)
    BY <1>1 DEF Arrived
  <1>3. out[s] = Idle /\ UNCHANGED budget
    BY ArrivalOutcome DEF budget
  <1>4. ~Counted(out[s])
    BY <1>3 DEF Counted, Done, Idle
  <1>5. ~Counted(o)
    BY <1>2 DEF Counted, Done
  <1> QED
    BY <1>2, <1>3, <1>4, <1>5, SameCounted DEF IInv

\* Callbacks, logins and onboarding are not counted.
LEMMA BudgetUncounted ==
  ASSUME IInv, NEW s \in AllSlots, Callback(s) \/ Protect(s) \/ Onboard(s)
  PROVE  CountedSlots' = CountedSlots /\ UNCHANGED budget
  <1>1. PICK d : out' = [out EXCEPT ![s] = d] /\ ~Counted(d)
    <2> DEFINE o == out[s]
    <2>1. CASE Callback(s)
      <3> DEFINE d == IF o.session.callback = o.r.url
                      THEN Answered(o.r, "redirect", [grant |-> "live", callback |-> o.r.url], TRUE, FALSE)
                      ELSE Answered(o.r, "mismatch", o.session, FALSE, FALSE)
      <3>1. out' = [out EXCEPT ![s] = d]
        BY <2>1 DEF Callback
      <3>2. ~Counted(d)
        BY DEF Answered, Counted, Done
      <3> HIDE DEF d
      <3> QED
        BY <3>1, <3>2
    <2>2. CASE Protect(s)
      <3> DEFINE d == Answered(o.r, "login", [o.session EXCEPT !.callback = o.r.url], TRUE, FALSE)
      <3>1. out' = [out EXCEPT ![s] = d]
        BY <2>2 DEF Protect
      <3>2. ~Counted(d)
        BY DEF Answered, Counted, Done
      <3> HIDE DEF d
      <3> QED
        BY <3>1, <3>2
    <2>3. CASE Onboard(s)
      <3>1. PICK outcome \in {"ok", "failed"} :
              out' = [out EXCEPT ![s] = Answered(o.r, outcome, o.session, FALSE, FALSE)]
        BY <2>3 DEF Onboard
      <3> DEFINE d == Answered(o.r, outcome, o.session, FALSE, FALSE)
      <3>2. ~Counted(d)
        BY DEF Answered, Counted, Done
      <3>3. out' = [out EXCEPT ![s] = d]
        BY <3>1
      <3> HIDE DEF d
      <3> QED
        BY <3>2, <3>3
    <2> QED
      BY <2>1, <2>2, <2>3
  <1>2. ~Counted(out[s])
    BY DEF Callback, Protect, Onboard, Loaded, Counted, Done
  <1>3. UNCHANGED budget
    BY DEF Callback, Protect, Onboard
  <1> QED
    BY <1>1, <1>2, <1>3, SameCounted DEF IInv

\* Every request counted is out, has failed, or was taken off again.
LEMMA BudgetStep ==
  ASSUME IInv, BudgetNeverOver, [Next]_vars
  PROVE  BudgetNeverOver'
  <1> DEFINE C == CountedSlots
  <1>1. IsFiniteSet(C) /\ Cardinality(C) \in Nat /\ failures <= failed + Cardinality(C)
    BY CountedFinite DEF IInv, BudgetNeverOver, CountedSlots
  <1>2. failures \in Nat /\ failed \in Nat
    BY EdgeValues DEF IInv, TypeOK
  <1>3. TypeOK' /\ Cardinality(C') \in Nat
    <2>1. IInv'
      BY NextInv
    <2>2. TypeOK'
      BY <2>1 DEF IInv
    <2>3. IsFiniteSet(AllSlots)
      BY EdgeValues, FS_AddElement DEF AllSlots
    <2>4. IsFiniteSet(C')
      BY <2>3, FS_Subset DEF CountedSlots
    <2> QED
      BY <2>2, <2>4, FS_CardinalityType
  <1> SUFFICES failures' <= failed' + Cardinality(C')
    BY DEF BudgetNeverOver, CountedSlots
  <1>4. ASSUME C' = C, UNCHANGED budget PROVE failures' <= failed' + Cardinality(C')
    BY <1>1, <1>4 DEF budget
  <1>5. CASE Request
    <2>1. PICK sent \in Requests : Arrive(Doc, sent)
      <3>1. at \in Urls
        BY <1>5 DEF IInv, Trip, Request
      <3> QED
        BY <1>5, <3>1 DEF Request, Requests, Urls
    <2> QED
      BY <1>4, <2>1, BudgetArrive DEF AllSlots
  <1>6. ASSUME NEW s \in Slots, Elsewhere(s) PROVE failures' <= failed' + Cardinality(C')
    <2>1. PICK sent \in Requests : Arrive(s, sent)
      BY <1>6 DEF Elsewhere, Requests, Url, Urls, Paths
    <2> QED
      BY <1>4, <2>1, BudgetArrive DEF AllSlots
  <1>7. ASSUME NEW s \in AllSlots, Callback(s) \/ Protect(s) \/ Onboard(s)
        PROVE  failures' <= failed' + Cardinality(C')
    BY <1>4, <1>7, BudgetUncounted
  <1>8. ASSUME NEW s \in AllSlots, PassBoundary(s) PROVE failures' <= failed' + Cardinality(C')
    <2>1. PICK outcome : out' = [out EXCEPT ![s] =
                                   Answered(out[s].r, outcome, out[s].session, FALSE, TRUE)]
      BY <1>8 DEF PassBoundary
    <2>2. Counted(out'[s]) /\ \A t \in AllSlots \ {s} : out'[t] = out[t]
      BY <2>1, TypeParts DEF IInv, Answered, Counted, Done
    <2>3. ~Counted(out[s])
      BY <1>8 DEF PassBoundary, Loaded, Counted, Done
    <2>4. C' = C \cup {s} /\ s \notin C
      BY <2>2, <2>3 DEF CountedSlots
    <2>5. Cardinality(C') = Cardinality(C) + 1
      BY <1>1, <2>4, FS_AddElement
    <2>6. failures' = failures + 1 /\ failed' = failed
      BY <1>8 DEF PassBoundary
    <2> QED
      BY <1>1, <1>2, <2>5, <2>6
  <1>9. ASSUME NEW s \in AllSlots, Finish(s) PROVE failures' <= failed' + Cardinality(C')
    <2>1. Done(out[s]) /\ out' = [out EXCEPT ![s] = Idle] /\ Settle(out[s])
      BY <1>9 DEF Finish
    <2>2. ~Counted(Idle)
      BY DEF Counted, Done, Idle
    <2>3. out'[s] = Idle /\ \A t \in AllSlots \ {s} : out'[t] = out[t]
      BY <2>1, TypeParts DEF IInv
    <2>4. CASE Counted(out[s])
      <3>1. C' = C \ {s} /\ s \in C
        BY <2>2, <2>3, <2>4 DEF CountedSlots
      <3>2. Cardinality(C') = Cardinality(C) - 1
        BY <1>1, <3>1, FS_RemoveElement
      <3>3. CASE Succeeded(out[s].outcome)
        <4>1. failed' = failed /\ failures' = IF failures > 0 THEN failures - 1 ELSE failures
          BY <2>1, <2>4, <3>3 DEF Settle
        <4> QED
          BY <1>1, <1>2, <1>3, <3>2, <4>1
      <3>4. CASE ~Succeeded(out[s].outcome)
        <4>1. failed' = failed + 1 /\ failures' = failures
          BY <2>1, <2>4, <3>4 DEF Settle
        <4> QED
          BY <1>1, <1>2, <3>2, <4>1
      <3> QED
        BY <3>3, <3>4
    <2>5. CASE ~Counted(out[s])
      <3>1. C' = C
        BY <2>1, <2>2, <2>5, SameCounted DEF IInv
      <3>2. failed' = failed /\ failures' = failures
        BY <2>1, <2>5 DEF Settle
      <3> QED
        BY <1>1, <3>1, <3>2
    <2> QED
      BY <2>4, <2>5
  <1>10. CASE Navigate \/ SignIn \/ Expire \/ ResetGeneral \/ UNCHANGED vars
    <2>1. out' = out /\ UNCHANGED budget
      BY <1>10 DEF Navigate, SignIn, Expire, ResetGeneral, vars, budget
    <2>2. C' = C
      BY <2>1 DEF CountedSlots
    <2> QED
      BY <1>4, <2>1, <2>2
  <1>11. CASE ResetAuth
    <2>1. failures' = 0 /\ failed' = 0
      BY <1>11 DEF ResetAuth
    <2> QED
      BY <1>3, <2>1
  <1> QED
    BY <1>5, <1>6, <1>7, <1>8, <1>9, <1>10, <1>11 DEF Next, Step

\* The auth limiter charges a client at most its bad answers of the window and
\* what is still out (server/index.ts:157-172).
THEOREM BudgetIsFair == Spec => []BudgetNeverOver
  <1>1. Init => BudgetNeverOver
    <2> SUFFICES ASSUME Init PROVE BudgetNeverOver
      OBVIOUS
    <2>1. TypeOK
      BY InitInv DEF IInv
    <2>2. Cardinality(CountedSlots) \in Nat
      BY <2>1, CountedFinite
    <2> QED
      BY <2>2 DEF Init, BudgetNeverOver, CountedSlots
  <1>2. IInv /\ BudgetNeverOver /\ [Next]_vars => BudgetNeverOver'
    BY BudgetStep
  <1> QED
    BY <1>1, <1>2, Inductive, PTL DEF Spec

\* The pairs that the run checks together.
THEOREM LoginIsSound == Spec => []LoginSound
BY CallbackSurvives, IssuersRemoved, PTL DEF LoginSound

\* The limiter counts no more than there is to count, and never the probe.
THEOREM LimiterIsSound == Spec => []LimiterSound
BY BudgetIsFair, ProbeAnswered, PTL DEF LimiterSound
=============================================================================
