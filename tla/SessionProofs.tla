---------------------------- MODULE SessionProofs ----------------------------
(***************************************************************************)
(* The session of a browser tab, for any users, tokens, sign-ins and page  *)
(* loads and any number of requests in flight.  Everything rests on the    *)
(* epoch: work in flight carries the epoch it began in, no later than the  *)
(* tab's, and of a bootstrap and a sign-in at most one is of the present.  *)
(***************************************************************************)
EXTENDS Session, FiniteSetTheorems, TLAPS

-----------------------------------------------------------------------------
(* The inductive invariant.                                                *)

Request == [token : Tokens \cup {NoToken}, at : Places, seen : SUBSET Keys, age : Nat,
            answer : Answers]
Tab == [status : Statuses, active : Tokens \cup {NoToken}, me : Users \cup {Nobody},
        epoch : Nat, config : BOOLEAN, submitting : BOOLEAN]
Boot == [at : {"done", "config", "exchange", "me"}, epoch : Nat,
         callback : Callbacks \cup {NoCallback}]

\* What is needed of the types: no bound on ages and epochs.
Shape ==
    /\ request \in [Requests -> Request] /\ published \subseteq Keys
    /\ tab \in Tab /\ boot \in Boot
    /\ store \in [token : Tokens \cup {NoToken}, transaction : SignIns \cup {NoState}]
    /\ login \in [at : {"idle", "token", "me"}, epoch : Nat]
    /\ url \in Callbacks \cup {NoCallback}

\* A page that is gone has no work in flight; other work began by now.
WorkIsPast ==
    /\ tab.status = "away" => boot = NoBoot /\ login = NoLogin
    /\ boot.at # "done" => boot.epoch <= tab.epoch
    /\ login.at # "idle" => login.epoch <= tab.epoch

\* The work in flight that is of the present epoch.
BootLive == boot.at # "done" /\ boot.epoch = tab.epoch
LoginLive == login.at # "idle" /\ login.epoch = tab.epoch

\* The token that request r was sent with is the one in use and in store.
Carries(r) ==
    /\ tab.active = request[r].token /\ tab.active # NoToken
    /\ store.token = tab.active

LiveWork ==
    /\ BootLive => /\ tab.status = "loading" /\ ~ LoginLive
                   /\ boot.at = "me" => Carries("boot")
    /\ LoginLive => /\ tab.status \in {"loading", "anonymous"}
                    /\ login.at = "me" => Carries("login")

\* A sign-out leaves no live work behind.
OutIsOver == signedOut => ~ BootLive /\ ~ LoginLive

\* Hosted sign-ins are counted.
Counted == signIns \in Nat

Inv ==
    /\ Shape /\ WorkIsPast /\ LiveWork /\ OutIsOver
    /\ ProfileIsTheTokens /\ SignedOutStaysOut

-----------------------------------------------------------------------------
(* The API.                                                                *)

\* A request may be sent, and forgotten.
LEMMA RequestTypes ==
  /\ NoRequest \in Request
  /\ \A t \in Tokens \cup {NoToken} :
        [NoRequest EXCEPT !.token = t, !.at = "arrived"] \in Request
BY DEF NoRequest, Request, Places, Answers

\* What happens to a request in the API keeps its token.
SameTokens ==
    /\ request' \in [Requests -> Request] /\ published' \subseteq Keys
    /\ \A r \in Requests : request'[r].token = request[r].token

LEMMA AnswerKeeps ==
  ASSUME Shape, NEW r \in Requests, NEW a \in Answers, Answer(r, a),
         published' \subseteq Keys
  PROVE  SameTokens
<1> DEFINE new == [NoRequest EXCEPT !.token = request[r].token, !.at = "answered",
                                    !.answer = a]
<1>1. request[r] \in Request
  BY DEF Shape
<1>2. new \in Request /\ new.token = request[r].token
  BY <1>1 DEF NoRequest, Request, Places, Answers
<1>3. request' = [request EXCEPT ![r] = new]
  BY DEF Answer
<1> QED
  BY <1>2, <1>3 DEF Shape, SameTokens

LEMMA FetchKeeps ==
  ASSUME Shape, NEW r \in Requests, NEW place \in {"loading", "reloading"},
         Fetch(r, place), published' \subseteq Keys
  PROVE  SameTokens
<1> DEFINE new == [request[r] EXCEPT !.at = place, !.seen = published, !.age = 0]
<1>1. request[r] \in Request /\ published \in SUBSET Keys
  BY DEF Shape
<1>2. new \in Request /\ new.token = request[r].token
  BY <1>1 DEF Request, Places
<1>3. request' = [request EXCEPT ![r] = new]
  BY DEF Fetch, Shape
<1> QED
  BY <1>2, <1>3 DEF Shape, SameTokens

LEMMA ApiKeeps ==
  ASSUME Shape, (\E r \in Requests : ApiStep(r)) \/ ApiRest \/ Pass
  PROVE  SameTokens /\ UNCHANGED tabVars
<1>1. UNCHANGED tabVars
  BY DEF ApiStep, ApiRest, Pass
<1>2. ASSUME NEW r \in Requests, ApiStep(r) PROVE SameTokens
  <2>1. published' \subseteq Keys
    <3>1. VerifyLocally(r) => UNCHANGED published
      BY DEF VerifyLocally, apiVars
    <3>2. Arrive(r) => UNCHANGED published
      BY DEF Arrive
    <3>3. Loaded(r) => UNCHANGED published
      BY DEF Loaded
    <3>4. Reloaded(r) => UNCHANGED published
      BY DEF Reloaded
    <3> QED
      BY <1>2, <3>1, <3>2, <3>3, <3>4 DEF ApiStep, Verify, Shape
  <2>2. \/ \E a \in Answers : Answer(r, a)
        \/ \E place \in {"loading", "reloading"} : Fetch(r, place)
    <3>1. Judge(r) => \E a \in Answers : Answer(r, a)
      BY DEF Judge, Answers
    <3>2. \A ks : LookUp(r, ks) => \/ \E a \in Answers : Answer(r, a)
                                   \/ Fetch(r, "reloading")
      BY <3>1 DEF LookUp, Answers
    <3>3. CASE VerifyLocally(r)
      BY <3>1, <3>3 DEF VerifyLocally
    <3>4. CASE Arrive(r)
      BY <3>2, <3>4 DEF Arrive
    <3>5. CASE Loaded(r)
      <4>1. LookUp(r, keys') \/ Answer(r, "rejected")
        BY <3>5 DEF Loaded
      <4> QED
        BY <3>2, <4>1 DEF Answers
    <3>6. CASE Reloaded(r)
      BY <3>1, <3>6 DEF Reloaded, Answers
    <3> QED
      BY <1>2, <3>3, <3>4, <3>5, <3>6 DEF ApiStep, Verify
  <2> QED
    BY <2>1, <2>2, AnswerKeeps, FetchKeeps
<1>3. CASE ApiRest
  <2>1. ASSUME NEW r \in Requests, Unavailable(r) PROVE SameTokens
    BY <2>1, AnswerKeeps DEF Unavailable, Answers, Shape
  <2>2. CASE Refuse \/ OtherRefetch \/ OtherFetched \/ Rotate
    <3>1. UNCHANGED request /\ (UNCHANGED published \/ published' = Keys)
      BY <2>2 DEF Refuse, OtherRefetch, OtherFetched, Rotate
    <3> QED
      BY <1>1, <3>1 DEF Shape, SameTokens
  <2> QED
    BY <1>1, <1>3, <2>1, <2>2 DEF ApiRest
<1>4. CASE Pass
  <2>1. \A r \in Requests : request'[r] = IF r \in Fetching
                                          THEN [request[r] EXCEPT !.age = Elapsed(request[r].age)]
                                          ELSE request[r]
    BY <1>4 DEF Pass, Tick
  <2>2. \A r \in Requests : request'[r] \in Request /\ request'[r].token = request[r].token
    <3> SUFFICES ASSUME NEW r \in Requests
                 PROVE  request'[r] \in Request /\ request'[r].token = request[r].token
      OBVIOUS
    <3>1. request[r] \in Request
      BY DEF Shape
    <3>2. Elapsed(request[r].age) \in Nat
      BY <3>1, TimeAssumption DEF Elapsed, Request
    <3>3. /\ [request[r] EXCEPT !.age = Elapsed(request[r].age)] \in Request
          /\ [request[r] EXCEPT !.age = Elapsed(request[r].age)].token = request[r].token
      BY <3>1, <3>2 DEF Request
    <3> QED
      BY <2>1, <3>1, <3>3
  <2>3. request' \in [Requests -> Request] /\ UNCHANGED published
    BY <1>4, <2>2 DEF Pass, Tick
  <2> QED
    BY <1>1, <2>2, <2>3 DEF SameTokens, Shape
<1> QED
  BY <1>1, <1>2, <1>3, <1>4

\* So the API does not disturb the tab.
LEMMA ApiInv ==
  ASSUME Inv, SameTokens, UNCHANGED tabVars
  PROVE  Inv'
<1>1. \A r \in Requests : request'[r].token = request[r].token
  BY DEF SameTokens
<1>2. "boot" \in Requests /\ "login" \in Requests
  BY RequestsAssumption
<1> QED
  BY <1>1, <1>2 DEF SameTokens, tabVars, Inv, Shape, WorkIsPast, LiveWork, BootLive, LoginLive,
     Carries, OutIsOver, ProfileIsTheTokens, SignedOutStaysOut

-----------------------------------------------------------------------------
(* What the steps of the page have in common.                              *)

\* The page goes, and its work with it.
LEMMA AwayKeeps ==
  ASSUME Inv, tab' = Away, DropWork, UNCHANGED published,
         store' \in [token : Tokens \cup {NoToken}, transaction : SignIns \cup {NoState}],
         url' \in Callbacks \cup {NoCallback},
         signedOut' => store'.token = NoToken
  PROVE  Inv'
<1>1. /\ Away \in Tab /\ Away.status = "away" /\ Away.active = NoToken /\ Away.me = Nobody
      /\ Away.epoch = 0
  BY DEF Away, Tab, Statuses
<1>2. NoBoot \in Boot /\ NoBoot.at = "done" /\ NoBoot.epoch = 0
  BY DEF NoBoot, Boot
<1>3. NoLogin \in [at : {"idle", "token", "me"}, epoch : Nat] /\ NoLogin.at = "idle"
  BY DEF NoLogin
<1>4. boot' = NoBoot /\ login' = NoLogin /\ request' \in [Requests -> Request]
  BY RequestTypes DEF DropWork
<1>5. Shape'
  BY <1>1, <1>2, <1>3, <1>4 DEF Inv, Shape
<1>6. WorkIsPast' /\ LiveWork' /\ OutIsOver'
  BY <1>1, <1>2, <1>3, <1>4 DEF WorkIsPast, LiveWork, OutIsOver, BootLive, LoginLive
<1>7. ProfileIsTheTokens' /\ SignedOutStaysOut'
  BY <1>1 DEF ProfileIsTheTokens, SignedOutStaysOut
<1> QED
  BY <1>5, <1>6, <1>7 DEF Inv

\* The work that stays in flight when a step is over, or is over as well.
RestOrEnd ==
    /\ boot' = boot \/ boot' = NoBoot
    /\ login' = login \/ login' = NoLogin
    /\ request' \in [Requests -> Request] /\ UNCHANGED published
    /\ url' \in Callbacks \cup {NoCallback}

LEMMA RestTypes ==
  ASSUME Inv, RestOrEnd
  PROVE  /\ boot' \in Boot /\ login' \in [at : {"idle", "token", "me"}, epoch : Nat]
         /\ boot'.at # "done" => boot' = boot /\ boot.at # "done"
         /\ login'.at # "idle" => login' = login /\ login.at # "idle"
BY DEF RestOrEnd, Inv, Shape, NoBoot, NoLogin, Boot

\* Ending a session leaves whatever is in flight in the past.
LEMMA EndSessionKeeps ==
  ASSUME Inv, NEW t \in Tab, t.epoch = tab.epoch, EndSession(t), RestOrEnd
  PROVE  Inv'
<1> DEFINE new == [t EXCEPT !.epoch = t.epoch + 1, !.active = NoToken, !.me = Nobody,
                            !.status = "anonymous"]
<1>1. tab' = new /\ store' = EmptyStore
  BY DEF EndSession
<1>2. /\ new \in Tab /\ new.epoch = tab.epoch + 1 /\ new.active = NoToken
      /\ new.me = Nobody /\ new.status = "anonymous"
  <2>1. t.epoch + 1 \in Nat
    BY DEF Tab
  <2>2. new \in Tab
    BY <2>1 DEF Tab, Statuses
  <2> QED
    BY <2>2 DEF Tab
<1>3. tab.epoch \in Nat /\ boot.epoch \in Nat /\ login.epoch \in Nat
  BY DEF Inv, Shape, Tab, Boot
<1>4. EmptyStore \in [token : Tokens \cup {NoToken}, transaction : SignIns \cup {NoState}]
  BY DEF EmptyStore
<1>5. Shape'
  BY <1>1, <1>2, <1>4, RestTypes DEF RestOrEnd, Inv, Shape
<1>6. /\ boot'.at # "done" => boot'.epoch < tab'.epoch
      /\ login'.at # "idle" => login'.epoch < tab'.epoch
  BY <1>1, <1>2, <1>3, RestTypes DEF Inv, WorkIsPast
<1>7. boot'.epoch \in Nat /\ login'.epoch \in Nat
  BY RestTypes DEF Boot
<1>8. WorkIsPast' /\ ~ BootLive' /\ ~ LoginLive'
  BY <1>1, <1>2, <1>3, <1>6, <1>7 DEF WorkIsPast, BootLive, LoginLive
<1>9. ProfileIsTheTokens' /\ SignedOutStaysOut'
  BY <1>1, <1>2 DEF ProfileIsTheTokens, SignedOutStaysOut, EmptyStore
<1> QED
  BY <1>5, <1>8, <1>9 DEF Inv, LiveWork, OutIsOver

\* Neither session nor token, nor a bootstrap: the visitor is anonymous.
LEMMA AnonymousKeeps ==
  ASSUME Inv, BootLive, tab' \in Tab, tab'.epoch = tab.epoch, tab'.status = "anonymous",
         boot' = NoBoot, UNCHANGED login, RestOrEnd, UNCHANGED signedOut,
         store' \in [token : Tokens \cup {NoToken}, transaction : SignIns \cup {NoState}]
  PROVE  Inv'
<1>1. ~ LoginLive /\ ~ signedOut
  BY DEF Inv, LiveWork, OutIsOver
<1>2. ~ BootLive' /\ ~ LoginLive'
  BY <1>1 DEF BootLive, LoginLive, NoBoot
<1>3. Shape'
  BY RestTypes DEF RestOrEnd, Inv, Shape
<1>4. WorkIsPast'
  BY DEF Inv, WorkIsPast, NoBoot
<1> QED
  BY <1>1, <1>2, <1>3, <1>4
  DEF Inv, LiveWork, OutIsOver, ProfileIsTheTokens, SignedOutStaysOut

LEMMA DiscardKeeps ==
  ASSUME Inv, BootLive, NEW t \in Tab, t.epoch = tab.epoch, Discard(t), UNCHANGED login,
         RestOrEnd, UNCHANGED signedOut
  PROVE  Inv'
<1> DEFINE new == [t EXCEPT !.active = NoToken, !.me = Nobody, !.status = "anonymous"]
<1>1. tab' = new /\ store' = EmptyStore /\ boot' = NoBoot
  BY DEF Discard
<1>2. new \in Tab /\ new.epoch = tab.epoch /\ new.status = "anonymous"
  BY DEF Tab, Statuses
<1>3. EmptyStore \in [token : Tokens \cup {NoToken}, transaction : SignIns \cup {NoState}]
  BY DEF EmptyStore
<1> QED
  BY <1>1, <1>2, <1>3, AnonymousKeeps

\* Taking a token and asking /me for its profile.
LEMMA AdoptKeeps ==
  ASSUME Inv, BootLive, NEW t \in Tab, t.epoch = tab.epoch, t.status = "loading",
         NEW token \in Tokens, Adopt(t, token), store'.token = token,
         store' \in [token : Tokens \cup {NoToken}, transaction : SignIns \cup {NoState}],
         url' \in Callbacks \cup {NoCallback},
         UNCHANGED <<published, login, signedOut>>
  PROVE  Inv'
<1> DEFINE new == [t EXCEPT !.active = token]
           sent == [NoRequest EXCEPT !.token = token, !.at = "arrived"]
<1>1. tab' = new /\ boot' = [boot EXCEPT !.at = "me"]
  BY DEF Adopt
<1>2. /\ new \in Tab /\ new.epoch = tab.epoch /\ new.status = "loading"
      /\ new.active = token
  BY DEF Tab
<1>3. boot' \in Boot /\ boot'.epoch = boot.epoch /\ boot'.at = "me"
  BY <1>1 DEF Inv, Shape, Boot
<1>4. request' = [request EXCEPT !["boot"] = sent] /\ sent \in Request /\ sent.token = token
  BY RequestTypes DEF Adopt, Sent, NoRequest
<1>5. request' \in [Requests -> Request] /\ request'["boot"].token = token
  BY <1>4, RequestsAssumption DEF Inv, Shape
<1>6. ~ LoginLive /\ ~ signedOut
  BY DEF Inv, LiveWork, OutIsOver
<1>7. Shape'
  BY <1>1, <1>2, <1>3, <1>5 DEF Inv, Shape
<1>8. WorkIsPast' /\ ~ LoginLive'
  BY <1>1, <1>2, <1>3, <1>6 DEF Inv, WorkIsPast, BootLive, LoginLive
<1>9. Carries("boot")'
  BY <1>1, <1>2, <1>5, NoTokenAssumption DEF Carries
<1>10. LiveWork' /\ OutIsOver' /\ ProfileIsTheTokens' /\ SignedOutStaysOut'
  BY <1>1, <1>2, <1>6, <1>8, <1>9
  DEF LiveWork, OutIsOver, ProfileIsTheTokens, SignedOutStaysOut
<1> QED
  BY <1>7, <1>8, <1>10 DEF Inv

\* Work of the past that ends leaves the tab as it is.
LEMMA PastEnds ==
  ASSUME Inv, RestOrEnd, UNCHANGED <<store, signedOut>>, tab' \in Tab,
         tab'.epoch = tab.epoch, tab'.active = tab.active, tab'.me = tab.me,
         tab'.status = tab.status,
         \A r \in Requests : \/ request'[r].token = request[r].token
                             \/ r = "boot" /\ boot' = NoBoot
                             \/ r = "login" /\ login' = NoLogin
                             \/ r \in Pages
  PROVE  Inv'
<1>1. Shape'
  BY RestTypes DEF RestOrEnd, Inv, Shape
<1>2. WorkIsPast'
  BY RestTypes DEF RestOrEnd, Inv, WorkIsPast
<1>3. /\ BootLive' => BootLive /\ boot' = boot
      /\ LoginLive' => LoginLive /\ login' = login
  BY RestTypes DEF BootLive, LoginLive
<1>4. /\ BootLive' => request'["boot"].token = request["boot"].token
      /\ LoginLive' => request'["login"].token = request["login"].token
  BY RequestsAssumption DEF BootLive, LoginLive, NoBoot, NoLogin, Pages
<1>5. LiveWork'
  BY <1>3, <1>4 DEF Inv, LiveWork, Carries
<1>6. OutIsOver' /\ ProfileIsTheTokens' /\ SignedOutStaysOut'
  BY <1>3 DEF Inv, OutIsOver, ProfileIsTheTokens, SignedOutStaysOut
<1> QED
  BY <1>1, <1>2, <1>5, <1>6 DEF Inv

-----------------------------------------------------------------------------
(* The bootstrap.                                                          *)

\* Work that is not stale is of the present.
LEMMA StaleMeans ==
  /\ boot.at # "done" => (Stale(boot.epoch) <=> ~ BootLive)
  /\ login.at # "idle" => (Stale(login.epoch) <=> ~ LoginLive)
BY DEF Stale, BootLive, LoginLive

LEMMA RestoreKeeps ==
  ASSUME Inv, BootLive, NEW t \in Tab, t.epoch = tab.epoch, t.status = tab.status, Restore(t),
         UNCHANGED <<published, login, signedOut>>
  PROVE  Inv'
<1>1. /\ t.status = "loading" /\ url' \in Callbacks \cup {NoCallback}
      /\ store.token \in Tokens \cup {NoToken}
  BY DEF Inv, LiveWork, Shape, Restore
<1>2. CASE tab' = WithoutSession(t) /\ boot' = NoBoot /\ UNCHANGED request
           /\ store' \in {store, EmptyStore}
  <2>1. tab' \in Tab /\ tab'.epoch = tab.epoch /\ tab'.status = "anonymous"
    BY <1>2 DEF WithoutSession, Tab, Statuses
  <2>2. store' \in [token : Tokens \cup {NoToken}, transaction : SignIns \cup {NoState}]
    BY <1>2 DEF Inv, Shape, EmptyStore
  <2>3. RestOrEnd
    BY <1>1, <1>2 DEF RestOrEnd, Inv, Shape
  <2> QED
    BY <1>2, <2>1, <2>2, <2>3, AnonymousKeeps
<1>3. CASE store.token # NoToken /\ Adopt(t, store.token) /\ UNCHANGED store
  <2>1. store' \in [token : Tokens \cup {NoToken}, transaction : SignIns \cup {NoState}]
    BY <1>3 DEF Inv, Shape
  <2> QED
    BY <1>1, <1>3, <2>1, AdoptKeeps
<1> QED
  BY <1>2, <1>3 DEF Restore

LEMMA CallbackKeeps ==
  ASSUME Inv, BootLive, NEW t \in Tab, t.epoch = tab.epoch, t.status = tab.status,
         HandleCallback(t), UNCHANGED <<published, login, signedOut>>
  PROVE  Inv'
<1>1. CASE Discard(t)
  <2>1. RestOrEnd
    BY <1>1 DEF HandleCallback, Discard, RestOrEnd, Inv, Shape
  <2> QED
    BY <1>1, <2>1, DiscardKeeps
<1>2. CASE /\ store' = Consumed /\ tab' = t
           /\ boot' = [boot EXCEPT !.at = "exchange"]
  <2>1. request' = request /\ url' \in Callbacks \cup {NoCallback}
    BY DEF HandleCallback
  <2>2. store' \in [token : Tokens \cup {NoToken}, transaction : SignIns \cup {NoState}]
    BY <1>2 DEF Consumed, Inv, Shape
  <2>3. boot' \in Boot /\ boot'.epoch = boot.epoch /\ boot'.at = "exchange"
    BY <1>2 DEF Inv, Shape, Boot
  <2>4. Shape'
    BY <1>2, <2>1, <2>2, <2>3 DEF Inv, Shape
  <2>5. ~ LoginLive /\ ~ signedOut /\ tab.status = "loading"
    BY DEF Inv, LiveWork, OutIsOver
  <2>6. WorkIsPast' /\ ~ LoginLive'
    BY <1>2, <2>3, <2>5 DEF Inv, WorkIsPast, BootLive, LoginLive
  <2> QED
    BY <1>2, <2>3, <2>4, <2>5, <2>6
    DEF Inv, LiveWork, OutIsOver, ProfileIsTheTokens, SignedOutStaysOut
<1> QED
  BY <1>1, <1>2 DEF HandleCallback

LEMMA ConfigKeeps ==
  ASSUME Inv, ConfigAnswered
  PROVE  Inv'
<1>1. boot.at # "done" /\ UNCHANGED <<published, login, signedOut>>
  BY DEF ConfigAnswered, apiVars
<1>2. CASE Stale(boot.epoch)
  <2>1. boot' = NoBoot /\ UNCHANGED <<tab, url, store, request>>
    BY <1>2 DEF ConfigAnswered
  <2>2. RestOrEnd
    BY <1>1, <2>1 DEF RestOrEnd, Inv, Shape
  <2> QED
    BY <1>1, <2>1, <2>2, PastEnds DEF Inv, Shape
<1>3. CASE ~ Stale(boot.epoch)
  <2>1. PICK known \in BOOLEAN :
           LET t == [tab EXCEPT !.config = known]
           IN  Restore(t) \/ HandleCallback(t)
    BY <1>3 DEF ConfigAnswered
  <2> DEFINE t == [tab EXCEPT !.config = known]
  <2>2. t \in Tab /\ t.epoch = tab.epoch /\ t.status = tab.status
    BY DEF Inv, Shape, Tab
  <2>3. BootLive
    BY <1>1, <1>3, StaleMeans
  <2> QED
    BY <1>1, <2>1, <2>2, <2>3, RestoreKeeps, CallbackKeeps
<1> QED
  BY <1>2, <1>3

LEMMA ExchangeKeeps ==
  ASSUME Inv, ExchangeAnswered
  PROVE  Inv'
<1>1. boot.at # "done" /\ UNCHANGED <<published, url, login, signedOut>>
  BY DEF ExchangeAnswered, apiVars
<1>2. CASE Stale(boot.epoch)
  <2>1. boot' = NoBoot /\ UNCHANGED <<tab, store, request>>
    BY <1>2 DEF ExchangeAnswered
  <2>2. RestOrEnd
    BY <1>1, <2>1 DEF RestOrEnd, Inv, Shape
  <2> QED
    BY <1>1, <2>1, <2>2, PastEnds DEF Inv, Shape
<1>3. CASE ~ Stale(boot.epoch)
  <2>1. BootLive /\ tab \in Tab /\ tab.status = "loading"
    BY <1>1, <1>3, StaleMeans DEF Inv, LiveWork, Shape
  <2>2. CASE Discard(tab) /\ UNCHANGED request
    <3>1. RestOrEnd
      BY <1>1, <2>2 DEF Discard, RestOrEnd, Inv, Shape
    <3> QED
      BY <1>1, <2>1, <2>2, <3>1, DiscardKeeps
  <2>3. CASE \E token \in Tokens : /\ Adopt(tab, token)
                                   /\ store' = [store EXCEPT !.token = token]
    <3>1. PICK token \in Tokens : /\ Adopt(tab, token)
                                  /\ store' = [store EXCEPT !.token = token]
      BY <2>3
    <3>2. /\ store'.token = token
          /\ store' \in [token : Tokens \cup {NoToken}, transaction : SignIns \cup {NoState}]
      BY <3>1 DEF Inv, Shape
    <3>3. url' \in Callbacks \cup {NoCallback}
      BY <1>1 DEF Inv, Shape
    <3> QED
      BY <1>1, <2>1, <3>1, <3>2, <3>3, AdoptKeeps
  <2> QED
    BY <1>3, <2>2, <2>3 DEF ExchangeAnswered, Issuable
<1> QED
  BY <1>2, <1>3

\* Taking an answer off leaves the other requests.
LEMMA ReceivedKeeps ==
  ASSUME Inv, NEW r \in Requests, Received(r)
  PROVE  /\ request' \in [Requests -> Request]
         /\ \A q \in Requests \ {r} : request'[q] = request[q]
BY RequestTypes DEF Received, Inv, Shape

\* A profile that answers for the token in use.
LEMMA ProfileKeeps ==
  ASSUME Inv, NEW r \in {"boot", "login"}, Carries(r), ~ signedOut, UNCHANGED signedOut,
         tab' = Authenticated(tab, r), UNCHANGED store, RestOrEnd,
         ~ BootLive', ~ LoginLive'
  PROVE  Inv'
<1>1. request[r].token \in Tokens
  BY RequestsAssumption DEF Carries, Inv, Shape, Request
<1>2. TokenUser[request[r].token] \in Users
  BY <1>1, UserAssumption
<1>3. /\ tab' \in Tab /\ tab'.epoch = tab.epoch /\ tab'.active = tab.active
      /\ tab'.me = TokenUser[request[r].token] /\ tab'.status = "authenticated"
  BY <1>2 DEF Authenticated, Inv, Shape, Tab, Statuses
<1>4. Shape'
  BY <1>3, RestTypes DEF RestOrEnd, Inv, Shape
<1>5. WorkIsPast'
  BY <1>3, RestTypes DEF Inv, WorkIsPast
<1>6. ProfileIsTheTokens'
  BY <1>3 DEF Carries, ProfileIsTheTokens
<1> QED
  BY <1>4, <1>5, <1>6 DEF Inv, LiveWork, OutIsOver, SignedOutStaysOut

LEMMA BootAnsweredKeeps ==
  ASSUME Inv, BootAnswered
  PROVE  Inv'
<1>1. /\ boot.at = "me" /\ Received("boot")
      /\ UNCHANGED <<published, url, login>>
  BY DEF BootAnswered, apiVars
<1>2. tab \in Tab
  BY DEF Inv, Shape
<1>3. boot' = NoBoot /\ RestOrEnd
  <2>1. boot' = NoBoot
    BY DEF BootAnswered, Discard
  <2> QED
    BY <1>1, <2>1, ReceivedKeeps, RequestsAssumption DEF RestOrEnd, Inv, Shape
<1>4. CASE request["boot"].answer = "rejected"
  <2>1. EndSession(tab)
    BY <1>4 DEF BootAnswered
  <2> QED
    BY <1>2, <1>3, <2>1, EndSessionKeeps
<1>5. CASE request["boot"].answer # "rejected" /\ Stale(boot.epoch)
  <2>1. UNCHANGED <<tab, store, signedOut>>
    BY <1>5 DEF BootAnswered
  <2>2. \A r \in Requests : r = "boot" \/ request'[r].token = request[r].token
    BY <1>1, ReceivedKeeps, RequestsAssumption
  <2> QED
    BY <1>2, <1>3, <2>1, <2>2, PastEnds
<1>6. CASE request["boot"].answer # "rejected" /\ ~ Stale(boot.epoch)
  <2>1. BootLive /\ Carries("boot") /\ ~ signedOut /\ ~ LoginLive
    BY <1>1, <1>6, StaleMeans DEF Inv, LiveWork, OutIsOver
  <2>2. UNCHANGED signedOut
    BY <1>6 DEF BootAnswered
  <2>3. CASE Discard(tab)
    BY <1>1, <1>2, <1>3, <2>1, <2>2, <2>3, DiscardKeeps
  <2>4. CASE tab' = Authenticated(tab, "boot") /\ UNCHANGED store
    <3>1. tab'.epoch = tab.epoch
      BY <1>2, <2>4 DEF Authenticated, Tab
    <3>2. ~ BootLive' /\ ~ LoginLive'
      BY <1>1, <1>3, <2>1, <3>1 DEF BootLive, LoginLive, NoBoot
    <3> QED
      BY <1>3, <2>1, <2>2, <2>4, <3>2, ProfileKeeps
  <2> QED
    BY <1>6, <2>3, <2>4 DEF BootAnswered
<1> QED
  BY <1>4, <1>5, <1>6

-----------------------------------------------------------------------------
(* The page, and signing in and out.                                       *)

LEMMA LoadKeeps ==
  ASSUME Inv, Load
  PROVE  Inv'
<1>1. /\ boot = NoBoot /\ login = NoLogin
      /\ UNCHANGED <<published, request, store, login>> /\ signedOut' = FALSE
  BY DEF Load, apiVars, Inv, WorkIsPast
<1>2. /\ tab' \in Tab /\ tab'.status = "loading" /\ tab'.epoch = 0
      /\ tab'.active = NoToken
  BY DEF Load, Away, Tab, Statuses
<1>3. url' \in Callbacks \cup {NoCallback}
  BY DEF Load, Inv, Shape
<1>4. boot' \in Boot /\ boot'.epoch = 0 /\ boot'.at = "config"
  BY <1>3 DEF Load, Boot
<1>5. Shape'
  BY <1>1, <1>2, <1>3, <1>4 DEF Inv, Shape
<1>6. WorkIsPast' /\ ~ LoginLive'
  BY <1>1, <1>2, <1>4 DEF WorkIsPast, LoginLive, NoLogin
<1> QED
  BY <1>1, <1>2, <1>4, <1>5, <1>6
  DEF Inv, LiveWork, OutIsOver, ProfileIsTheTokens, SignedOutStaysOut

\* A reload, or the tab goes elsewhere.
LEMMA LeaveKeeps ==
  ASSUME Inv, Leave
  PROVE  Inv'
<1>1. tab' = Away /\ DropWork /\ UNCHANGED <<published, url, store, signedOut>>
  BY DEF Leave, apiVars
<1> QED
  BY <1>1, AwayKeeps DEF Inv, Shape, SignedOutStaysOut

\* A hosted sign-in is begun: only the transaction is stored.
LEMMA HostedKeeps ==
  ASSUME Inv, signIns \in Nat, LoginHosted
  PROVE  Inv'
<1>1. UNCHANGED <<published, request, tab, boot, login, url, signedOut>>
  BY DEF LoginHosted, apiVars
<1>2. signIns + 1 \in SignIns
  BY SignInsAssumption DEF LoginHosted, SignIns
<1>3. /\ store' \in [token : Tokens \cup {NoToken}, transaction : SignIns \cup {NoState}]
      /\ store'.token = store.token
  BY <1>2 DEF LoginHosted, Inv, Shape
<1> QED
  BY <1>1, <1>3
  DEF Inv, Shape, WorkIsPast, LiveWork, BootLive, LoginLive, Carries, OutIsOver,
      ProfileIsTheTokens, SignedOutStaysOut

\* A sign-in begins an epoch of its own.
LEMMA StartLoginKeeps ==
  ASSUME Inv, StartLogin
  PROVE  Inv'
<1>1. /\ login = NoLogin /\ tab.status \in {"loading", "anonymous"}
      /\ UNCHANGED <<published, request, store, boot, url>> /\ signedOut' = FALSE
  BY DEF StartLogin, OnLoginPage, apiVars
<1>2. tab \in Tab /\ boot \in Boot /\ tab.epoch \in Nat /\ boot.epoch \in Nat
  BY DEF Inv, Shape, Tab, Boot
<1>3. /\ tab' \in Tab /\ tab'.epoch = tab.epoch + 1 /\ tab'.status = tab.status
      /\ tab'.active = tab.active /\ tab'.me = tab.me
  <2> DEFINE new == [tab EXCEPT !.epoch = tab.epoch + 1, !.submitting = TRUE]
  <2>1. tab' = new
    BY DEF StartLogin
  <2>2. tab.epoch + 1 \in Nat
    BY <1>2
  <2>3. new \in Tab
    BY <1>2, <2>2 DEF Tab
  <2>4. /\ new.epoch = tab.epoch + 1 /\ new.status = tab.status
        /\ new.active = tab.active /\ new.me = tab.me
    BY <1>2 DEF Tab
  <2> QED
    BY <2>1, <2>3, <2>4
<1>4. login' = [at |-> "token", epoch |-> tab.epoch + 1]
  BY DEF StartLogin
<1>5. Shape'
  BY <1>1, <1>2, <1>3, <1>4 DEF Inv, Shape
<1>6. WorkIsPast' /\ ~ BootLive'
  BY <1>1, <1>2, <1>3, <1>4 DEF Inv, WorkIsPast, BootLive
<1> QED
  BY <1>1, <1>3, <1>4, <1>5, <1>6
  DEF Inv, LiveWork, LoginLive, OutIsOver, ProfileIsTheTokens, SignedOutStaysOut

LEMMA TokenAnsweredKeeps ==
  ASSUME Inv, TokenAnswered
  PROVE  Inv'
<1>1. login.at = "token" /\ UNCHANGED <<published, url, boot, signedOut>>
  BY DEF TokenAnswered, apiVars
<1>2. tab \in Tab
  BY DEF Inv, Shape
<1>3. CASE /\ login' = NoLogin /\ UNCHANGED <<store, request>>
           /\ tab' = [tab EXCEPT !.submitting = FALSE] \/ tab' = tab
  <2>1. /\ tab' \in Tab /\ tab'.epoch = tab.epoch /\ tab'.status = tab.status
        /\ tab'.active = tab.active /\ tab'.me = tab.me
    BY <1>2, <1>3 DEF Tab
  <2>2. RestOrEnd
    BY <1>1, <1>3 DEF RestOrEnd, Inv, Shape
  <2> QED
    BY <1>1, <1>3, <2>1, <2>2, PastEnds
<1>4. CASE \E t \in Tokens :
             /\ ~ Stale(login.epoch)
             /\ login' = [login EXCEPT !.at = "me"]
             /\ store' = [store EXCEPT !.token = t]
             /\ tab' = [tab EXCEPT !.active = t]
             /\ request' = Sent("login", t)
  <2>1. PICK t \in Tokens :
             /\ ~ Stale(login.epoch)
             /\ login' = [login EXCEPT !.at = "me"]
             /\ store' = [store EXCEPT !.token = t]
             /\ tab' = [tab EXCEPT !.active = t]
             /\ request' = Sent("login", t)
    BY <1>4
  <2> DEFINE sent == [NoRequest EXCEPT !.token = t, !.at = "arrived"]
  <2>2. LoginLive /\ ~ BootLive /\ ~ signedOut /\ tab.status \in {"loading", "anonymous"}
    BY <1>1, <2>1, StaleMeans DEF Inv, LiveWork, OutIsOver
  <2>3. /\ tab' \in Tab /\ tab'.epoch = tab.epoch /\ tab'.status = tab.status
        /\ tab'.active = t
    BY <1>2, <2>1 DEF Tab
  <2>4. /\ login' \in [at : {"idle", "token", "me"}, epoch : Nat]
        /\ login'.epoch = login.epoch /\ login'.at = "me"
    BY <2>1 DEF Inv, Shape
  <2>5. /\ store'.token = t
        /\ store' \in [token : Tokens \cup {NoToken}, transaction : SignIns \cup {NoState}]
    BY <2>1 DEF Inv, Shape
  <2>6. request' = [request EXCEPT !["login"] = sent] /\ sent \in Request /\ sent.token = t
    BY <2>1, RequestTypes DEF Sent, NoRequest
  <2>7. request' \in [Requests -> Request] /\ request'["login"].token = t
    BY <2>6, RequestsAssumption DEF Inv, Shape
  <2>8. Shape'
    BY <1>1, <2>3, <2>4, <2>5, <2>7 DEF Inv, Shape
  <2>9. WorkIsPast' /\ ~ BootLive'
    BY <1>1, <2>2, <2>3, <2>4 DEF Inv, WorkIsPast, BootLive, LoginLive
  <2>10. Carries("login")'
    BY <2>3, <2>5, <2>7, NoTokenAssumption DEF Carries
  <2> QED
    BY <1>1, <2>2, <2>3, <2>8, <2>9, <2>10
    DEF Inv, LiveWork, OutIsOver, ProfileIsTheTokens, SignedOutStaysOut
<1> QED
  BY <1>3, <1>4 DEF TokenAnswered, Issuable

LEMMA LoginAnsweredKeeps ==
  ASSUME Inv, LoginAnswered
  PROVE  Inv'
<1>1. /\ login.at = "me" /\ login' = NoLogin /\ Received("login")
      /\ UNCHANGED <<published, url, boot>>
  BY DEF LoginAnswered, apiVars
<1>2. tab \in Tab
  BY DEF Inv, Shape
<1>3. RestOrEnd
  BY <1>1, ReceivedKeeps, RequestsAssumption DEF RestOrEnd, Inv, Shape
<1>4. CASE request["login"].answer = "rejected"
  <2> DEFINE t == [tab EXCEPT !.submitting = FALSE]
  <2>1. EndSession(t) /\ t \in Tab /\ t.epoch = tab.epoch
    BY <1>2, <1>4 DEF LoginAnswered, Tab
  <2> QED
    BY <1>3, <2>1, EndSessionKeeps
<1>5. CASE /\ UNCHANGED <<store, signedOut>>
           /\ tab' = [tab EXCEPT !.submitting = FALSE] \/ tab' = tab
  <2>1. /\ tab' \in Tab /\ tab'.epoch = tab.epoch /\ tab'.status = tab.status
        /\ tab'.active = tab.active /\ tab'.me = tab.me
    BY <1>2, <1>5 DEF Tab
  <2>2. \A r \in Requests : r = "login" \/ request'[r].token = request[r].token
    BY <1>1, ReceivedKeeps, RequestsAssumption
  <2> QED
    BY <1>1, <1>3, <1>5, <2>1, <2>2, PastEnds
<1>6. CASE /\ UNCHANGED <<store, signedOut>> /\ ~ Stale(login.epoch)
           /\ tab' = Authenticated(tab, "login")
  <2>1. LoginLive /\ Carries("login") /\ ~ signedOut /\ ~ BootLive
    BY <1>1, <1>6, StaleMeans DEF Inv, LiveWork, OutIsOver
  <2>2. tab'.epoch = tab.epoch
    BY <1>2, <1>6 DEF Authenticated, Tab
  <2>3. ~ BootLive' /\ ~ LoginLive'
    BY <1>1, <2>1, <2>2 DEF BootLive, LoginLive, NoLogin
  <2> QED
    BY <1>3, <1>6, <2>1, <2>3, ProfileKeeps
<1> QED
  BY <1>4, <1>5, <1>6 DEF LoginAnswered

LEMMA AskKeeps ==
  ASSUME Inv, NEW p \in Pages, Ask(p)
  PROVE  Inv'
<1> DEFINE sent == [NoRequest EXCEPT !.token = tab.active, !.at = "arrived"]
<1>1. /\ UNCHANGED <<published, url, store, tab, boot, login, signedOut>>
      /\ request' = [request EXCEPT ![p] = sent]
  BY DEF Ask, Sent, apiVars
<1>2. sent \in Request
  BY RequestTypes DEF Inv, Shape, Tab
<1>3. /\ request' \in [Requests -> Request]
      /\ \A r \in Requests : r = p \/ request'[r].token = request[r].token
  BY <1>1, <1>2 DEF Inv, Shape
<1>4. RestOrEnd
  BY <1>1, <1>3 DEF RestOrEnd, Inv, Shape
<1> QED
  BY <1>1, <1>3, <1>4, PastEnds DEF Inv, Shape

LEMMA PageAnsweredKeeps ==
  ASSUME Inv, NEW p \in Pages, PageAnswered(p)
  PROVE  Inv'
<1>1. Received(p) /\ UNCHANGED <<published, url, boot, login>>
  BY DEF PageAnswered, apiVars
<1>2. p \in Requests /\ tab \in Tab
  BY DEF Pages, Inv, Shape
<1>3. RestOrEnd /\ \A r \in Requests : r = p \/ request'[r].token = request[r].token
  BY <1>1, <1>2, ReceivedKeeps DEF RestOrEnd, Inv, Shape
<1>4. CASE EndSession(tab)
  BY <1>2, <1>3, <1>4, EndSessionKeeps
<1>5. CASE UNCHANGED <<tab, store, signedOut>>
  BY <1>2, <1>3, <1>5, PastEnds
<1> QED
  BY <1>4, <1>5 DEF PageAnswered

LEMMA LogoutKeeps ==
  ASSUME Inv, Logout
  PROVE  Inv'
<1>1. UNCHANGED <<published, url, request, boot, login>> /\ EndSession(tab)
  BY DEF Logout, apiVars
<1>2. RestOrEnd /\ tab \in Tab
  BY <1>1 DEF RestOrEnd, Inv, Shape
<1> QED
  BY <1>1, <1>2, EndSessionKeeps

-----------------------------------------------------------------------------
(* Codes of hosted sign-ins.                                               *)

\* A code that was sent is of a sign-in whose transaction is not in store.
CodesInv ==
    /\ exchanges \in [SignIns -> 0 .. 1] /\ signIns \in 0 .. MaxSignIns
    /\ store.transaction \in SignIns => store.transaction <= signIns
    /\ \A s \in SignIns : exchanges[s] = 1 => s <= signIns /\ store.transaction # s

\* A step that sends no code, and neither starts a sign-in.
NoCode ==
    /\ UNCHANGED <<exchanges, signIns>>
    /\ store'.transaction \in {store.transaction, NoState}

\* What may happen to the codes: nothing, one is sent out of the store, or a
\* new sign-in takes the store.
CodeStep ==
    \/ NoCode
    \/ /\ store.transaction \in SignIns /\ store'.transaction = NoState
       /\ exchanges' = [exchanges EXCEPT ![store.transaction] = @ + 1]
       /\ UNCHANGED signIns
    \/ /\ signIns < MaxSignIns /\ signIns' = signIns + 1
       /\ store'.transaction = signIns + 1
       /\ UNCHANGED exchanges

LEMMA TabCodes ==
  ASSUME Inv, TabStep
  PROVE  CodeStep
<1>1. store \in [token : Tokens \cup {NoToken}, transaction : SignIns \cup {NoState}]
  BY DEF Inv, Shape
<1>2. EmptyStore.transaction = NoState
  BY DEF EmptyStore
<1>3. \A t : EndSession(t) \/ Discard(t) => store'.transaction = NoState
  BY <1>2 DEF EndSession, Discard
<1>4. CASE ConfigAnswered
  <2>1. UNCHANGED signIns
    BY <1>4 DEF ConfigAnswered
  <2>2. CASE UNCHANGED <<store, exchanges>>
    BY <2>1, <2>2 DEF CodeStep, NoCode
  <2>3. ASSUME NEW t, Restore(t)
        PROVE  CodeStep
    BY <1>2, <2>1, <2>3 DEF Restore, CodeStep, NoCode
  <2>4. ASSUME NEW t, boot.callback # NoCallback, HandleCallback(t)
        PROVE  CodeStep
    <3>1. CASE Discard(t) /\ UNCHANGED exchanges
      BY <1>3, <2>1, <3>1 DEF CodeStep, NoCode
    <3>2. CASE /\ store.transaction = boot.callback.state /\ store' = Consumed
               /\ exchanges' = [exchanges EXCEPT ![boot.callback.state] = @ + 1]
      <4>1. boot.callback \in Callbacks
        BY <2>4 DEF Inv, Shape, Boot
      <4>2. boot.callback.state \in SignIns
        BY <4>1 DEF Callbacks
      <4>3. store'.transaction = NoState
        BY <1>1, <3>2 DEF Consumed
      <4> QED
        BY <2>1, <3>2, <4>2, <4>3 DEF CodeStep
    <3> QED
      BY <2>4, <3>1, <3>2 DEF HandleCallback
  <2> QED
    BY <1>4, <2>2, <2>3, <2>4 DEF ConfigAnswered
<1>5. CASE ExchangeAnswered
  <2>1. UNCHANGED <<signIns, exchanges>>
    BY <1>5 DEF ExchangeAnswered
  <2>2. UNCHANGED store \/ Discard(tab) \/ \E t \in Tokens : store' = [store EXCEPT !.token = t]
    BY <1>5 DEF ExchangeAnswered, Issuable
  <2> QED
    BY <1>1, <1>3, <2>1, <2>2 DEF CodeStep, NoCode
<1>6. CASE BootAnswered
  BY <1>3, <1>6 DEF BootAnswered, CodeStep, NoCode
<1>7. CASE TokenAnswered
  <2>1. UNCHANGED <<signIns, exchanges>>
    BY <1>7 DEF TokenAnswered
  <2>2. UNCHANGED store \/ \E t \in Tokens : store' = [store EXCEPT !.token = t]
    BY <1>7 DEF TokenAnswered, Issuable
  <2> QED
    BY <1>1, <2>1, <2>2 DEF CodeStep, NoCode
<1>8. CASE LoginAnswered
  BY <1>3, <1>8 DEF LoginAnswered, CodeStep, NoCode
<1>9. CASE \E p \in Pages : PageAnswered(p)
  BY <1>3, <1>9 DEF PageAnswered, CodeStep, NoCode
<1> QED
  BY <1>4, <1>5, <1>6, <1>7, <1>8, <1>9 DEF TabStep

LEMMA AnyCodes == Inv /\ [Next]_vars => CodeStep
<1> SUFFICES ASSUME Inv, [Next]_vars PROVE CodeStep
  OBVIOUS
<1>1. store \in [token : Tokens \cup {NoToken}, transaction : SignIns \cup {NoState}]
  BY DEF Inv, Shape
<1>2. CASE TabStep
  BY <1>2, TabCodes
<1>3. CASE UserStep
  <2>1. CASE LoginHosted
    <3>1. /\ signIns < MaxSignIns /\ signIns' = signIns + 1 /\ UNCHANGED exchanges
          /\ store' = [store EXCEPT !.transaction = signIns + 1]
      BY <2>1 DEF LoginHosted
    <3> QED
      BY <1>1, <3>1 DEF CodeStep
  <2>2. CASE Logout
    <3>1. UNCHANGED <<signIns, exchanges>> /\ store' = EmptyStore
      BY <2>2 DEF Logout, EndSession
    <3> QED
      BY <3>1 DEF CodeStep, NoCode, EmptyStore
  <2>3. CASE Load \/ Leave \/ StartLogin \/ \E p \in Pages : Ask(p)
    BY <2>3 DEF Load, Leave, StartLogin, Ask, CodeStep, NoCode
  <2> QED
    BY <1>3, <2>1, <2>2, <2>3 DEF UserStep
<1>4. CASE (\E r \in Requests : ApiStep(r)) \/ ApiRest \/ Pass
  BY <1>4 DEF ApiStep, ApiRest, Pass, tabVars, CodeStep, NoCode
<1>5. CASE UNCHANGED vars
  BY <1>5 DEF vars, CodeStep, NoCode
<1> QED
  BY <1>2, <1>3, <1>4, <1>5 DEF Next

LEMMA StepCodes == CodesInv /\ CodeStep => CodesInv'
<1> SUFFICES ASSUME CodesInv, CodeStep PROVE CodesInv'
  OBVIOUS
<1>1. MaxSignIns \in Nat /\ \A s \in SignIns : s \in Nat
  BY SignInsAssumption DEF SignIns
<1>2. NoState \notin SignIns
  BY StateAssumption
<1>3. CASE NoCode
  BY <1>2, <1>3 DEF NoCode, CodesInv
<1>4. CASE /\ store.transaction \in SignIns /\ store'.transaction = NoState
           /\ exchanges' = [exchanges EXCEPT ![store.transaction] = @ + 1]
           /\ UNCHANGED signIns
  <2>1. exchanges[store.transaction] = 0
    <3>1. exchanges[store.transaction] \in 0 .. 1
      BY <1>4 DEF CodesInv
    <3>2. exchanges[store.transaction] # 1
      BY <1>4 DEF CodesInv
    <3> QED
      BY <3>1, <3>2
  <2>2. exchanges' = [exchanges EXCEPT ![store.transaction] = 1]
    BY <1>4, <2>1
  <2> QED
    BY <1>2, <1>4, <2>2 DEF CodesInv
<1>5. CASE /\ signIns < MaxSignIns /\ signIns' = signIns + 1
           /\ store'.transaction = signIns + 1 /\ UNCHANGED exchanges
  BY <1>1, <1>5 DEF CodesInv
<1> QED
  BY <1>3, <1>4, <1>5 DEF CodeStep

LEMMA InitCodes == Init => CodesInv
BY SignInsAssumption, StateAssumption DEF Init, CodesInv, SignIns, EmptyStore

-----------------------------------------------------------------------------
(* The keys of the API.                                                    *)

\* A request in the API while the pool publishes `pub` and `left` is left of the
\* cooldown: a fetch brings the old keys, and a forced one is as old as what has
\* passed of the cooldown it began, unless another was begun since.
RequestOK(q, pub, left) ==
    /\ q \in [token : Tokens \cup {NoToken}, at : Places, seen : SUBSET pub,
              age : 0 .. CacheTime, answer : Answers]
    /\ q.at \in {"loading", "reloading"} => OldKeys \subseteq q.seen
    /\ q.at = "reloading" => left + q.age >= Cooldown

\* The API has the old keys or none.
CacheOK ==
    /\ OldKeys \subseteq published /\ published \subseteq Keys
    /\ keys \subseteq published /\ (keys = {} \/ OldKeys \subseteq keys)
    /\ keyAge \in 0 .. CacheTime /\ cooldown \in 0 .. Cooldown /\ refused \in SUBSET Tokens

KeysInv ==
    /\ CacheOK
    /\ request \in [Requests -> Request]
    /\ \A r \in Requests : RequestOK(request[r], published, cooldown)

\* What the tab does to the requests: one is sent, forgotten, or left alone.
AtRest == {q \in Request : /\ q.at \in {"idle", "arrived"} /\ q.seen = {} /\ q.age = 0
                           /\ q.answer = "none"}
TabRequests ==
    /\ UNCHANGED apiVars /\ request' \in [Requests -> Request]
    /\ \A r \in Requests : request'[r] = request[r] \/ request'[r] \in AtRest

LEMMA RequestsAtRest ==
  /\ NoRequest \in AtRest
  /\ \A t \in Tokens \cup {NoToken} :
        [NoRequest EXCEPT !.token = t, !.at = "arrived"] \in AtRest
BY DEF NoRequest, Request, Places, Answers, AtRest

\* The steps of the tab and its user.
LEMMA TabAndUserRequests ==
  ASSUME Inv, TabStep \/ UserStep
  PROVE  TabRequests
<1>1. request \in [Requests -> Request] /\ tab \in Tab
  BY DEF Inv, Shape
<1>2. store.token \in Tokens \cup {NoToken} /\ tab.active \in Tokens \cup {NoToken}
  BY DEF Inv, Shape, Tab
<1>3. ASSUME NEW r \in Requests, Received(r), UNCHANGED apiVars
      PROVE  TabRequests
  BY <1>1, <1>3, RequestsAtRest, RequestTypes DEF Received, TabRequests
<1>4. ASSUME NEW r \in Requests, NEW t \in Tokens \cup {NoToken}, request' = Sent(r, t),
             UNCHANGED apiVars
      PROVE  TabRequests
  <2> DEFINE sent == [NoRequest EXCEPT !.token = t, !.at = "arrived"]
  <2>1. sent \in AtRest /\ sent \in Request
    BY RequestsAtRest, RequestTypes
  <2>2. request' = [request EXCEPT ![r] = sent]
    BY <1>4 DEF Sent
  <2> HIDE DEF sent
  <2> QED
    BY <1>1, <1>4, <2>1, <2>2 DEF TabRequests
<1>5. ASSUME DropWork, UNCHANGED apiVars
      PROVE  TabRequests
  BY <1>5, RequestsAtRest, RequestTypes DEF DropWork, TabRequests
<1>6. ASSUME UNCHANGED request, UNCHANGED apiVars
      PROVE  TabRequests
  BY <1>1, <1>6 DEF TabRequests
<1>7. UNCHANGED apiVars
  BY DEF TabStep, UserStep, ConfigAnswered, ExchangeAnswered, BootAnswered, TokenAnswered,
         LoginAnswered, PageAnswered, Load, Leave, StartLogin, LoginHosted, Logout, Ask
<1>8. CASE TabStep
  <2>1. CASE ConfigAnswered
    <3>1. UNCHANGED request \/ request' = Sent("boot", store.token)
      BY <2>1 DEF ConfigAnswered, Restore, HandleCallback, Adopt
    <3> QED
      BY <1>2, <1>4, <1>6, <1>7, <3>1, RequestsAssumption
  <2>2. CASE ExchangeAnswered
    <3>1. UNCHANGED request \/ \E t \in Tokens : request' = Sent("boot", t)
      BY <2>2 DEF ExchangeAnswered, Adopt, Issuable
    <3> QED
      BY <1>4, <1>6, <1>7, <3>1, RequestsAssumption
  <2>3. CASE TokenAnswered
    <3>1. UNCHANGED request \/ \E t \in Tokens : request' = Sent("login", t)
      BY <2>3 DEF TokenAnswered, Issuable
    <3> QED
      BY <1>4, <1>6, <1>7, <3>1, RequestsAssumption
  <2>4. CASE BootAnswered
    BY <1>3, <1>7, <2>4, RequestsAssumption DEF BootAnswered
  <2>5. CASE LoginAnswered
    BY <1>3, <1>7, <2>5, RequestsAssumption DEF LoginAnswered
  <2>6. CASE \E p \in Pages : PageAnswered(p)
    BY <1>3, <1>7, <2>6 DEF PageAnswered, Pages
  <2> QED
    BY <1>8, <2>1, <2>2, <2>3, <2>4, <2>5, <2>6 DEF TabStep
<1>9. CASE UserStep
  <2>1. CASE Leave
    BY <1>5, <1>7, <2>1 DEF Leave
  <2>2. CASE LoginHosted \/ Logout
    BY <1>6, <1>7, <2>2 DEF LoginHosted, Logout
  <2>3. CASE Load \/ StartLogin
    BY <1>6, <1>7, <2>3 DEF Load, StartLogin
  <2>4. CASE \E p \in Pages : Ask(p)
    BY <1>2, <1>4, <1>7, <2>4 DEF Ask, Pages
  <2> QED
    BY <1>9, <2>1, <2>2, <2>3, <2>4 DEF UserStep
<1> QED
  BY <1>8, <1>9

\* A request at rest is in order whatever the API does.
LEMMA RestIsOK ==
  ASSUME NEW q \in AtRest, NEW pub, NEW left
  PROVE  RequestOK(q, pub, left)
<1>1. CacheTime \in Nat /\ 0 \in 0 .. CacheTime
  BY TimeAssumption
<1> QED
  BY <1>1 DEF AtRest, Request, RequestOK

LEMMA TabKeys ==
  ASSUME KeysInv, TabRequests
  PROVE  KeysInv'
<1>1. UNCHANGED <<published, keys, keyAge, cooldown, refused>>
  BY DEF TabRequests, apiVars
<1>2. ASSUME NEW r \in Requests
      PROVE  RequestOK(request'[r], published, cooldown)
  BY RestIsOK DEF TabRequests, KeysInv
<1>3. \A r \in Requests : RequestOK(request'[r], published', cooldown')
  BY <1>1, <1>2
<1>4. CacheOK'
  BY <1>1 DEF KeysInv, CacheOK
<1> QED
  BY <1>3, <1>4 DEF KeysInv, TabRequests

\* What the API publishes only grows, and a cooldown that is not over is only
\* begun anew: neither disturbs a request.
LEMMA OthersAreOK ==
  ASSUME NEW q, NEW pub, NEW more, NEW left \in 0 .. Cooldown, NEW now \in {left, Cooldown},
         RequestOK(q, pub, left), pub \subseteq more
  PROVE  RequestOK(q, more, now)
<1>1. Cooldown \in Nat /\ q.age \in Nat
  BY TimeAssumption DEF RequestOK
<1>2. q.at = "reloading" => now + q.age >= Cooldown
  BY <1>1 DEF RequestOK
<1> QED
  BY <1>2 DEF RequestOK

\* A request that is answered, and one that fetches.
LEMMA AnswerIsOK ==
  ASSUME KeysInv, NEW r \in Requests, NEW a \in Answers, Answer(r, a), NEW pub, NEW left
  PROVE  /\ RequestOK(request'[r], pub, left) /\ request'[r].answer = a
         /\ request'[r] \in Request
         /\ request' = [request EXCEPT ![r] = request'[r]]
<1> DEFINE new == [NoRequest EXCEPT !.token = request[r].token, !.at = "answered",
                                    !.answer = a]
<1>1. request[r] \in Request
  BY DEF KeysInv
<1>2. /\ new \in Request /\ new.at = "answered" /\ new.seen = {} /\ new.age = 0
      /\ new.answer = a
  BY <1>1 DEF NoRequest, Request, Places, Answers
<1>3. request' = [request EXCEPT ![r] = new] /\ request'[r] = new
  BY DEF Answer, KeysInv
<1> HIDE DEF new
<1>4. 0 \in 0 .. CacheTime
  BY TimeAssumption
<1>5. RequestOK(new, pub, left)
  BY <1>2, <1>4 DEF RequestOK, Request
<1> QED
  BY <1>2, <1>3, <1>5

LEMMA FetchIsOK ==
  ASSUME KeysInv, NEW r \in Requests, NEW place \in {"loading", "reloading"}, Fetch(r, place),
         NEW left \in 0 .. Cooldown, place = "reloading" => left = Cooldown
  PROVE  /\ RequestOK(request'[r], published, left)
         /\ request'[r].answer = request[r].answer
         /\ request'[r] \in Request
         /\ request' = [request EXCEPT ![r] = request'[r]]
<1> DEFINE new == [request[r] EXCEPT !.at = place, !.seen = published, !.age = 0]
<1>1. request[r] \in Request /\ published \in SUBSET Keys /\ OldKeys \subseteq published
  BY DEF KeysInv, CacheOK
<1>2. /\ new \in Request /\ new.at = place /\ new.seen = published /\ new.age = 0
      /\ new.answer = request[r].answer
  BY <1>1 DEF Request, Places
<1>3. request' = [request EXCEPT ![r] = new] /\ request'[r] = new
  BY DEF Fetch, KeysInv
<1> HIDE DEF new
<1>4. 0 \in 0 .. CacheTime /\ Cooldown \in Nat
  BY TimeAssumption
<1>5. new.at = "reloading" => left + new.age >= Cooldown
  BY <1>2, <1>4
<1>6. RequestOK(new, published, left)
  BY <1>1, <1>2, <1>4, <1>5 DEF RequestOK, Request
<1> QED
  BY <1>2, <1>3, <1>6

\* The step of one request keeps the others in order.
LEMMA OneRequest ==
  ASSUME KeysInv, NEW r \in Requests, request'[r] \in Request,
         request' = [request EXCEPT ![r] = request'[r]],
         RequestOK(request'[r], published, cooldown'), UNCHANGED published,
         cooldown' \in {cooldown, Cooldown}, CacheOK'
  PROVE  KeysInv'
<1>1. cooldown \in 0 .. Cooldown
  BY DEF KeysInv, CacheOK
<1>2. request' \in [Requests -> Request] /\ \A q \in Requests \ {r} : request'[q] = request[q]
  BY DEF KeysInv
<1>3. \A q \in Requests \ {r} : RequestOK(request'[q], published, cooldown')
  BY <1>1, <1>2, OthersAreOK DEF KeysInv
<1>4. \A q \in Requests : RequestOK(request'[q], published', cooldown')
  BY <1>3
<1> QED
  BY <1>2, <1>4 DEF KeysInv

\* What a step did for request r, when the cooldown is now `left`.
Served(r, left) ==
    /\ request'[r] \in Request /\ request' = [request EXCEPT ![r] = request'[r]]
    /\ RequestOK(request'[r], published, left)

\* A rejection of a token in order blames a rotated key, within the cooldown.
BlamesRotation(r) ==
    RejectedNow(r) /\ request[r].token \notin refused =>
        TokenKey[request[r].token] \notin OldKeys /\ cooldown' > 0

LEMMA JudgeServes ==
  ASSUME KeysInv, NEW r \in Requests, Judge(r), NEW left
  PROVE  Served(r, left) /\ (RejectedNow(r) => request[r].token \in refused)
<1>1. PICK a \in {"rejected", "ok", "error"} :
         Answer(r, a) /\ (a = "rejected" => request[r].token \in refused)
  BY DEF Judge
<1>2. a \in Answers
  BY DEF Answers
<1>3. /\ RequestOK(request'[r], published, left) /\ request'[r].answer = a
      /\ request'[r] \in Request
      /\ request' = [request EXCEPT ![r] = request'[r]]
  BY <1>1, <1>2, AnswerIsOK
<1> QED
  BY <1>1, <1>3 DEF Served, RejectedNow

LEMMA LookUpServes ==
  ASSUME KeysInv, NEW r \in Requests, NEW ks, OldKeys \subseteq ks, LookUp(r, ks)
  PROVE  Served(r, cooldown') /\ cooldown' \in {cooldown, Cooldown} /\ BlamesRotation(r)
<1>1. cooldown \in 0 .. Cooldown /\ Cooldown \in Nat /\ Cooldown \in 0 .. Cooldown
  BY TimeAssumption DEF KeysInv, CacheOK
<1>2. CASE Judge(r) /\ UNCHANGED cooldown
  BY <1>2, JudgeServes DEF BlamesRotation
<1>3. CASE Fetch(r, "reloading") /\ cooldown' = Cooldown
  <2>1. /\ RequestOK(request'[r], published, Cooldown)
        /\ request'[r].answer = request[r].answer /\ request'[r] \in Request
        /\ request' = [request EXCEPT ![r] = request'[r]]
    BY <1>1, <1>3, FetchIsOK
  <2> QED
    BY <1>3, <2>1 DEF Served, BlamesRotation, RejectedNow
<1>4. CASE /\ TokenKey[request[r].token] \notin ks /\ ~ RefetchDue
           /\ Answer(r, "rejected") /\ UNCHANGED cooldown
  <2>1. cooldown > 0
    BY <1>1, <1>4 DEF RefetchDue
  <2>2. "rejected" \in Answers
    BY DEF Answers
  <2>3. /\ RequestOK(request'[r], published, cooldown) /\ request'[r] \in Request
        /\ request' = [request EXCEPT ![r] = request'[r]]
    BY <1>4, <2>2, AnswerIsOK
  <2> QED
    BY <1>4, <2>1, <2>3 DEF Served, BlamesRotation
<1> QED
  BY <1>2, <1>3, <1>4 DEF LookUp

\* A rejection of request r that RejectionsAreJustified allows.
JustifiedFor(r) ==
    RejectedNow(r) /\ request[r].token \notin refused =>
        \/ keys \cup keys' = {}
        \/ /\ TokenKey[request[r].token] \notin OldKeys
           /\ \/ cooldown' > 0
              \/ request[r].at = "reloading" /\ request[r].age >= Cooldown

\* A step for r alone, and one for no request in particular.
OneServed(r) ==
    /\ KeysInv' /\ JustifiedFor(r)
    /\ request' = [request EXCEPT ![r] = request'[r]]

\* What a fetch brings are the keys as published then, with the old ones.
LEMMA BroughtKeys ==
  ASSUME KeysInv, NEW r \in Requests, request[r].at \in {"loading", "reloading"},
         keys' \in Brought(r), keyAge' = request[r].age, UNCHANGED <<published, refused>>,
         cooldown' \in {cooldown, Cooldown}
  PROVE  CacheOK' /\ OldKeys \subseteq keys'
<1>1. RequestOK(request[r], published, cooldown)
  BY DEF KeysInv
<1>2. /\ request[r].seen \subseteq published /\ OldKeys \subseteq request[r].seen
      /\ request[r].age \in 0 .. CacheTime
  BY <1>1 DEF RequestOK
<1>3. keyAge' \in 0 .. CacheTime /\ Cooldown \in 0 .. Cooldown
  BY <1>2, TimeAssumption
<1> QED
  BY <1>2, <1>3 DEF KeysInv, CacheOK, Brought

LEMMA ArriveServes ==
  ASSUME KeysInv, NEW r \in Requests, Arrive(r)
  PROVE  OneServed(r)
<1>1. UNCHANGED <<published, keys, keyAge, refused>>
  BY DEF Arrive
<1>2. Cooldown \in 0 .. Cooldown /\ cooldown \in 0 .. Cooldown
  BY TimeAssumption DEF KeysInv, CacheOK
<1>3. CASE LookUp(r, keys) /\ keys # {}
  <2>1. OldKeys \subseteq keys
    BY <1>3 DEF KeysInv, CacheOK
  <2>2. Served(r, cooldown') /\ cooldown' \in {cooldown, Cooldown} /\ BlamesRotation(r)
    BY <1>3, <2>1, LookUpServes
  <2>3. CacheOK'
    BY <1>1, <1>2, <2>2 DEF KeysInv, CacheOK
  <2>4. KeysInv'
    BY <1>1, <2>2, <2>3, OneRequest DEF Served
  <2> QED
    BY <2>2, <2>4 DEF OneServed, Served, JustifiedFor, BlamesRotation
<1>4. CASE Fetch(r, "loading") /\ UNCHANGED cooldown
  <2>1. /\ RequestOK(request'[r], published, cooldown)
        /\ request'[r].answer = request[r].answer /\ request'[r] \in Request
        /\ request' = [request EXCEPT ![r] = request'[r]]
    BY <1>2, <1>4, FetchIsOK
  <2>2. CacheOK'
    BY <1>1, <1>4 DEF KeysInv, CacheOK
  <2>3. KeysInv'
    BY <1>1, <1>4, <2>1, <2>2, OneRequest
  <2> QED
    BY <2>1, <2>3 DEF OneServed, JustifiedFor, RejectedNow
<1> QED
  BY <1>3, <1>4 DEF Arrive, Fresh

LEMMA LoadedServes ==
  ASSUME KeysInv, NEW r \in Requests, Loaded(r)
  PROVE  OneServed(r)
<1>1. UNCHANGED <<published, refused>> /\ request[r].at = "loading"
  BY DEF Loaded
<1>2. Cooldown \in 0 .. Cooldown /\ cooldown \in 0 .. Cooldown
  BY TimeAssumption DEF KeysInv, CacheOK
<1>3. ASSUME LookUp(r, keys'), OldKeys \subseteq keys',
             cooldown' \in {cooldown, Cooldown} => CacheOK'
      PROVE  OneServed(r)
  <2>1. Served(r, cooldown') /\ cooldown' \in {cooldown, Cooldown} /\ BlamesRotation(r)
    BY <1>3, LookUpServes
  <2>2. KeysInv'
    BY <1>1, <1>3, <2>1, OneRequest DEF Served
  <2> QED
    BY <2>1, <2>2 DEF OneServed, Served, JustifiedFor, BlamesRotation
<1>4. CASE keys' \in Brought(r) /\ keyAge' = request[r].age /\ LookUp(r, keys')
  <2>1. cooldown' \in {cooldown, Cooldown} => CacheOK'
    BY <1>1, <1>4, BroughtKeys
  <2>2. OldKeys \subseteq keys'
    <3>1. RequestOK(request[r], published, cooldown)
      BY DEF KeysInv
    <3> QED
      BY <1>1, <1>4, <3>1 DEF Brought, RequestOK, KeysInv, CacheOK
  <2> QED
    BY <1>3, <1>4, <2>1, <2>2
<1>5. CASE keys' = Kept /\ UNCHANGED keyAge /\ keys' # {} /\ LookUp(r, keys')
  <2>1. keys' = keys /\ OldKeys \subseteq keys'
    BY <1>5 DEF Kept, KeysInv, CacheOK
  <2>2. cooldown' \in {cooldown, Cooldown} => CacheOK'
    BY <1>1, <1>2, <1>5, <2>1 DEF KeysInv, CacheOK
  <2> QED
    BY <1>3, <1>5, <2>1, <2>2
<1>6. CASE /\ keys' = Kept /\ UNCHANGED keyAge /\ keys' = {}
           /\ Answer(r, "rejected") /\ UNCHANGED cooldown
  <2>1. keys = {} /\ "rejected" \in Answers
    BY <1>6 DEF Kept, Answers
  <2>2. CacheOK'
    BY <1>1, <1>6, <2>1 DEF KeysInv, CacheOK
  <2>3. /\ RequestOK(request'[r], published, cooldown) /\ request'[r] \in Request
        /\ request' = [request EXCEPT ![r] = request'[r]]
    BY <1>6, <2>1, AnswerIsOK
  <2>4. KeysInv'
    BY <1>1, <1>6, <2>2, <2>3, OneRequest
  <2> QED
    BY <1>6, <2>1, <2>3, <2>4 DEF OneServed, JustifiedFor
<1> QED
  BY <1>4, <1>5, <1>6 DEF Loaded

\* A forced fetch that returns after the cooldown it began has taken that long.
LEMMA ReloadedServes ==
  ASSUME KeysInv, NEW r \in Requests, Reloaded(r)
  PROVE  OneServed(r)
<1>1. UNCHANGED <<published, refused, cooldown>> /\ request[r].at = "reloading"
  BY DEF Reloaded
<1>2. cooldown > 0 \/ request[r].age >= Cooldown
  <2>1. RequestOK(request[r], published, cooldown)
    BY DEF KeysInv
  <2>2. cooldown + request[r].age >= Cooldown /\ request[r].age \in 0 .. CacheTime
    BY <1>1, <2>1 DEF RequestOK
  <2>3. cooldown \in 0 .. Cooldown
    BY DEF KeysInv, CacheOK
  <2> QED
    BY <2>2, <2>3, TimeAssumption
<1>3. CacheOK' /\ (keys \cup keys' = {} \/ OldKeys \subseteq keys')
  <2>1. CASE keys' \in Brought(r) /\ keyAge' = request[r].age
    BY <1>1, <2>1, BroughtKeys
  <2>2. CASE keys' = Kept /\ UNCHANGED keyAge
    BY <1>1, <2>2 DEF Kept, KeysInv, CacheOK
  <2> QED
    BY <2>1, <2>2 DEF Reloaded
<1>4. CASE Judge(r)
  <2>1. Served(r, cooldown') /\ (RejectedNow(r) => request[r].token \in refused)
    BY <1>4, JudgeServes
  <2>2. KeysInv'
    BY <1>1, <1>3, <2>1, OneRequest DEF Served
  <2> QED
    BY <2>1, <2>2 DEF OneServed, Served, JustifiedFor
<1>5. CASE TokenKey[request[r].token] \notin keys' /\ Answer(r, "rejected")
  <2>1. "rejected" \in Answers
    BY DEF Answers
  <2>2. /\ RequestOK(request'[r], published, cooldown') /\ request'[r] \in Request
        /\ request' = [request EXCEPT ![r] = request'[r]]
    BY <1>5, <2>1, AnswerIsOK
  <2>3. KeysInv'
    BY <1>1, <1>3, <2>2, OneRequest
  <2> QED
    BY <1>1, <1>2, <1>3, <1>5, <2>2, <2>3 DEF OneServed, JustifiedFor
<1> QED
  BY <1>4, <1>5 DEF Reloaded

\* One step of the API for one request: it is not disturbed, and others neither.
LEMMA RequestServed ==
  ASSUME KeysInv, NEW r \in Requests, ApiStep(r) \/ Unavailable(r)
  PROVE  OneServed(r)
<1>1. CASE Verify(r)
  BY <1>1, ArriveServes, LoadedServes, ReloadedServes DEF Verify
<1>2. CASE VerifyLocally(r)
  <2>1. Judge(r) /\ UNCHANGED <<published, keys, keyAge, cooldown, refused>>
    BY <1>2 DEF VerifyLocally, apiVars
  <2>2. Served(r, cooldown') /\ (RejectedNow(r) => request[r].token \in refused)
    BY <2>1, JudgeServes
  <2>3. CacheOK'
    BY <2>1 DEF KeysInv, CacheOK
  <2>4. KeysInv'
    BY <2>1, <2>2, <2>3, OneRequest DEF Served
  <2> QED
    BY <2>2, <2>4 DEF OneServed, Served, JustifiedFor
<1>3. CASE Unavailable(r)
  <2>1. Answer(r, "error") /\ UNCHANGED <<published, keys, keyAge, cooldown, refused>>
    BY <1>3 DEF Unavailable
  <2>2. "error" \in Answers
    BY DEF Answers
  <2>3. /\ RequestOK(request'[r], published, cooldown') /\ request'[r] \in Request
        /\ request'[r].answer = "error" /\ request' = [request EXCEPT ![r] = request'[r]]
    BY <2>1, <2>2, AnswerIsOK
  <2>4. CacheOK'
    BY <2>1 DEF KeysInv, CacheOK
  <2>5. KeysInv'
    BY <2>1, <2>3, <2>4, OneRequest
  <2> QED
    BY <2>3, <2>5 DEF OneServed, JustifiedFor, RejectedNow
<1> QED
  BY <1>1, <1>2, <1>3 DEF ApiStep

\* A step that answers no request.
NoneAnswered == KeysInv' /\ \A r \in Requests : ~ RejectedNow(r)

LEMMA SurroundingsServe ==
  ASSUME KeysInv, Rotate \/ Refuse \/ OtherRefetch \/ OtherFetched
  PROVE  NoneAnswered
<1>1. UNCHANGED request
  BY DEF Rotate, Refuse, OtherRefetch, OtherFetched
<1>2. CASE Rotate
  <2>1. /\ published' = Keys /\ published \subseteq Keys
        /\ UNCHANGED <<keys, keyAge, cooldown, refused>> /\ cooldown \in 0 .. Cooldown
    BY <1>2 DEF Rotate, KeysInv, CacheOK
  <2>2. CacheOK'
    BY <2>1, KeyAssumption DEF KeysInv, CacheOK
  <2>3. \A r \in Requests : RequestOK(request[r], Keys, cooldown)
    BY <2>1, OthersAreOK DEF KeysInv
  <2> QED
    BY <1>1, <2>1, <2>2, <2>3 DEF NoneAnswered, KeysInv, RejectedNow
<1>3. CASE Refuse
  <2>1. UNCHANGED <<published, keys, keyAge, cooldown>> /\ refused' \in SUBSET Tokens
    BY <1>3 DEF Refuse, KeysInv, CacheOK
  <2> QED
    BY <1>1, <2>1 DEF NoneAnswered, KeysInv, CacheOK, RejectedNow
<1>4. CASE OtherRefetch
  <2>1. cooldown' = Cooldown /\ UNCHANGED <<published, keys, keyAge, refused>>
    BY <1>4 DEF OtherRefetch
  <2>2. Cooldown \in 0 .. Cooldown /\ cooldown \in 0 .. Cooldown
    BY TimeAssumption DEF KeysInv, CacheOK
  <2>3. CacheOK'
    BY <2>1, <2>2 DEF KeysInv, CacheOK
  <2>4. \A r \in Requests : RequestOK(request[r], published, Cooldown)
    BY <2>2, OthersAreOK DEF KeysInv
  <2> QED
    BY <1>1, <2>1, <2>3, <2>4 DEF NoneAnswered, KeysInv, RejectedNow
<1>5. CASE OtherFetched
  <2>1. UNCHANGED <<published, cooldown, refused>>
    BY <1>5 DEF OtherFetched
  <2>2. CacheOK'
    BY <1>5, <2>1 DEF OtherFetched, KeysInv, CacheOK
  <2> QED
    BY <1>1, <2>1, <2>2 DEF NoneAnswered, KeysInv, RejectedNow
<1> QED
  BY <1>2, <1>3, <1>4, <1>5

\* Time passes: a fetch grows as old as the cooldown shrinks.
LEMMA TickServes ==
  ASSUME KeysInv, Tick
  PROVE  NoneAnswered
<1>1. UNCHANGED <<published, keys, refused>>
  BY DEF Tick
<1>2. /\ keyAge \in 0 .. CacheTime /\ cooldown \in 0 .. Cooldown
      /\ CacheTime \in Nat /\ Cooldown \in Nat /\ Cooldown <= CacheTime
  BY TimeAssumption DEF KeysInv, CacheOK
<1>3. /\ keyAge' \in 0 .. CacheTime /\ cooldown' \in 0 .. Cooldown
      /\ cooldown' + 1 >= cooldown
  BY <1>2 DEF Tick, Elapsed
<1>4. CacheOK'
  BY <1>1, <1>3 DEF KeysInv, CacheOK
<1>5. ASSUME NEW r \in Requests
      PROVE  /\ RequestOK(request'[r], published, cooldown')
             /\ request'[r] \in Request /\ request'[r].answer = request[r].answer
  <2>1. request[r] \in Request /\ RequestOK(request[r], published, cooldown)
    BY DEF KeysInv
  <2>2. request'[r] = IF r \in Fetching THEN [request[r] EXCEPT !.age = Elapsed(request[r].age)]
                      ELSE request[r]
    BY DEF Tick
  <2>3. CASE r \in Fetching
    <3> DEFINE new == [request[r] EXCEPT !.age = Elapsed(request[r].age)]
    <3>1. request[r].age \in 0 .. CacheTime
      BY <2>1 DEF RequestOK
    <3>2. /\ Elapsed(request[r].age) \in 0 .. CacheTime /\ Elapsed(request[r].age) \in Nat
          /\ \/ Elapsed(request[r].age) = request[r].age + 1
             \/ Elapsed(request[r].age) >= Cooldown
      BY <1>2, <3>1 DEF Elapsed
    <3>3. /\ new \in Request /\ new.at = request[r].at /\ new.seen = request[r].seen
          /\ new.age = Elapsed(request[r].age) /\ new.answer = request[r].answer
      BY <2>1, <3>2 DEF Request
    <3>4. request[r].at = "reloading" => cooldown' + Elapsed(request[r].age) >= Cooldown
      <4>1. request[r].at = "reloading" => cooldown + request[r].age >= Cooldown
        BY <2>1 DEF RequestOK
      <4>2. /\ cooldown \in Int /\ cooldown' \in Int /\ cooldown' >= 0
            /\ request[r].age \in Int /\ Elapsed(request[r].age) \in Int
        BY <1>2, <1>3, <3>1, <3>2
      <4>3. CASE Elapsed(request[r].age) >= Cooldown
        BY <1>2, <4>2, <4>3
      <4>4. CASE Elapsed(request[r].age) = request[r].age + 1
        <5>1. \A left, now, age \in Int :
                 now + 1 >= left /\ left + age >= Cooldown => now + (age + 1) >= Cooldown
          BY <1>2
        <5>2. cooldown' + 1 >= cooldown
          BY <1>3
        <5>3. request[r].at = "reloading" => cooldown' + (request[r].age + 1) >= Cooldown
          BY <4>1, <4>2, <5>1, <5>2
        <5> QED
          BY <4>4, <5>3
      <4> QED
        BY <3>2, <4>3, <4>4
    <3> HIDE DEF new
    <3>5. RequestOK(new, published, cooldown')
      BY <2>1, <3>2, <3>3, <3>4 DEF RequestOK, Request
    <3>6. request'[r] = new
      BY <2>2, <2>3 DEF new
    <3> QED
      BY <3>3, <3>5, <3>6
  <2>4. CASE r \notin Fetching
    <3>1. request[r].at # "reloading" /\ request'[r] = request[r]
      BY <2>2, <2>4 DEF Fetching
    <3> QED
      BY <2>1, <3>1 DEF RequestOK
  <2> QED
    BY <2>3, <2>4
<1>6. request' \in [Requests -> Request]
  BY <1>5 DEF Tick
<1>7. \A r \in Requests : RequestOK(request'[r], published', cooldown')
  BY <1>1, <1>5
<1> QED
  BY <1>4, <1>5, <1>6, <1>7 DEF NoneAnswered, KeysInv, RejectedNow

\* Every step keeps the invariant, and rejects only what it may.
LEMMA StepKeys == Inv /\ KeysInv /\ [Next]_vars => KeysInv' /\ \A r \in Requests : JustifiedFor(r)
<1> SUFFICES ASSUME Inv, KeysInv, [Next]_vars
             PROVE  KeysInv' /\ \A r \in Requests : JustifiedFor(r)
  OBVIOUS
<1>1. CASE TabStep \/ UserStep
  <2>1. TabRequests
    BY <1>1, TabAndUserRequests
  <2>2. \A r \in Requests : ~ RejectedNow(r)
    BY <2>1 DEF TabRequests, AtRest, RejectedNow
  <2> QED
    BY <2>1, <2>2, TabKeys DEF JustifiedFor
<1>2. ASSUME NEW r \in Requests, ApiStep(r) \/ Unavailable(r)
      PROVE  KeysInv' /\ \A q \in Requests : JustifiedFor(q)
  <2>1. OneServed(r)
    BY <1>2, RequestServed
  <2>2. \A q \in Requests \ {r} : request'[q] = request[q]
    BY <2>1 DEF OneServed, KeysInv
  <2> QED
    BY <2>1, <2>2 DEF OneServed, JustifiedFor, RejectedNow
<1>3. CASE Rotate \/ Refuse \/ OtherRefetch \/ OtherFetched
  BY <1>3, SurroundingsServe DEF NoneAnswered, JustifiedFor
<1>4. CASE Tick
  BY <1>4, TickServes DEF NoneAnswered, JustifiedFor
<1>5. CASE UNCHANGED vars
  <2>1. UNCHANGED <<published, keys, keyAge, cooldown, refused, request>>
    BY <1>5 DEF vars
  <2>2. KeysInv'
    BY <2>1 DEF KeysInv, CacheOK
  <2> QED
    BY <2>1, <2>2 DEF JustifiedFor, RejectedNow
<1> QED
  BY <1>1, <1>2, <1>3, <1>4, <1>5 DEF Next, ApiRest, Pass

LEMMA InitKeys == Init => KeysInv
<1> SUFFICES ASSUME Init PROVE KeysInv
  OBVIOUS
<1>1. CacheOK
  BY KeyAssumption, TimeAssumption DEF Init, KeyInit, CacheOK
<1>2. request = [r \in Requests |-> NoRequest]
  BY DEF Init, KeyInit
<1>3. \A r \in Requests : RequestOK(request[r], published, cooldown)
  BY <1>2, RequestsAtRest, RestIsOK
<1> QED
  BY <1>1, <1>2, <1>3, RequestTypes DEF KeysInv

-----------------------------------------------------------------------------
(* How far the epoch goes.                                                 *)

Idle == {r \in Requests : request[r].at = "idle"}

\* Past MaxEpoch only rejections of requests in flight move the epoch, each of
\* which leaves one request fewer in flight. A bootstrap is of its page's first.
EpochsInv ==
    /\ boot.epoch = 0 /\ login.epoch \in 0 .. MaxEpoch
    /\ tab.epoch <= MaxEpoch + Cardinality(Idle)

\* What a step may do to the epoch.
EpochStep ==
    \/ tab'.epoch <= MaxEpoch
    \/ tab'.epoch = tab.epoch /\ Idle \subseteq Idle'
    \/ tab'.epoch = tab.epoch + 1 /\ \E r \in Requests \ Idle : Idle \cup {r} \subseteq Idle'

LEMMA IdleSizes ==
  /\ IsFiniteSet(Idle) /\ IsFiniteSet(Idle')
  /\ Cardinality(Idle) \in Nat /\ Cardinality(Idle') \in Nat
  /\ Idle \subseteq Idle' => Cardinality(Idle) <= Cardinality(Idle')
  /\ \A r \in Requests \ Idle :
         Idle \cup {r} \subseteq Idle' => Cardinality(Idle) + 1 <= Cardinality(Idle')
<1>1. Idle \subseteq Requests /\ Idle' \subseteq Requests /\ IsFiniteSet(Requests)
  BY RequestsAssumption DEF Idle
<1>2. IsFiniteSet(Idle) /\ IsFiniteSet(Idle')
  BY <1>1, FS_Subset
<1>3. ASSUME NEW r \in Requests \ Idle, Idle \cup {r} \subseteq Idle'
      PROVE  Cardinality(Idle) + 1 <= Cardinality(Idle')
  <2>1. Cardinality(Idle \cup {r}) = Cardinality(Idle) + 1
    BY <1>2, FS_AddElement
  <2>2. Cardinality(Idle \cup {r}) <= Cardinality(Idle')
    BY <1>2, <1>3, FS_Subset
  <2> QED
    BY <2>1, <2>2
<1> QED
  BY <1>2, <1>3, FS_CardinalityType, FS_Subset

LEMMA StepEpochs ==
  ASSUME Inv, Inv', EpochsInv, EpochStep, boot'.epoch = 0, login'.epoch \in 0 .. MaxEpoch
  PROVE  EpochsInv'
<1>1. tab.epoch \in Nat /\ tab'.epoch \in Nat /\ MaxEpoch \in Nat
  BY BoundsAssumption DEF Inv, Shape, Tab
<1>2. Cardinality(Idle) \in Nat /\ Cardinality(Idle') \in Nat
  BY IdleSizes
<1> DEFINE few == Cardinality(Idle)
           many == Cardinality(Idle')
<1>3. tab.epoch <= MaxEpoch + few
  BY DEF EpochsInv
<1>4. tab'.epoch <= MaxEpoch + many
  <2>1. CASE tab'.epoch <= MaxEpoch
    BY <1>1, <1>2, <2>1
  <2>2. CASE tab'.epoch = tab.epoch /\ Idle \subseteq Idle'
    <3>1. few <= many
      BY <2>2, IdleSizes
    <3> HIDE DEF few, many
    <3> QED
      BY <1>1, <1>2, <1>3, <2>2, <3>1 DEF few, many
  <2>3. CASE tab'.epoch = tab.epoch + 1 /\ \E r \in Requests \ Idle : Idle \cup {r} \subseteq Idle'
    <3>1. few + 1 <= many
      BY <2>3, IdleSizes
    <3> QED
      BY <1>1, <1>2, <1>3, <2>3, <3>1
  <2> QED
    BY <2>1, <2>2, <2>3 DEF EpochStep
<1> QED
  BY <1>4 DEF EpochsInv

\* An answered request is taken off: one more is idle.
LEMMA ReceivedIsIdle ==
  ASSUME Inv, NEW r \in Requests, request[r].at = "answered", Received(r)
  PROVE  r \notin Idle /\ Idle \cup {r} \subseteq Idle'
<1>1. request' = [request EXCEPT ![r] = NoRequest] /\ NoRequest.at = "idle"
  BY DEF Received, NoRequest
<1> QED
  BY <1>1 DEF Inv, Shape, Idle

LEMMA EndSessionEpoch ==
  ASSUME NEW t \in Tab, EndSession(t)
  PROVE  tab'.epoch = t.epoch + 1
BY DEF EndSession, Tab

LEMMA TabEpochs ==
  ASSUME Inv, EpochsInv, TabStep
  PROVE  EpochStep /\ boot'.epoch = 0 /\ login'.epoch \in 0 .. MaxEpoch
<1>1. tab \in Tab /\ boot \in Boot /\ login \in [at : {"idle", "token", "me"}, epoch : Nat]
  BY DEF Inv, Shape
<1>2. NoBoot.epoch = 0 /\ NoLogin.epoch \in 0 .. MaxEpoch /\ MaxEpoch \in Nat
  BY BoundsAssumption DEF NoBoot, NoLogin
<1>3. boot.epoch = 0 /\ login.epoch \in 0 .. MaxEpoch
  BY DEF EpochsInv
<1>4. \A at : [boot EXCEPT !.at = at].epoch = boot.epoch
  BY <1>1 DEF Boot
<1>5. \A t \in Tab : Discard(t) => tab'.epoch = t.epoch /\ boot' = NoBoot
  BY DEF Discard, Tab
<1>6. \A t \in Tab : \A token : Adopt(t, token) => tab'.epoch = t.epoch /\ boot'.epoch = 0
  BY <1>3, <1>4 DEF Adopt, Tab
<1>7. \A t \in Tab : WithoutSession(t).epoch = t.epoch
  BY DEF WithoutSession, Tab
<1>8. CASE ConfigAnswered
  <2>1. UNCHANGED login
    BY <1>8 DEF ConfigAnswered
  <2>2. CASE boot' = NoBoot /\ UNCHANGED <<tab, request>>
    BY <1>2, <1>3, <2>1, <2>2 DEF EpochStep, Idle
  <2>3. CASE ~ Stale(boot.epoch)
    <3>1. PICK known \in BOOLEAN :
             LET t == [tab EXCEPT !.config = known]
             IN  Restore(t) \/ HandleCallback(t)
      BY <1>8, <2>3 DEF ConfigAnswered
    <3> DEFINE t == [tab EXCEPT !.config = known]
    <3>2. t \in Tab /\ t.epoch = tab.epoch
      BY <1>1 DEF Tab
    <3>3. t.epoch = 0
      BY <1>3, <2>3, <3>2 DEF Stale
    <3>4. Restore(t) \/ HandleCallback(t)
      BY <3>1
    <3> HIDE DEF t
    <3>5. tab'.epoch = 0 /\ boot'.epoch = 0
      <4>1. CASE Restore(t)
        BY <1>2, <1>6, <1>7, <3>2, <3>3, <4>1 DEF Restore
      <4>2. CASE HandleCallback(t)
        BY <1>2, <1>3, <1>4, <1>5, <3>2, <3>3, <4>2 DEF HandleCallback
      <4> QED
        BY <3>4, <4>1, <4>2
    <3> QED
      BY <1>2, <1>3, <2>1, <3>5 DEF EpochStep
  <2> QED
    BY <1>8, <2>2, <2>3 DEF ConfigAnswered
<1>9. CASE ExchangeAnswered
  <2>1. UNCHANGED login
    BY <1>9 DEF ExchangeAnswered
  <2>2. CASE boot' = NoBoot /\ UNCHANGED <<tab, request>>
    BY <1>2, <1>3, <2>1, <2>2 DEF EpochStep, Idle
  <2>3. CASE Discard(tab) /\ UNCHANGED request
    BY <1>1, <1>2, <1>3, <1>5, <2>1, <2>3 DEF EpochStep, Idle
  <2>4. CASE ~ Stale(boot.epoch) /\ \E token \in Tokens : Adopt(tab, token)
    <3>1. tab'.epoch = tab.epoch /\ boot'.epoch = 0
      BY <1>1, <1>6, <2>4
    <3>2. tab.epoch = 0
      BY <1>3, <2>4 DEF Stale
    <3> QED
      BY <1>2, <1>3, <2>1, <3>1, <3>2 DEF EpochStep
  <2> QED
    BY <1>9, <2>2, <2>3, <2>4 DEF ExchangeAnswered, Issuable
<1>10. ASSUME NEW r \in Requests, request[r].at = "answered", Received(r),
              \/ tab'.epoch = tab.epoch
              \/ \E t \in Tab : t.epoch = tab.epoch /\ EndSession(t)
       PROVE  EpochStep
  BY <1>10, ReceivedIsIdle, EndSessionEpoch DEF EpochStep
<1>11. \A r : Authenticated(tab, r).epoch = tab.epoch
  BY <1>1 DEF Authenticated, Tab
<1>12. CASE BootAnswered
  <2>1. UNCHANGED login /\ Received("boot") /\ request["boot"].at = "answered"
    BY <1>12 DEF BootAnswered
  <2>2. boot' = NoBoot
    BY <1>12 DEF BootAnswered, Discard
  <2>3. EndSession(tab) \/ tab'.epoch = tab.epoch
    BY <1>1, <1>5, <1>11, <1>12 DEF BootAnswered
  <2> QED
    BY <1>1, <1>2, <1>3, <1>10, <2>1, <2>2, <2>3, RequestsAssumption
<1>13. CASE TokenAnswered
  <2>1. boot'.epoch = 0
    BY <1>3, <1>13 DEF TokenAnswered
  <2>2. login'.epoch \in 0 .. MaxEpoch
    BY <1>1, <1>2, <1>3, <1>13 DEF TokenAnswered
  <2>3. CASE login' = NoLogin /\ UNCHANGED request
    <3>1. tab'.epoch = tab.epoch
      BY <1>1, <1>13, <2>3 DEF TokenAnswered, NoLogin, Tab
    <3> QED
      BY <2>1, <2>2, <2>3, <3>1 DEF EpochStep, Idle
  <2>4. CASE ~ Stale(login.epoch) /\ \E t \in Tokens : tab' = [tab EXCEPT !.active = t]
    <3>1. tab'.epoch = tab.epoch /\ tab.epoch = login.epoch
      BY <1>1, <2>4 DEF Stale, Tab
    <3> QED
      BY <1>2, <1>3, <2>1, <2>2, <3>1 DEF EpochStep
  <2> QED
    BY <1>13, <2>3, <2>4 DEF TokenAnswered, Issuable
<1>14. CASE LoginAnswered
  <2>1. /\ UNCHANGED boot /\ login' = NoLogin /\ Received("login")
        /\ request["login"].at = "answered"
    BY <1>14 DEF LoginAnswered
  <2>2. [tab EXCEPT !.submitting = FALSE] \in Tab
        /\ [tab EXCEPT !.submitting = FALSE].epoch = tab.epoch
    BY <1>1 DEF Tab
  <2>3. EndSession([tab EXCEPT !.submitting = FALSE]) \/ tab'.epoch = tab.epoch
    BY <1>11, <1>14, <2>2 DEF LoginAnswered
  <2> QED
    BY <1>2, <1>3, <1>10, <2>1, <2>2, <2>3, RequestsAssumption
<1>15. CASE \E p \in Pages : PageAnswered(p)
  <2>1. PICK p \in Pages : PageAnswered(p)
    BY <1>15
  <2>2. p \in Requests /\ request[p].at = "answered" /\ Received(p) /\ UNCHANGED <<boot, login>>
    BY <2>1 DEF PageAnswered, Pages
  <2>3. EndSession(tab) \/ tab'.epoch = tab.epoch
    BY <2>1 DEF PageAnswered
  <2> QED
    BY <1>1, <1>3, <1>10, <2>2, <2>3
<1> QED
  BY <1>8, <1>9, <1>12, <1>13, <1>14, <1>15 DEF TabStep

\* Nobody begins work from MaxEpoch on.
LEMMA UserEpochs ==
  ASSUME Inv, EpochsInv, UserStep
  PROVE  EpochStep /\ boot'.epoch = 0 /\ login'.epoch \in 0 .. MaxEpoch
<1>1. tab \in Tab /\ tab.epoch \in Nat /\ MaxEpoch \in Nat
  BY BoundsAssumption DEF Inv, Shape, Tab
<1>2. NoBoot.epoch = 0 /\ NoLogin.epoch \in 0 .. MaxEpoch
  BY <1>1 DEF NoBoot, NoLogin
<1>3. boot.epoch = 0 /\ login.epoch \in 0 .. MaxEpoch
  BY DEF EpochsInv
<1>4. Away.epoch = 0 /\ [Away EXCEPT !.status = "loading"].epoch = 0
  BY DEF Away
<1>5. CASE Load
  BY <1>1, <1>3, <1>4, <1>5 DEF Load, EpochStep
<1>6. CASE Leave
  BY <1>1, <1>2, <1>4, <1>6 DEF Leave, DropWork, EpochStep
<1>7. CASE StartLogin
  <2>1. /\ tab.epoch < MaxEpoch /\ UNCHANGED boot
        /\ login' = [at |-> "token", epoch |-> tab.epoch + 1]
        /\ tab' = [tab EXCEPT !.epoch = tab.epoch + 1, !.submitting = TRUE]
    BY <1>7 DEF StartLogin
  <2>2. tab'.epoch = tab.epoch + 1 /\ login'.epoch = tab.epoch + 1
    BY <1>1, <2>1 DEF Tab
  <2> QED
    BY <1>1, <1>3, <2>1, <2>2 DEF EpochStep
<1>8. CASE Logout
  <2>1. EndSession(tab) /\ UNCHANGED <<boot, login>> /\ tab.epoch < MaxEpoch
    BY <1>8 DEF Logout
  <2> QED
    BY <1>1, <1>3, <2>1, EndSessionEpoch DEF EpochStep
<1>9. CASE LoginHosted \/ \E p \in Pages : Ask(p)
  BY <1>1, <1>3, <1>9 DEF LoginHosted, Ask, EpochStep
<1> QED
  BY <1>5, <1>6, <1>7, <1>8, <1>9 DEF UserStep

\* The API leaves idle requests idle.
LEMMA ApiEpochs ==
  ASSUME Inv, EpochsInv, (\E r \in Requests : ApiStep(r)) \/ ApiRest \/ Pass
  PROVE  EpochStep /\ boot'.epoch = 0 /\ login'.epoch \in 0 .. MaxEpoch
<1>1. UNCHANGED <<tab, boot, login>> /\ request \in [Requests -> Request]
  BY DEF ApiStep, ApiRest, Pass, tabVars, Inv, Shape
<1>2. ASSUME NEW r \in Requests, ApiStep(r) \/ Unavailable(r)
      PROVE  Idle \subseteq Idle'
  <2>1. request[r].at # "idle"
    BY <1>2 DEF ApiStep, Verify, VerifyLocally, Arrive, Loaded, Reloaded, Unavailable
  <2>2. \E new : request' = [request EXCEPT ![r] = new]
    <3>1. \A a : Answer(r, a) => \E new : request' = [request EXCEPT ![r] = new]
      BY DEF Answer
    <3>2. \A place : Fetch(r, place) => \E new : request' = [request EXCEPT ![r] = new]
      BY <1>1 DEF Fetch
    <3>3. Judge(r) => \E a : Answer(r, a)
      BY DEF Judge
    <3>4. \A ks : LookUp(r, ks) => \/ \E a : Answer(r, a)
                                   \/ \E place : Fetch(r, place)
      BY <3>3 DEF LookUp
    <3>5. CASE VerifyLocally(r)
      BY <3>1, <3>3, <3>5 DEF VerifyLocally
    <3>6. CASE Arrive(r)
      BY <3>1, <3>2, <3>4, <3>6 DEF Arrive
    <3>7. CASE Loaded(r)
      <4>1. LookUp(r, keys') \/ Answer(r, "rejected")
        BY <3>7 DEF Loaded
      <4> QED
        BY <3>1, <3>2, <3>4, <4>1
    <3>8. CASE Reloaded(r)
      BY <3>1, <3>3, <3>8 DEF Reloaded
    <3>9. CASE Unavailable(r)
      BY <3>1, <3>9 DEF Unavailable
    <3> QED
      BY <1>2, <3>5, <3>6, <3>7, <3>8, <3>9 DEF ApiStep, Verify
  <2> QED
    BY <1>1, <2>1, <2>2 DEF Idle
<1>3. ASSUME Tick PROVE Idle \subseteq Idle'
  <2>1. \A r \in Requests : r \notin Fetching => request'[r] = request[r]
    BY <1>3 DEF Tick
  <2>2. \A r \in Idle : r \in Requests /\ r \notin Fetching /\ request[r].at = "idle"
    BY DEF Idle, Fetching
  <2> QED
    BY <2>1, <2>2 DEF Idle
<1>4. ASSUME Rotate \/ Refuse \/ OtherRefetch \/ OtherFetched PROVE Idle \subseteq Idle'
  <2>1. UNCHANGED request
    BY <1>4 DEF Rotate, Refuse, OtherRefetch, OtherFetched
  <2> QED
    BY <2>1 DEF Idle
<1>5. Idle \subseteq Idle'
  <2>1. ApiRest => \/ \E r \in Requests : Unavailable(r)
                   \/ Rotate \/ Refuse \/ OtherRefetch \/ OtherFetched
    BY DEF ApiRest
  <2>2. Pass => Tick
    BY DEF Pass
  <2> QED
    BY <1>2, <1>3, <1>4, <2>1, <2>2
<1> QED
  BY <1>1, <1>5 DEF EpochStep, EpochsInv

\* The rest of the types.
OtherTypes ==
    /\ provider \in {"local", "cognito"} /\ issued \subseteq Tokens
    /\ loads \in 0 .. MaxLoads /\ signedOut \in BOOLEAN

LEMMA StepOthers == OtherTypes /\ [Next]_vars => OtherTypes'
<1> SUFFICES ASSUME OtherTypes, [Next]_vars PROVE OtherTypes'
  OBVIOUS
<1>1. CASE TabStep
  <2>1. UNCHANGED <<provider, loads>>
    BY <1>1 DEF TabStep, ConfigAnswered, ExchangeAnswered, BootAnswered, TokenAnswered,
                LoginAnswered, PageAnswered
  <2>2. UNCHANGED issued \/ \E t \in Tokens : issued' = issued \cup {t}
    BY <1>1 DEF TabStep, ConfigAnswered, ExchangeAnswered, BootAnswered, TokenAnswered,
                LoginAnswered, PageAnswered, Issuable
  <2>3. UNCHANGED signedOut \/ signedOut' = TRUE
    BY <1>1 DEF TabStep, ConfigAnswered, ExchangeAnswered, BootAnswered, TokenAnswered,
                LoginAnswered, PageAnswered, EndSession
  <2> QED
    BY <2>1, <2>2, <2>3 DEF OtherTypes
<1>2. CASE UserStep
  <2>1. UNCHANGED <<provider, issued>>
    BY <1>2 DEF UserStep, Load, Leave, StartLogin, LoginHosted, Logout, Ask
  <2>2. UNCHANGED loads \/ (loads < MaxLoads /\ loads' = loads + 1)
    BY <1>2 DEF UserStep, Load, Leave, StartLogin, LoginHosted, Logout, Ask
  <2>3. UNCHANGED signedOut \/ signedOut' \in BOOLEAN
    BY <1>2 DEF UserStep, Load, Leave, StartLogin, LoginHosted, Logout, Ask, EndSession
  <2> QED
    BY <2>1, <2>2, <2>3, BoundsAssumption DEF OtherTypes
<1>3. CASE (\E r \in Requests : ApiStep(r)) \/ ApiRest \/ Pass
  BY <1>3 DEF ApiStep, ApiRest, Pass, tabVars, OtherTypes
<1>4. CASE UNCHANGED vars
  BY <1>4 DEF vars, OtherTypes
<1> QED
  BY <1>1, <1>2, <1>3, <1>4 DEF Next

LEMMA StepEpochsInv == Inv /\ EpochsInv /\ [Next]_vars /\ Inv' => EpochsInv'
<1> SUFFICES ASSUME Inv, EpochsInv, [Next]_vars, Inv' PROVE EpochsInv'
  OBVIOUS
<1>1. CASE TabStep
  BY <1>1, TabEpochs, StepEpochs
<1>2. CASE UserStep
  BY <1>2, UserEpochs, StepEpochs
<1>3. CASE (\E r \in Requests : ApiStep(r)) \/ ApiRest \/ Pass
  BY <1>3, ApiEpochs, StepEpochs
<1>4. CASE UNCHANGED vars
  BY <1>4 DEF vars, EpochsInv, Idle
<1> QED
  BY <1>1, <1>2, <1>3, <1>4 DEF Next

LEMMA InitEpochs == Init => EpochsInv /\ OtherTypes
<1> SUFFICES ASSUME Init PROVE EpochsInv /\ OtherTypes
  OBVIOUS
<1>1. boot.epoch = 0 /\ login.epoch = 0 /\ tab.epoch = 0
  BY DEF Init, NoBoot, NoLogin, Away
<1>2. 0 \in 0 .. MaxEpoch /\ 0 <= MaxEpoch + Cardinality(Idle)
  BY IdleSizes, BoundsAssumption
<1>3. OtherTypes
  <2>1. 0 \in 0 .. MaxLoads
    BY BoundsAssumption
  <2>2. loads = 0 /\ signedOut = FALSE /\ issued = {} /\ provider \in {"local", "cognito"}
    BY DEF Init
  <2> QED
    BY <2>1, <2>2 DEF OtherTypes
<1> QED
  BY <1>1, <1>2, <1>3 DEF EpochsInv

\* The parts of the invariant give every bound of the types.
LEMMA TypesFollow == Inv /\ CodesInv /\ KeysInv /\ EpochsInv /\ OtherTypes => SessionTypeOK
<1> SUFFICES ASSUME Inv, CodesInv, KeysInv, EpochsInv, OtherTypes PROVE SessionTypeOK
  OBVIOUS
<1>1. KeyTypeOK
  BY DEF KeysInv, CacheOK, RequestOK, KeyTypeOK
<1>2. MaxEpoch \in Nat /\ Cardinality(Requests) \in Nat /\ Cardinality(Idle) <= Cardinality(Requests)
      /\ Cardinality(Idle) \in Nat
  BY BoundsAssumption, RequestsAssumption, FS_CardinalityType, FS_Subset, IdleSizes DEF Idle
<1>3. tab \in Tab /\ tab.epoch \in Nat /\ boot \in Boot
      /\ login \in [at : {"idle", "token", "me"}, epoch : Nat]
  BY DEF Inv, Shape, Tab
<1>4. tab.epoch <= MaxEpoch + Cardinality(Requests)
  BY <1>2, <1>3 DEF EpochsInv
<1>5. tab.epoch \in Epochs /\ boot.epoch \in Epochs /\ login.epoch \in Epochs
  BY <1>2, <1>3, <1>4 DEF EpochsInv, Epochs
<1>6. tab \in [status : Statuses, active : Tokens \cup {NoToken},
                me : Users \cup {Nobody}, epoch : Epochs,
                config : BOOLEAN, submitting : BOOLEAN]
  BY <1>3, <1>5 DEF Tab
<1>7. /\ boot \in [at : {"done", "config", "exchange", "me"}, epoch : Epochs,
                   callback : Callbacks \cup {NoCallback}]
      /\ login \in [at : {"idle", "token", "me"}, epoch : Epochs]
  BY <1>3, <1>5 DEF Boot
<1>8. /\ url \in Callbacks \cup {NoCallback}
      /\ store \in [token : Tokens \cup {NoToken}, transaction : SignIns \cup {NoState}]
      /\ signIns \in 0 .. MaxSignIns /\ exchanges \in [SignIns -> 0 .. 1]
  BY DEF Inv, Shape, CodesInv
<1> QED
  BY <1>1, <1>6, <1>7, <1>8 DEF OtherTypes, SessionTypeOK

-----------------------------------------------------------------------------
(* The theorems.                                                           *)

\* The invariant holds at the start and is kept by every step, given that
\* sign-ins are counted.
LEMMA InitInv == Init => Inv /\ Counted
<1> SUFFICES ASSUME Init PROVE Inv /\ Counted
  OBVIOUS
<1>1. request \in [Requests -> Request] /\ published \subseteq Keys
  BY RequestTypes, KeyAssumption DEF Init, KeyInit
<1>2. /\ tab \in Tab /\ tab.status = "away" /\ tab.active = NoToken /\ tab.me = Nobody
      /\ tab = Away
  BY DEF Init, Away, Tab, Statuses
<1>3. boot \in Boot /\ boot = NoBoot /\ boot.at = "done"
  BY DEF Init, NoBoot, Boot
<1>4. /\ login \in [at : {"idle", "token", "me"}, epoch : Nat]
      /\ login = NoLogin /\ login.at = "idle"
  BY DEF Init, NoLogin
<1>5. /\ store \in [token : Tokens \cup {NoToken}, transaction : SignIns \cup {NoState}]
      /\ url \in Callbacks \cup {NoCallback} /\ ~ signedOut
  BY DEF Init, EmptyStore
<1>6. Shape
  BY <1>1, <1>2, <1>3, <1>4, <1>5 DEF Shape
<1> QED
  BY <1>2, <1>3, <1>4, <1>5, <1>6
  DEF Init, Counted, Inv, WorkIsPast, LiveWork, BootLive, LoginLive, OutIsOver, ProfileIsTheTokens,
      SignedOutStaysOut

\* The count is a number.
LEMMA SignInsCount == Counted /\ [Next]_vars => Counted'
<1> USE DEF Counted
<1> SUFFICES ASSUME signIns \in Nat, [Next]_vars PROVE signIns' \in Nat
  OBVIOUS
<1>1. CASE TabStep
  BY <1>1 DEF TabStep, ConfigAnswered, ExchangeAnswered, BootAnswered, TokenAnswered,
              LoginAnswered, PageAnswered
<1>2. CASE UserStep
  BY <1>2 DEF UserStep, Load, Leave, StartLogin, LoginHosted, Logout, Ask
<1>3. CASE (\E r \in Requests : ApiStep(r)) \/ ApiRest \/ Pass
  BY <1>3 DEF ApiStep, ApiRest, Pass, tabVars
<1>4. CASE UNCHANGED vars
  BY <1>4 DEF vars
<1> QED
  BY <1>1, <1>2, <1>3, <1>4 DEF Next

\* Every step keeps the invariant.
LEMMA StepInv == Inv /\ Counted /\ [Next]_vars => Inv'
<1> SUFFICES ASSUME Inv, Counted, [Next]_vars PROVE Inv'
  OBVIOUS
<1>1. CASE TabStep
  BY <1>1, ConfigKeeps, ExchangeKeeps, BootAnsweredKeeps, TokenAnsweredKeeps,
     LoginAnsweredKeeps, PageAnsweredKeeps DEF TabStep
<1>2. CASE UserStep
  BY <1>2, LoadKeeps, LeaveKeeps, HostedKeeps, StartLoginKeeps, LogoutKeeps, AskKeeps
  DEF UserStep, Counted
<1>3. CASE (\E r \in Requests : ApiStep(r)) \/ ApiRest \/ Pass
  <2>1. Shape
    BY DEF Inv
  <2> QED
    BY <1>3, <2>1, ApiKeeps, ApiInv
<1>4. CASE UNCHANGED vars
  BY <1>4 DEF vars, Inv, Shape, WorkIsPast, LiveWork, BootLive, LoginLive, Carries, OutIsOver,
              ProfileIsTheTokens, SignedOutStaysOut
<1> QED
  BY <1>1, <1>2, <1>3, <1>4 DEF Next

\* The profile shown is that of the token in use and in store, whatever was in
\* flight when it was signed in.
THEOREM ProfileMatchesToken == Spec => []ProfileIsTheTokens
<1>1. Inv => ProfileIsTheTokens
  BY DEF Inv
<1> QED
  BY <1>1, InitInv, StepInv, SignInsCount, PTL DEF Spec

\* Nothing brings a session back after its end.
THEOREM SignOutIsFinal == Spec => []SignedOutStaysOut
<1>1. Inv => SignedOutStaysOut
  BY DEF Inv
<1> QED
  BY <1>1, InitInv, StepInv, SignInsCount, PTL DEF Spec

\* A code that was sent is not sent again, whatever comes of the callback.
THEOREM CodesAreSentOnce == Spec => CodeIsSentOnce
<1>1. ASSUME CodesInv, CodeStep
      PROVE  \A s \in SignIns : exchanges[s] = 1 => exchanges'[s] = 1
  BY <1>1, StepCodes DEF CodesInv, CodeStep, NoCode
<1>2. CodesInv /\ CodeStep => [\A s \in SignIns : exchanges[s] = 1 => exchanges'[s] = 1]_vars
  BY <1>1
<1> QED
  BY <1>2, InitInv, StepInv, SignInsCount, InitCodes, AnyCodes, StepCodes, PTL
  DEF Spec, CodeIsSentOnce

\* The API rejects a token in order only when it has no keys at all, or when its
\* key is a rotated one and a forced fetch is cooling down or took that long.
THEOREM RejectionsAreExplained == Spec => RejectionsAreJustified
<1>1. (\A r \in Requests : JustifiedFor(r)) =>
        [\A r \in Requests :
          RejectedNow(r) /\ request[r].token \notin refused =>
              \/ keys \cup keys' = {}
              \/ /\ TokenKey[request[r].token] \notin OldKeys
                 /\ \/ cooldown' > 0
                    \/ request[r].at = "reloading" /\ request[r].age >= Cooldown]_keyVars
  BY DEF JustifiedFor
<1> QED
  BY <1>1, InitInv, StepInv, SignInsCount, InitKeys, StepKeys, PTL
  DEF Spec, RejectionsAreJustified

\* Types of the tab and of the API's key cache, and the bounds they imply: no
\* code is sent twice, what the API has cached was published, and the epoch is
\* past the user's last by no more than the requests that were in flight.
THEOREM SessionTypes == Spec => []SessionTypeOK
<1> QED
  BY InitInv, StepInv, SignInsCount, InitCodes, AnyCodes, StepCodes, InitKeys, StepKeys,
     InitEpochs, StepEpochsInv, StepOthers, TypesFollow, PTL
  DEF Spec

=============================================================================
