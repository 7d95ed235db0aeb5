------------------------------- MODULE Session -------------------------------
(* A browser tab of the application, against the API of KeyCache: the session *)
(* it stores, the hosted sign-in it may be in the middle of, and the work in  *)
(* flight that a sign-out has to outrun. Only a counter, the session epoch,   *)
(* tells work of an ended session from the present one's.                     *)
EXTENDS KeyCache, FiniteSets

CONSTANTS TokenUser,   \* [Tokens -> its user]
          Users,
          Nobody,      \* no profile
          NoState,     \* no sign-in transaction
          MaxSignIns,  \* hosted sign-ins started: a bound of the check
          MaxLoads,    \* page loads: a bound of the check
          MaxEpoch     \* epoch from which the user does nothing: a bound

ASSUME UserAssumption == TokenUser \in [Tokens -> Users] /\ Nobody \notin Users
ASSUME SignInsAssumption == MaxSignIns \in Nat
ASSUME RequestsAssumption == {"boot", "login"} \subseteq Requests /\ IsFiniteSet(Requests)
ASSUME BoundsAssumption == MaxLoads \in Nat /\ MaxEpoch \in Nat

SignIns == 1 .. MaxSignIns
ASSUME StateAssumption == NoState \notin SignIns

VARIABLES provider,    \* of the API: "local" or "cognito"
          issued,      \* tokens issued
          signIns,     \* hosted sign-ins started
          url,         \* the callback in the address bar, if any
          loads,       \* page loads
          store,       \* sessionStorage: the token and the PKCE transaction
          tab,         \* what a page load starts anew: see Away
          boot,        \* the bootstrap effect
          login,       \* the local sign-in
          exchanges,   \* [SignIns -> times its code was sent]
          signedOut    \* ended, and neither signed in nor loaded since

vars == <<published, keys, keyAge, cooldown, refused, request,
          provider, issued, signIns, url, loads, store, tab, boot, login,
          exchanges, signedOut>>
tabVars == <<provider, issued, signIns, url, loads, store, tab, boot, login,
             exchanges, signedOut>>
apiVars == <<published, keys, keyAge, cooldown, refused>>

Pages == Requests \ {"boot", "login"}

NoCallback == [state |-> NoState, ok |-> FALSE]
Callbacks == [state : SignIns, ok : BOOLEAN]

\* The page: status, active token, profile, session epoch, whether the
\* configuration is known and whether the sign-in button is disabled.
Statuses == {"away", "loading", "anonymous", "authenticated"}
Away == [status |-> "away", active |-> NoToken, me |-> Nobody, epoch |-> 0,
         config |-> FALSE, submitting |-> FALSE]
NoBoot == [at |-> "done", epoch |-> 0, callback |-> NoCallback]
NoLogin == [at |-> "idle", epoch |-> 0]
EmptyStore == [token |-> NoToken, transaction |-> NoState]

\* A page that was closed over the sign-outs of its time.
Epochs == 0 .. MaxEpoch + Cardinality(Requests)

Init ==
    /\ KeyInit
    /\ provider \in {"local", "cognito"}
    /\ issued = {} /\ signIns = 0 /\ url = NoCallback /\ loads = 0
    /\ store = EmptyStore /\ tab = Away /\ boot = NoBoot /\ login = NoLogin
    /\ exchanges = [s \in SignIns |-> 0] /\ signedOut = FALSE

-----------------------------------------------------------------------------
(* The page comes and goes. A page that goes takes its work in flight along.  *)

Load ==
    /\ tab.status = "away" /\ loads < MaxLoads
    /\ loads' = loads + 1
    /\ url' \in {NoCallback, url} \cup {c \in Callbacks : c.state <= signIns}
    /\ tab' = [Away EXCEPT !.status = "loading"]
    /\ boot' = [at |-> "config", epoch |-> 0, callback |-> url']
    /\ signedOut' = FALSE
    /\ UNCHANGED <<apiVars, request, provider, issued, signIns, store, login, exchanges>>

DropWork ==
    /\ request' = [r \in Requests |-> NoRequest]
    /\ boot' = NoBoot /\ login' = NoLogin

\* A reload, or the tab goes elsewhere. What the API still fetches for its
\* requests is a fetch for another caller from now on (OtherFetched).
Leave ==
    /\ tab.status # "away"
    /\ tab' = Away /\ DropWork
    /\ UNCHANGED <<apiVars, provider, issued, signIns, url, loads, store, exchanges,
                   signedOut>>

-----------------------------------------------------------------------------
(* Ending a session.                                                          *)

\* A mutant: only an unmounted page counts as stale.
StaleNever(epoch) == FALSE
\* isStale of work that began in an epoch.
Stale(epoch) == tab.epoch # epoch

\* endSession, over the page t.
EndSession(t) ==
    /\ tab' = [t EXCEPT !.epoch = @ + 1, !.active = NoToken, !.me = Nobody,
                        !.status = "anonymous"]
    /\ store' = EmptyStore
    /\ signedOut' = TRUE

\* A bootstrap that failed gives up what it restored.
Discard(t) ==
    /\ tab' = [t EXCEPT !.active = NoToken, !.me = Nobody, !.status = "anonymous"]
    /\ store' = EmptyStore
    /\ boot' = NoBoot

-----------------------------------------------------------------------------
(* The bootstrap: configuration, then a callback or the stored session.       *)

\* The token goes live and /me is asked.
Adopt(t, token) ==
    /\ tab' = [t EXCEPT !.active = token]
    /\ boot' = [boot EXCEPT !.at = "me"]
    /\ request' = Sent("boot", token)

\* A mutant: a page without a session waits for one.
WithoutSessionWaiting(t) == t
\* Nothing stored: the visitor is anonymous.
WithoutSession(t) == [t EXCEPT !.status = "anonymous"]

\* loadSession, which drops a token about to expire, and what follows.
Restore(t) ==
    /\ IF store.token = NoToken
       THEN /\ tab' = WithoutSession(t) /\ boot' = NoBoot
            /\ UNCHANGED <<store, request>>
       ELSE \/ Adopt(t, store.token) /\ UNCHANGED store
            \/ /\ tab' = WithoutSession(t) /\ boot' = NoBoot
               /\ store' = EmptyStore /\ UNCHANGED request
    /\ UNCHANGED <<url, exchanges>>

\* A mutant: the transaction stays in storage.
ConsumedNot == store
\* consumeHostedLoginTransaction: it is taken out whatever comes of it.
Consumed == [store EXCEPT !.transaction = NoState]

\* The callback, out of the address bar: an error, a provider without hosted
\* sign-in, a transaction that is missing, another's or too old end here.
HandleCallback(t) ==
    /\ url' = NoCallback
    /\ UNCHANGED request
    /\ \/ Discard(t) /\ UNCHANGED exchanges
       \/ /\ boot.callback.ok /\ t.config /\ provider = "cognito"
          /\ store.transaction = boot.callback.state
          /\ store' = Consumed /\ tab' = t
          /\ boot' = [boot EXCEPT !.at = "exchange"]
          /\ exchanges' = [exchanges EXCEPT ![boot.callback.state] = @ + 1]

\* /auth/config answers, or does not.
ConfigAnswered ==
    /\ boot.at = "config"
    /\ IF Stale(boot.epoch)
       THEN boot' = NoBoot /\ UNCHANGED <<tab, url, store, request, exchanges>>
       ELSE \E known \in BOOLEAN :
                LET t == [tab EXCEPT !.config = known]
                IN  IF boot.callback = NoCallback THEN Restore(t) ELSE HandleCallback(t)
    /\ UNCHANGED <<apiVars, provider, issued, signIns, loads, login, signedOut>>

\* The local provider's tokens are all signed with its one secret.
Issuable == {t \in Tokens \ issued : provider = "cognito" => TokenKey[t] \in published}

\* The token endpoint refuses the code, sends a token of another nonce, issuer
\* or audience, or signs the user in.
ExchangeAnswered ==
    /\ boot.at = "exchange"
    /\ \/ /\ IF Stale(boot.epoch) THEN boot' = NoBoot /\ UNCHANGED <<tab, store>>
             ELSE Discard(tab)
          /\ UNCHANGED <<issued, request>>
       \/ \E t \in Issuable :
             /\ issued' = issued \cup {t}
             /\ IF Stale(boot.epoch) THEN boot' = NoBoot /\ UNCHANGED <<tab, store, request>>
                ELSE Adopt(tab, t) /\ store' = [store EXCEPT !.token = t]
    /\ UNCHANGED <<apiVars, provider, signIns, url, loads, login, exchanges, signedOut>>

Received(r) == request' = [request EXCEPT ![r] = NoRequest]

\* The profile of the token that asked for it.
Authenticated(t, r) ==
    [t EXCEPT !.me = TokenUser[request[r].token], !.status = "authenticated",
              !.submitting = FALSE]

\* /me answers the bootstrap. A 401 ends the session before anything else.
BootAnswered ==
    /\ boot.at = "me" /\ request["boot"].at = "answered"
    /\ Received("boot")
    /\ LET answer == request["boot"].answer
       IN  IF answer = "rejected" THEN EndSession(tab) /\ boot' = NoBoot
           ELSE /\ UNCHANGED signedOut
                /\ IF Stale(boot.epoch) THEN boot' = NoBoot /\ UNCHANGED <<tab, store>>
                   ELSE IF answer = "ok"
                   THEN tab' = Authenticated(tab, "boot") /\ boot' = NoBoot /\ UNCHANGED store
                   ELSE Discard(tab)
    /\ UNCHANGED <<apiVars, provider, issued, signIns, url, loads, login, exchanges>>

-----------------------------------------------------------------------------
(* Signing in.                                                                *)

OnLoginPage == tab.config /\ tab.status \in {"loading", "anonymous"}

\* loginLocal: whatever was in flight belongs to an earlier epoch.
StartLogin ==
    /\ provider = "local" /\ OnLoginPage /\ ~tab.submitting
    /\ login = NoLogin /\ request["login"].at = "idle" /\ tab.epoch < MaxEpoch
    /\ tab' = [tab EXCEPT !.epoch = @ + 1, !.submitting = TRUE]
    /\ login' = [at |-> "token", epoch |-> tab.epoch + 1]
    /\ signedOut' = FALSE
    /\ UNCHANGED <<apiVars, request, provider, issued, signIns, url, loads, store, boot,
                   exchanges>>

\* /auth/dev-login answers.
TokenAnswered ==
    /\ login.at = "token"
    /\ \/ /\ login' = NoLogin /\ tab' = [tab EXCEPT !.submitting = FALSE]
          /\ UNCHANGED <<issued, store, request>>
       \/ \E t \in Issuable :
             /\ issued' = issued \cup {t}
             /\ IF Stale(login.epoch)
                THEN login' = NoLogin /\ UNCHANGED <<tab, store, request>>
                ELSE /\ login' = [login EXCEPT !.at = "me"]
                     /\ store' = [store EXCEPT !.token = t]
                     /\ tab' = [tab EXCEPT !.active = t]
                     /\ request' = Sent("login", t)
    /\ UNCHANGED <<apiVars, provider, signIns, url, loads, boot, exchanges, signedOut>>

\* /me answers the sign-in. One that went stale leaves the button disabled; one
\* that failed leaves the token.
LoginAnswered ==
    /\ login.at = "me" /\ request["login"].at = "answered"
    /\ Received("login") /\ login' = NoLogin
    /\ LET answer == request["login"].answer
       IN  IF answer = "rejected" THEN EndSession([tab EXCEPT !.submitting = FALSE])
           ELSE /\ UNCHANGED <<store, signedOut>>
                /\ tab' = IF answer = "error" THEN [tab EXCEPT !.submitting = FALSE]
                          ELSE IF Stale(login.epoch) THEN tab
                          ELSE Authenticated(tab, "login")
    /\ UNCHANGED <<apiVars, provider, issued, signIns, url, loads, boot, exchanges>>

\* loginHosted, pressed on the login page earlier in the life of this page: its
\* digest is there and the transaction is stored. The tab then goes to the
\* provider (Leave); until it has gone, work in flight runs on.
LoginHosted ==
    /\ provider = "cognito" /\ tab.config /\ tab.status # "away" /\ signIns < MaxSignIns
    /\ tab.epoch < MaxEpoch
    /\ signIns' = signIns + 1
    /\ store' = [store EXCEPT !.transaction = signIns + 1]
    /\ UNCHANGED <<apiVars, request, provider, issued, url, loads, tab, boot, login,
                   exchanges, signedOut>>

-----------------------------------------------------------------------------
(* Work of the signed-in user.                                                *)

\* A page asks for data with the token of the moment.
Ask(p) ==
    /\ tab.status = "authenticated" /\ request[p].at = "idle" /\ tab.epoch < MaxEpoch
    /\ request' = Sent(p, tab.active)
    /\ UNCHANGED <<apiVars, provider, issued, signIns, url, loads, store, tab, boot, login,
                   exchanges, signedOut>>

\* The answer. A 401 ends the session, whichever token it was about.
PageAnswered(p) ==
    /\ request[p].at = "answered"
    /\ Received(p)
    /\ IF request[p].answer = "rejected" THEN EndSession(tab)
       ELSE UNCHANGED <<tab, store, signedOut>>
    /\ UNCHANGED <<apiVars, provider, issued, signIns, url, loads, boot, login, exchanges>>

\* logout; hosted, the tab then leaves for the provider's own (Leave).
Logout ==
    /\ tab.status = "authenticated" /\ tab.epoch < MaxEpoch
    /\ EndSession(tab)
    /\ UNCHANGED <<apiVars, request, provider, issued, signIns, url, loads, boot, login,
                   exchanges>>

-----------------------------------------------------------------------------
(* The system.                                                                *)

\* The local provider verifies with a secret of its own.
VerifyLocally(r) ==
    /\ request[r].at = "arrived"
    /\ Judge(r)
    /\ UNCHANGED apiVars

ApiStep(r) ==
    /\ \/ provider = "local" /\ VerifyLocally(r)
       \/ provider = "cognito" /\ Verify(r)
    /\ UNCHANGED tabVars

ApiRest ==
    /\ \/ \E r \in Requests : Unavailable(r)
       \/ Refuse
       \/ provider = "cognito" /\ (Rotate \/ OtherRefetch \/ OtherFetched)
    /\ UNCHANGED tabVars

Pass == provider = "cognito" /\ Tick /\ UNCHANGED tabVars

TabStep ==
    \/ ConfigAnswered \/ ExchangeAnswered \/ BootAnswered
    \/ TokenAnswered \/ LoginAnswered \/ \E p \in Pages : PageAnswered(p)

UserStep ==
    \/ Load \/ Leave \/ StartLogin \/ LoginHosted \/ Logout \/ \E p \in Pages : Ask(p)

Next == TabStep \/ UserStep \/ ApiRest \/ Pass \/ \E r \in Requests : ApiStep(r)

\* Answers come, and the page takes them; the user does what they like.
Spec ==
    /\ Init /\ [][Next]_vars
    /\ WF_vars(ConfigAnswered) /\ WF_vars(ExchangeAnswered) /\ WF_vars(BootAnswered)
    /\ \A r \in Requests : WF_vars(ApiStep(r))

-----------------------------------------------------------------------------
(* Properties.                                                                *)

\* Type correctness of the tab and of the API's key cache.
SessionTypeOK ==
    /\ KeyTypeOK
    /\ provider \in {"local", "cognito"} /\ issued \subseteq Tokens
    /\ signIns \in 0 .. MaxSignIns /\ loads \in 0 .. MaxLoads
    /\ url \in Callbacks \cup {NoCallback}
    /\ store \in [token : Tokens \cup {NoToken}, transaction : SignIns \cup {NoState}]
    /\ tab \in [status : Statuses, active : Tokens \cup {NoToken},
                me : Users \cup {Nobody}, epoch : Epochs,
                config : BOOLEAN, submitting : BOOLEAN]
    /\ boot \in [at : {"done", "config", "exchange", "me"}, epoch : Epochs,
                 callback : Callbacks \cup {NoCallback}]
    /\ login \in [at : {"idle", "token", "me"}, epoch : Epochs]
    /\ exchanges \in [SignIns -> 0 .. 1] /\ signedOut \in BOOLEAN

\* The profile shown is that of the token in use, which is the one a reload
\* would restore: no answer of an earlier bootstrap or sign-in gets between
\* (the isStale checks of AuthProvider.tsx).
ProfileIsTheTokens ==
    tab.status = "authenticated" =>
        /\ tab.active # NoToken /\ store.token = tab.active
        /\ tab.me = TokenUser[tab.active]

\* After a sign-out, or a 401, nothing in flight brings a token or a profile
\* back, until the user signs in or loads the page again.
SignedOutStaysOut ==
    signedOut =>
        /\ store.token = NoToken /\ tab.active = NoToken /\ tab.me = Nobody
        /\ tab.status \in {"anonymous", "away"}

\* A hosted sign-in sends its code once, however often its callback is opened.
CodeIsSentOnce == [][\A s \in SignIns : exchanges[s] = 1 => exchanges'[s] = 1]_vars

\* A page does not show "Restoring session" forever, unless a local sign-in took
\* the bootstrap's place.
LoadingEnds ==
    (tab.status = "loading" /\ tab.epoch = 0)
        ~> ~(tab.status = "loading" /\ tab.epoch = 0)
================================================================================
