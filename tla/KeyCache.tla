------------------------------- MODULE KeyCache -------------------------------
(* How the API verifies a bearer token: one process with its cache of the     *)
(* user pool's signing keys (JWKS), and requests that share it. A request     *)
(* waits for a fetch without a lock, and what a fetch brings replaces the     *)
(* cache, whoever fetched in the meantime.                                    *)
(*                                                                            *)
(* Time is relative: the age of the cached keys, what is left of the cooldown *)
(* and the age of each fetch. The client's timeout bounds each phase of a     *)
(* fetch (connecting, reading, ...) and not the whole, so a fetch may take    *)
(* any time: longer than the cooldown, longer than the keys stay fresh.       *)
EXTENDS Integers

CONSTANTS Keys,        \* signing keys of the pool
          OldKeys,     \* those published from the start
          Tokens,      \* tokens the provider may issue
          TokenKey,    \* [Tokens -> the key that signs it]
          NoToken,
          Requests,    \* requests that may be in flight together
          CacheTime,   \* JWKS_CACHE_SECONDS
          Cooldown     \* JWKS_REFETCH_COOLDOWN_SECONDS

ASSUME KeyAssumption == OldKeys \subseteq Keys /\ TokenKey \in [Tokens -> Keys]
ASSUME NoTokenAssumption == NoToken \notin Tokens
\* The cooldown (30 s) ends before the keys are stale (1 h).
ASSUME TimeAssumption ==
    CacheTime \in Nat /\ Cooldown \in Nat /\ Cooldown <= CacheTime

VARIABLES published,   \* the keys the pool publishes
          keys,        \* _keys
          keyAge,      \* now - _fetched_at, up to CacheTime
          cooldown,    \* what is left of the cooldown of forced fetches
          refused,     \* tokens that are expired or whose claims are not accepted
          request      \* [Requests -> the request in flight]

keyVars == <<published, keys, keyAge, cooldown, refused, request>>

Places == {"idle", "arrived", "loading", "reloading", "answered"}
Answers == {"none", "ok", "rejected", "error"}
NoRequest == [token |-> NoToken, at |-> "idle", seen |-> {}, age |-> 0, answer |-> "none"]

KeyTypeOK ==
    /\ OldKeys \subseteq published /\ published \subseteq Keys
    /\ keys \subseteq published /\ keyAge \in 0 .. CacheTime /\ cooldown \in 0 .. Cooldown
    /\ refused \in SUBSET Tokens
    /\ request \in [Requests -> [token : Tokens \cup {NoToken}, at : Places,
                                 seen : SUBSET published, age : 0 .. CacheTime,
                                 answer : Answers]]

KeyInit ==
    /\ published = OldKeys /\ keys = {} /\ keyAge = CacheTime /\ cooldown = 0
    /\ refused \in SUBSET Tokens
    /\ request = [r \in Requests |-> NoRequest]

-----------------------------------------------------------------------------
(* The provider and the other callers of the process.                         *)

\* The pool publishes its next keys besides the old ones, whose tokens live on.
Rotate ==
    /\ published # Keys
    /\ published' = Keys
    /\ UNCHANGED <<keys, keyAge, cooldown, refused, request>>

\* A token expires, or its user loses what the API asks of the claims.
Refuse ==
    /\ \E t \in Tokens \ refused : refused' = refused \cup {t}
    /\ UNCHANGED <<published, keys, keyAge, cooldown, request>>

\* Another caller's unknown key id has the process begin a forced fetch.
OtherRefetch ==
    /\ cooldown = 0
    /\ cooldown' = Cooldown
    /\ UNCHANGED <<published, keys, keyAge, refused, request>>

\* A fetch for another caller, or for a page that is gone, returns: it may have
\* been sent at any time, and bring what was published then.
OtherFetched ==
    /\ keys' \in {OldKeys, published} /\ keyAge' \in 0 .. CacheTime
    /\ UNCHANGED <<published, cooldown, refused, request>>

-----------------------------------------------------------------------------
(* A request.                                                                 *)

\* The browser sends t.
Sent(r, t) == [request EXCEPT ![r] = [NoRequest EXCEPT !.token = t, !.at = "arrived"]]

Answer(r, answer) ==
    request' = [request EXCEPT ![r] = [NoRequest EXCEPT !.token = request[r].token,
                                       !.at = "answered", !.answer = answer]]

Fetch(r, place) ==
    request' = [request EXCEPT ![r] = [@ EXCEPT !.at = place, !.seen = published, !.age = 0]]

\* A signature that verifies still leaves the claims, the limits and the
\* database, which may fail.
Judge(r) ==
    IF request[r].token \in refused THEN Answer(r, "rejected")
    ELSE Answer(r, "ok") \/ Answer(r, "error")

\* A mutant: an unknown key id is rejected without a fetch of its own.
RefetchDueNever == FALSE
\* The cooldown of forced fetches is over.
RefetchDue == cooldown = 0

\* _signing_key once the cache ks is there: an unknown key id forces one fetch,
\* unless another did within the cooldown.
LookUp(r, ks) ==
    IF TokenKey[request[r].token] \in ks THEN Judge(r) /\ UNCHANGED cooldown
    ELSE IF RefetchDue THEN Fetch(r, "reloading") /\ cooldown' = Cooldown
    ELSE Answer(r, "rejected") /\ UNCHANGED cooldown

Fresh == keys # {} /\ keyAge < CacheTime

\* The request arrives; keys that are not fresh are fetched first.
Arrive(r) ==
    /\ request[r].at = "arrived"
    /\ IF Fresh THEN LookUp(r, keys)
       ELSE Fetch(r, "loading") /\ UNCHANGED cooldown
    /\ UNCHANGED <<published, keys, keyAge, refused>>

\* What a fetch brings: the keys as published at some time since it was sent.
Brought(r) == {request[r].seen, published}

\* A mutant: a failed fetch drops the keys.
KeptNot == {}
\* Stale keys beat no keys.
Kept == keys

\* The ordinary fetch returns; without any keys a failure rejects the request.
Loaded(r) ==
    /\ request[r].at = "loading"
    /\ \/ /\ keys' \in Brought(r) /\ keyAge' = request[r].age
          /\ LookUp(r, keys')
       \/ /\ keys' = Kept /\ UNCHANGED keyAge
          /\ IF keys' = {} THEN Answer(r, "rejected") /\ UNCHANGED cooldown
             ELSE LookUp(r, keys')
    /\ UNCHANGED <<published, refused>>

\* The forced fetch returns, and the request with it.
Reloaded(r) ==
    /\ request[r].at = "reloading"
    /\ \/ keys' \in Brought(r) /\ keyAge' = request[r].age
       \/ keys' = Kept /\ UNCHANGED keyAge
    /\ IF TokenKey[request[r].token] \in keys' THEN Judge(r) ELSE Answer(r, "rejected")
    /\ UNCHANGED <<published, cooldown, refused>>

\* The peer's or the user's limit refuses the request, or the API fails.
Unavailable(r) ==
    /\ request[r].at = "arrived"
    /\ Answer(r, "error")
    /\ UNCHANGED <<published, keys, keyAge, cooldown, refused>>

Fetching == {r \in Requests : request[r].at \in {"loading", "reloading"}}

\* Time passes; beyond CacheTime it makes no difference how much.
Elapsed(age) == IF age < CacheTime THEN age + 1 ELSE CacheTime

Tick ==
    /\ keyAge' = Elapsed(keyAge)
    /\ cooldown' = IF cooldown > 0 THEN cooldown - 1 ELSE 0
    /\ request' = [r \in Requests |->
                      IF r \in Fetching THEN [request[r] EXCEPT !.age = Elapsed(@)]
                      ELSE request[r]]
    /\ UNCHANGED <<published, keys, refused>>

Verify(r) == Arrive(r) \/ Loaded(r) \/ Reloaded(r)

Surroundings == Rotate \/ Refuse \/ OtherRefetch \/ OtherFetched \/ Tick

-----------------------------------------------------------------------------
(* Properties.                                                                *)

\* The API rejects a token that is in order for one of two reasons: it has no
\* keys at all, or the key is a rotated one and either some fetch for an unknown
\* key was begun within the cooldown or the request's own took longer than that.
\* So a blip of the pool logs nobody out who signed in before a rotation, and a
\* new key is not rejected time and again without a fetch being tried.
RejectedNow(r) == request[r].answer # "rejected" /\ request'[r].answer = "rejected"
RejectionsAreJustified ==
    [][\A r \in Requests :
          RejectedNow(r) /\ request[r].token \notin refused =>
              \/ keys \cup keys' = {}
              \/ /\ TokenKey[request[r].token] \notin OldKeys
                 /\ \/ cooldown' > 0
                    \/ request[r].at = "reloading" /\ request[r].age >= Cooldown]_keyVars
===============================================================================
