-------------------------------- MODULE Login --------------------------------
(* Browser login (auth_service.py, oidc.py, http/web/auth.py).  A tab begins a   *)
(* login, comes back from the provider with a code, and a callback handler turns    *)
(* it into a session in Redis: it takes the transaction, exchanges the code,          *)
(* verifies the identity token with keys it caches, admits the account and stores       *)
(* the session.  The tabs of a browser share its cookies, the provider replaces its       *)
(* signing key, time passes, and deployments restart processes under a new policy.         *)
EXTENDS Integers, FiniteSets, FiniteSetsExt

CONSTANTS
    Procs,          \* backend processes
    Tabs,           \* logins: each has a state, a nonce and a transaction of its own
    Handlers,       \* callback requests; a session is named after its handler
    Surfaces,       \* "web", "admin"
    Orgs,           \* organizations of the provider
    Allowed,        \* allowed_organizations, by surface
    TxTtl,          \* auth_transaction_ttl_seconds
    KeyTtl,         \* auth_jwks_cache_seconds
    SessionTtl,     \* session_ttl_seconds
    TokenLife,      \* life of an identity token
    FetchTime,      \* auth_http_timeout_seconds
    MaxTime, MaxKeys, MaxPolicy,
    None

ASSUME LoginAssumption ==
    /\ {TxTtl, KeyTtl, SessionTtl, TokenLife, FetchTime} \subseteq Nat \ {0}
    /\ Allowed \in [Surfaces -> SUBSET Orgs]
    /\ FetchTime < KeyTtl
    /\ MaxKeys \in Nat \ {0}
    /\ None \notin Nat

VARIABLES
    now,
    signing,        \* the key the provider signs with; it publishes no other
    withdrawn,      \* when a key was withdrawn
    tab,            \* the login of a tab, and when its transaction expires
    tx,             \* transactions in Redis
    txCookie, cookie,   \* the two cookies of a surface
    cache,          \* _key_set and _keys_loaded_at
    policy,         \* policy_version a process runs with
    hand,           \* callback handlers
    sess, stored    \* sessions made, and those in Redis

vars == <<now, signing, withdrawn, tab, tx, txCookie, cookie, cache, policy, hand, sess, stored>>
provider == <<signing, withdrawn>>
browser == <<tab, txCookie, cookie>>

Clients == Procs \X Surfaces
NoTab == [at |-> "new", surface |-> None, expires |-> 0]
NoHand == [at |-> "none", tab |-> None, cookie |-> None, proc |-> None, key |-> 0, exp |-> 0,
           org |-> None, round |-> 0, since |-> 0, keys |-> {}, verified |-> 0, until |-> 0]
NoCache == [keys |-> {}, at |-> 0, loaded |-> FALSE]

Init ==
    /\ now = 0 /\ signing = 1
    /\ withdrawn = [k \in 1..MaxKeys |-> None]
    /\ tab = [i \in Tabs |-> NoTab]
    /\ tx = {}
    /\ txCookie = [s \in Surfaces |-> None] /\ cookie = [s \in Surfaces |-> None]
    /\ cache = [c \in Clients |-> NoCache]
    /\ policy = [p \in Procs |-> 1]
    /\ hand = [h \in Handlers |-> NoHand]
    /\ sess = [h \in Handlers |-> None] /\ stored = {}

-----------------------------------------------------------------------------
(* The browser. *)

\* begin_login: the transaction, and the cookie that names it.
Begin(i, s) ==
    /\ tab[i].at = "new"
    /\ tab' = [tab EXCEPT ![i] = [at |-> "away", surface |-> s, expires |-> now + TxTtl]]
    /\ tx' = tx \cup {i}
    /\ txCookie' = [txCookie EXCEPT ![s] = i]
    /\ UNCHANGED <<now, provider, cookie, cache, policy, hand, sess, stored>>

\* The tab comes back with a code and its state; the browser may send it twice.
Callback(h, i, p) ==
    /\ hand[h].at = "none" /\ tab[i].at \in {"away", "back"}
    /\ tab' = [tab EXCEPT ![i].at = "back"]
    /\ hand' = [hand EXCEPT ![h] = [NoHand EXCEPT !.at = "take", !.tab = i, !.proc = p,
                                                  !.cookie = txCookie[tab[i].surface]]]
    /\ UNCHANGED <<now, provider, tx, txCookie, cookie, cache, policy, sess, stored>>

\* The tab comes back with an error: cancel_login.
CallbackError(i) ==
    LET s == tab[i].surface IN
    /\ tab[i].at = "away" /\ s = "web"
    /\ tab' = [tab EXCEPT ![i].at = "gone"]
    /\ tx' = tx \ {txCookie[s]}
    /\ txCookie' = [txCookie EXCEPT ![s] = None]
    /\ UNCHANGED <<now, provider, cookie, cache, policy, hand, sess, stored>>

\* get_browser_session: what a request with the cookie gets at a process.
Fits(p, x) == sess[x].until > now /\ sess[x].policy = policy[p]
Accepts(p, s) == cookie[s] \in stored /\ sess[cookie[s]].surface = s /\ Fits(p, cookie[s])

\* A session that no longer fits is deleted by the request that finds it.
Request(p, s) ==
    /\ cookie[s] \in stored /\ ~Fits(p, cookie[s])
    /\ stored' = stored \ {cookie[s]}
    /\ UNCHANGED <<now, provider, browser, tx, cache, policy, hand, sess>>

\* end_session
Logout(p, s) ==
    /\ Accepts(p, s)
    /\ stored' = stored \ {cookie[s]}
    /\ cookie' = [cookie EXCEPT ![s] = None]
    /\ UNCHANGED <<now, provider, tab, tx, txCookie, cache, policy, hand, sess>>

-----------------------------------------------------------------------------
(* The callback handler. *)

At(h, stage) == hand[h].at = stage
SurfaceOf(h) == tab[hand[h].tab].surface
Client(h) == <<hand[h].proc, SurfaceOf(h)>>
Go(h, stage) == hand' = [hand EXCEPT ![h].at = stage]

\* The error page takes the transaction's cookie away.
Fail(h, reason) ==
    /\ Go(h, reason)
    /\ txCookie' = [txCookie EXCEPT ![SurfaceOf(h)] = None]

\* complete_login, up to the comparison of the states: getdel, so a transaction
\* is used once, by the first callback that names it.
TakenNothing(h) == {}
Taken(h) == {hand[h].cookie}
Take(h) ==
    LET c == hand[h].cookie IN
    /\ At(h, "take")
    /\ tx' = tx \ Taken(h)
    /\ IF c \in tx /\ now < tab[c].expires /\ c = hand[h].tab
       THEN Go(h, "exchange") /\ UNCHANGED txCookie
       ELSE Fail(h, "lost")
    /\ UNCHANGED <<now, provider, tab, cookie, cache, policy, sess, stored>>

\* exchange_authorization_code: the provider signs a token, or is not to be reached.
Exchange(h) ==
    /\ At(h, "exchange")
    /\ \/ /\ \E org \in Orgs :
               hand' = [hand EXCEPT ![h].at = "keys", ![h].key = signing, ![h].org = org,
                                    ![h].exp = now + TokenLife]
          /\ UNCHANGED txCookie
       \/ Fail(h, "refused")
    /\ UNCHANGED <<now, provider, tab, tx, cookie, cache, policy, sess, stored>>

\* _decode_signed_token: with the cached keys first, then with fresh ones.
Verified(h) == [hand EXCEPT ![h].at = "admit", ![h].verified = now, ![h].round = 0,
                            ![h].since = 0, ![h].keys = {}]
RoundsOnce == 1
Rounds == 2
Decode(h, keys) ==
    IF hand[h].key \in keys THEN hand' = Verified(h) /\ UNCHANGED txCookie
    ELSE IF hand[h].round + 1 < Rounds
         THEN hand' = [hand EXCEPT ![h].at = "keys", ![h].round = @ + 1] /\ UNCHANGED txCookie
         ELSE Fail(h, "bad")

Fresh(c) == cache[c].loaded /\ now - cache[c].at < KeyTtl

\* _get_key_set, without a request
CachedKeys(h) ==
    /\ At(h, "keys") /\ hand[h].round = 0 /\ Fresh(Client(h))
    /\ Decode(h, cache[Client(h)].keys)
    /\ UNCHANGED <<now, provider, tab, tx, cookie, cache, policy, sess, stored>>

\* _get_key_set, with a request: it leaves, is answered, and comes back.
Ask(h) ==
    /\ At(h, "keys") /\ (hand[h].round = 1 \/ ~Fresh(Client(h)))
    /\ hand' = [hand EXCEPT ![h].at = "asked", ![h].since = now]
    /\ UNCHANGED <<now, provider, browser, tx, cache, policy, sess, stored>>

Answered(h) ==
    /\ At(h, "asked")
    /\ hand' = [hand EXCEPT ![h].at = "answered", ![h].keys = {signing}]
    /\ UNCHANGED <<now, provider, browser, tx, cache, policy, sess, stored>>

LoadedWhenReceived(h) == now
LoadedAt(h) == hand[h].since
Receive(h) ==
    /\ At(h, "answered")
    /\ cache' = [cache EXCEPT ![Client(h)] = [keys |-> hand[h].keys, at |-> LoadedAt(h), loaded |-> TRUE]]
    /\ Decode(h, hand[h].keys)
    /\ UNCHANGED <<now, provider, tab, tx, cookie, policy, sess, stored>>

\* The request for the keys fails, or takes longer than the client waits.
AskFails(h) ==
    /\ At(h, "asked")
    /\ Fail(h, "refused")
    /\ UNCHANGED <<now, provider, tab, tx, cookie, cache, policy, sess, stored>>

\* _principal_from_verified_claims
Until(h) == Min({hand[h].exp, now + SessionTtl})
Welcome(h) == hand[h].org \in Allowed[SurfaceOf(h)]
Admit(h) ==
    /\ At(h, "admit")
    /\ IF Until(h) > now /\ Welcome(h)
       THEN hand' = [hand EXCEPT ![h].at = "create", ![h].until = Until(h)] /\ UNCHANGED txCookie
       ELSE Fail(h, "turned away")
    /\ UNCHANGED <<now, provider, tab, tx, cookie, cache, policy, sess, stored>>

\* The session and its cookie.
Create(h) ==
    LET s == SurfaceOf(h) IN
    /\ At(h, "create")
    /\ sess' = [sess EXCEPT ![h] = [surface |-> s, until |-> hand[h].until, policy |-> policy[hand[h].proc],
                                    tab |-> hand[h].tab, exp |-> hand[h].exp, org |-> hand[h].org,
                                    key |-> hand[h].key, verified |-> hand[h].verified]]
    /\ stored' = stored \cup {h}
    /\ cookie' = [cookie EXCEPT ![s] = h] /\ txCookie' = [txCookie EXCEPT ![s] = None]
    /\ Go(h, "done")
    /\ UNCHANGED <<now, provider, tab, tx, cache, policy>>

-----------------------------------------------------------------------------
(* The provider, time, and deployments. *)

Rotate ==
    /\ signing < MaxKeys
    /\ signing' = signing + 1
    /\ withdrawn' = [withdrawn EXCEPT ![signing] = now]
    /\ UNCHANGED <<now, browser, tx, cache, policy, hand, sess, stored>>

\* A request for keys is given up after FetchTime.
Tick ==
    /\ now < MaxTime
    /\ \A h \in Handlers : hand[h].at \in {"asked", "answered"} => now - hand[h].since < FetchTime
    /\ now' = now + 1
    /\ UNCHANGED <<provider, browser, tx, cache, policy, hand, sess, stored>>

\* A process comes back with a newer policy and empty caches; its handlers are gone.
Deploy(p) ==
    /\ policy[p] < MaxPolicy
    /\ policy' = [policy EXCEPT ![p] = @ + 1]
    /\ cache' = [c \in Clients |-> IF c[1] = p THEN NoCache ELSE cache[c]]
    /\ hand' = [h \in Handlers |-> IF hand[h].proc = p /\ ~At(h, "done")
                                   THEN [NoHand EXCEPT !.at = "killed"] ELSE hand[h]]
    /\ UNCHANGED <<now, provider, browser, tx, sess, stored>>

Handle(h) ==
    \/ Take(h) \/ Exchange(h) \/ CachedKeys(h) \/ Ask(h) \/ Answered(h) \/ Receive(h) \/ AskFails(h)
    \/ Admit(h) \/ Create(h)

Next ==
    \/ \E i \in Tabs, s \in Surfaces : Begin(i, s)
    \/ \E i \in Tabs : CallbackError(i)
    \/ \E i \in Tabs, h \in Handlers, p \in Procs : Callback(h, i, p)
    \/ \E p \in Procs, s \in Surfaces : Request(p, s) \/ Logout(p, s)
    \/ \E h \in Handlers : Handle(h)
    \/ \E p \in Procs : Deploy(p)
    \/ Rotate \/ Tick

Spec == Init /\ [][Next]_vars

-----------------------------------------------------------------------------
Past == {"exchange", "keys", "asked", "answered", "admit", "create", "done", "refused", "bad", "turned away"}

\* However often and whenever the callbacks of a login arrive, the code of the
\* login is exchanged once at most (auth_service.py:140).
OneExchangePerLogin ==
    \A i \in Tabs : Cardinality({h \in Handlers : hand[h].tab = i /\ hand[h].at \in Past}) <= 1

\* The key of a token had not been withdrawn for longer than keys are cached
\* when the token was verified, whichever answers overtook each other
\* (oidc.py:167).
KeyWasCurrent ==
    \A h \in Handlers : sess[h] # None =>
        LET k == sess[h].key IN
        withdrawn[k] = None \/ sess[h].verified - withdrawn[k] < KeyTtl

\* A token is not refused while its key is published, however old the cached
\* keys are (oidc.py:440).
GoodKeyIsTaken == \A h \in Handlers : At(h, "bad") => withdrawn[hand[h].key] # None

-----------------------------------------------------------------------------
(* What does not hold. *)

\* A login that comes back in time, for the first time, finds its transaction.
TabsStandApart ==
    \A h \in Handlers : At(h, "lost") =>
        now >= tab[hand[h].tab].expires \/ \E g \in Handlers \ {h} : hand[g].tab = hand[h].tab

\* A session of the newest policy stays as long as its token.
NewestStays ==
    \A h \in Handlers : At(h, "done") /\ sess[h].policy = MaxPolicy /\ cookie[sess[h].surface] = h =>
        h \in stored
=============================================================================
