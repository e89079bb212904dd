------------------------------ MODULE WebProofs ------------------------------
(***************************************************************************)
(* Theorems about what users do with the pages and see on them: Login.tla  *)
(* (a code is exchanged once, a key was current when a token was verified, *)
(* a good key is taken), Catalog.tla with Library.tla (a task is worked on *)
(* by its own manifest, a citation holds, what was removed stays removed)  *)
(* and Desk.tla (a page put together while its task goes on is true).      *)
(***************************************************************************)
EXTENDS Login, Library, Desk, FiniteSetTheorems, SequenceTheorems, WellFoundedInduction, TLAPS

-----------------------------------------------------------------------------
(* Login: the types of its rows and tables. *)

Stages == Past \cup {"none", "take", "lost", "killed"}

HandRow == [at : Stages, tab : Tabs \cup {None}, cookie : Tabs \cup {None},
            proc : Procs \cup {None}, key : Nat, exp : Nat, org : Orgs \cup {None},
            round : Nat, since : Nat, keys : SUBSET Nat, verified : Nat, until : Nat]
TabRow == [at : {"new", "away", "back", "gone"}, surface : Surfaces \cup {None}, expires : Nat]
CacheRow == [keys : SUBSET Nat, at : Nat, loaded : BOOLEAN]

LoginShape ==
  /\ now \in Nat /\ signing \in 1..MaxKeys
  /\ withdrawn \in [1..MaxKeys -> Nat \cup {None}]
  /\ tab \in [Tabs -> TabRow] /\ tx \subseteq Tabs
  /\ txCookie \in [Surfaces -> Tabs \cup {None}]
  /\ cache \in [Clients -> CacheRow]
  /\ hand \in [Handlers -> HandRow]
  /\ sess = [h \in Handlers |-> sess[h]]

(* The inductive invariant, in parts.  What is said of one handler, one cache  *)
(* or one session takes the clock and the provider as parameters: a step that  *)
(* moves those leaves the rows alone.                                          *)

\* Key k had not been withdrawn for KeyTtl at time v.
Recent(k, v, sg, wd, nw) ==
  /\ k \in 1..sg /\ v \in Nat /\ v <= nw
  /\ wd[k] = None \/ v - wd[k] < KeyTtl

\* The keys that left the provider at time s or later.
PublishedSince(k, s, sg, wd) == k \in 1..sg /\ (wd[k] = None \/ wd[k] >= s)

WithKey == {"keys", "asked", "answered", "admit", "create", "bad"}

HandOK(x, tb, sg, wd, nw) ==
  /\ x.at \notin {"none", "killed"} => x.tab \in Tabs /\ x.proc \in Procs /\ tb[x.tab].at # "new"
  /\ x.at \in WithKey => x.key \in 1..sg
  /\ x.at \in {"asked", "answered"} => x.since <= nw /\ nw - x.since <= FetchTime
  /\ x.at = "answered" =>
       \E j \in 1..sg : x.keys = {j} /\ x.key <= j /\ PublishedSince(j, x.since, sg, wd)
  /\ x.at \in {"admit", "create"} => Recent(x.key, x.verified, sg, wd, nw)
  /\ x.at = "bad" => wd[x.key] # None

CacheOK(c, sg, wd, nw) ==
  c.loaded => c.at <= nw /\ \A k \in c.keys : PublishedSince(k, c.at, sg, wd)

SessOK(x, sg, wd, nw) == x # None => Recent(x.key, x.verified, sg, wd, nw)

\* The provider publishes one key and has withdrawn those before it.
ProviderOK(sg, wd, nw) ==
  \A k \in 1..MaxKeys : IF k < sg THEN wd[k] \in Nat /\ wd[k] <= nw ELSE wd[k] = None

\* A login that has begun knows its surface.
TabsOK == \A i \in Tabs : tab[i].at # "new" => tab[i].surface \in Surfaces

\* A transaction in Redis has not been taken by a callback.
TxUnused == \A i \in tx, h \in Handlers : hand[h].at \in Past => hand[h].tab # i

\* Two callbacks past the transaction are of two logins.
OneUse ==
  \A g, h \in Handlers : hand[g].at \in Past /\ hand[h].at \in Past /\ hand[g].tab = hand[h].tab => g = h

\* A transaction is of a login that has begun.
TxBegun == \A i \in tx : tab[i].at # "new"

HandsOK == \A h \in Handlers : HandOK(hand[h], tab, signing, withdrawn, now)
CachesOK == \A c \in Clients : CacheOK(cache[c], signing, withdrawn, now)
SessionsOK == \A h \in Handlers : SessOK(sess[h], signing, withdrawn, now)

LoginInv ==
  /\ LoginShape /\ ProviderOK(signing, withdrawn, now) /\ TabsOK /\ TxUnused /\ OneUse
  /\ HandsOK /\ CachesOK /\ SessionsOK

-----------------------------------------------------------------------------
(* Edits of a handler's row. *)

\* What the assumption says of each time.
LEMMA Times ==
  /\ TxTtl \in Nat /\ KeyTtl \in Nat /\ KeyTtl > 0 /\ SessionTtl \in Nat /\ TokenLife \in Nat
  /\ FetchTime \in Nat /\ FetchTime < KeyTtl /\ MaxKeys \in Nat /\ None \notin Nat
<1>1. \A x \in {TxTtl, KeyTtl, SessionTtl, TokenLife, FetchTime} : x \in Nat \ {0}
  BY LoginAssumption
<1>2. FetchTime < KeyTtl /\ MaxKeys \in Nat /\ None \notin Nat
  BY LoginAssumption
<1> QED BY <1>1, <1>2

\* The blank rows have their types.
LEMMA BlankLoginRows == NoTab \in TabRow /\ NoHand \in HandRow /\ NoCache \in CacheRow
<1>1. NoTab \in TabRow BY DEF NoTab, TabRow
<1>2. NoHand \in HandRow BY DEF NoHand, HandRow, Stages
<1>3. NoCache \in CacheRow BY DEF NoCache, CacheRow
<1> QED BY <1>1, <1>2, <1>3

-----------------------------------------------------------------------------
(* A step of one handler. *)

\* The step of a handler that keeps what is said of its row, and takes no login
\* that another has, keeps the invariant.
LEMMA OneHand ==
  ASSUME LoginInv, NEW h \in Handlers, NEW y \in HandRow, hand' = [hand EXCEPT ![h] = y],
         HandOK(y, tab, signing, withdrawn, now), tx' \subseteq tx,
         y.at \in Past => \/ hand[h].at \in Past /\ y.tab = hand[h].tab
                          \/ y.tab \in tx /\ y.tab \notin tx',
         txCookie' \in [Surfaces -> Tabs \cup {None}],
         cache' \in [Clients -> CacheRow], CachesOK',
         sess' = [g \in Handlers |-> sess'[g]], SessionsOK',
         now' = now, signing' = signing, withdrawn' = withdrawn, tab' = tab
  PROVE  LoginInv'
<1>h. hand \in [Handlers -> HandRow]
  BY DEF LoginInv, LoginShape
<1>y. hand' \in [Handlers -> HandRow] /\ hand'[h] = y /\ \A g \in Handlers : g # h => hand'[g] = hand[g]
  BY <1>h
<1>1. LoginShape'
  BY <1>y DEF LoginInv, LoginShape
<1>2. ProviderOK(signing, withdrawn, now)' /\ TabsOK'
  BY DEF LoginInv, ProviderOK, TabsOK
<1>3. TxUnused'
  BY <1>y, Zenon DEF LoginInv, TxUnused
<1>4. OneUse'
  BY <1>y, Zenon DEF LoginInv, OneUse, TxUnused
<1>5. HandsOK'
  BY <1>y, Zenon DEF LoginInv, HandsOK
<1> QED BY <1>1, <1>2, <1>3, <1>4, <1>5 DEF LoginInv

\* The handlers' error page takes a cookie away and nothing else.
LEMMA CookieGone ==
  ASSUME LoginInv, NEW s, NEW i \in Tabs \cup {None}
  PROVE  [txCookie EXCEPT ![s] = i] \in [Surfaces -> Tabs \cup {None}]
BY DEF LoginInv, LoginShape

\* A handler that gives up a login, with a reason that says nothing of the key,
\* keeps the invariant.
LEMMA GivesUp ==
  ASSUME LoginInv, NEW h \in Handlers, NEW s \in {"lost", "refused", "turned away"}, Fail(h, s),
         hand[h].at \notin {"none", "killed"}, s = "lost" \/ hand[h].at \in Past,
         tx' \subseteq tx, UNCHANGED <<now, provider, tab, cache, sess>>
  PROVE  LoginInv'
<1>0. PICK y : y = [hand[h] EXCEPT !.at = s]
  OBVIOUS
<1>1. hand[h] \in HandRow /\ HandOK(hand[h], tab, signing, withdrawn, now)
  BY DEF LoginInv, LoginShape, HandsOK
<1>2. s \in Stages /\ s \notin WithKey \cup {"none", "killed"} /\ (s \in Past => s # "lost")
  BY DEF Stages, Past, WithKey
<1>3. y \in HandRow /\ y.at = s /\ y.tab = hand[h].tab /\ y.proc = hand[h].proc
  BY <1>0, <1>1, <1>2 DEF HandRow
<1>4. hand' = [hand EXCEPT ![h] = y]
  BY <1>0 DEF Fail, Go
<1>5. HandOK(y, tab, signing, withdrawn, now)
  BY <1>1, <1>2, <1>3 DEF HandOK, WithKey
<1>6. txCookie' \in [Surfaces -> Tabs \cup {None}]
  BY CookieGone DEF Fail
<1>7. CachesOK' /\ SessionsOK' /\ cache' \in [Clients -> CacheRow] /\ sess' = [g \in Handlers |-> sess'[g]]
  BY DEF LoginInv, LoginShape, CachesOK, SessionsOK, provider
<1>8. y.at \in Past => hand[h].at \in Past /\ y.tab = hand[h].tab
  BY <1>2, <1>3
<1>9. now' = now /\ signing' = signing /\ withdrawn' = withdrawn /\ tab' = tab
  BY DEF provider
<1> QED BY <1>3, <1>4, <1>5, <1>6, <1>7, <1>8, <1>9, OneHand

\* A handler that goes on, without touching caches and sessions.
LEMMA GoesOn ==
  ASSUME LoginInv, NEW h \in Handlers, NEW y \in HandRow, hand' = [hand EXCEPT ![h] = y],
         HandOK(y, tab, signing, withdrawn, now), hand[h].at \in Past, y.tab = hand[h].tab,
         UNCHANGED <<now, provider, tab, tx, txCookie, cache, sess>>
  PROVE  LoginInv'
<1>7. CachesOK' /\ SessionsOK' /\ cache' \in [Clients -> CacheRow] /\ sess' = [g \in Handlers |-> sess'[g]]
      /\ txCookie' \in [Surfaces -> Tabs \cup {None}]
  BY DEF LoginInv, LoginShape, CachesOK, SessionsOK, provider
<1>9. now' = now /\ signing' = signing /\ withdrawn' = withdrawn /\ tab' = tab
  BY DEF provider
<1> QED BY <1>7, <1>9, OneHand

\* The transaction is taken.
LEMMA TakeStep == ASSUME LoginInv, NEW h \in Handlers, Take(h) PROVE LoginInv'
<1>1. hand[h] \in HandRow /\ HandOK(hand[h], tab, signing, withdrawn, now)
  BY DEF LoginInv, LoginShape, HandsOK
<1>2. hand[h].at = "take" /\ tx' = tx \ {hand[h].cookie}
      /\ UNCHANGED <<now, provider, tab, cache, sess>>
  BY DEF Take, At, Taken
<1>3. CASE Fail(h, "lost")
  BY <1>2, <1>3, GivesUp
<1>4. CASE /\ hand[h].cookie \in tx /\ hand[h].cookie = hand[h].tab
           /\ Go(h, "exchange") /\ UNCHANGED txCookie
  <2>0. PICK y : y = [hand[h] EXCEPT !.at = "exchange"]
    OBVIOUS
  <2>9. "exchange" \in Stages
    BY DEF Stages, Past
  <2>1. y \in HandRow /\ y.at = "exchange" /\ y.tab = hand[h].tab /\ y.proc = hand[h].proc
    BY <1>1, <2>0, <2>9 DEF HandRow
  <2>2. hand' = [hand EXCEPT ![h] = y]
    BY <1>4, <2>0 DEF Go
  <2>3. HandOK(y, tab, signing, withdrawn, now)
    BY <1>1, <1>2, <2>1 DEF HandOK, WithKey
  <2>4. y.tab \in tx /\ y.tab \notin tx' /\ tx' \subseteq tx
    BY <1>2, <1>4, <2>1
  <2>5. CachesOK' /\ SessionsOK' /\ cache' \in [Clients -> CacheRow] /\ sess' = [g \in Handlers |-> sess'[g]]
        /\ txCookie' \in [Surfaces -> Tabs \cup {None}]
    BY <1>2, <1>4 DEF LoginInv, LoginShape, CachesOK, SessionsOK, provider
  <2>6. now' = now /\ signing' = signing /\ withdrawn' = withdrawn /\ tab' = tab
    BY <1>2 DEF provider
  <2> QED BY <2>1, <2>2, <2>3, <2>4, <2>5, <2>6, OneHand
<1> QED BY <1>3, <1>4 DEF Take

\* The code is exchanged for a token of the key the provider signs with.
LEMMA ExchangeStep == ASSUME LoginInv, NEW h \in Handlers, Exchange(h) PROVE LoginInv'
<1>1. hand[h] \in HandRow /\ HandOK(hand[h], tab, signing, withdrawn, now)
      /\ now \in Nat /\ signing \in 1..MaxKeys
  BY DEF LoginInv, LoginShape, HandsOK
<1>2. hand[h].at = "exchange" /\ hand[h].at \in Past
      /\ UNCHANGED <<now, provider, tab, tx, cache, sess>>
  BY DEF Exchange, At, Past
<1>3. CASE Fail(h, "refused")
  BY <1>2, <1>3, GivesUp
<1>4. CASE /\ UNCHANGED txCookie
           /\ \E org \in Orgs :
                hand' = [hand EXCEPT ![h].at = "keys", ![h].key = signing, ![h].org = org,
                                     ![h].exp = now + TokenLife]
  <2>1. PICK org \in Orgs :
          hand' = [hand EXCEPT ![h].at = "keys", ![h].key = signing, ![h].org = org,
                               ![h].exp = now + TokenLife]
    BY <1>4
  <2> DEFINE e == now + TokenLife
  <2>2. e \in Nat /\ signing \in Nat
    BY <1>1, Times
  <2> HIDE DEF e
  <2>0. PICK y : y = [hand[h] EXCEPT !.at = "keys", !.key = signing, !.org = org, !.exp = e]
    OBVIOUS
  <2>3. y \in HandRow /\ y.at = "keys" /\ y.tab = hand[h].tab /\ y.proc = hand[h].proc /\ y.key = signing
    BY <1>1, <2>0, <2>2 DEF HandRow, Stages, Past
  <2>4. hand' = [hand EXCEPT ![h] = y]
    BY <2>0, <2>1 DEF e
  <2>5. HandOK(y, tab, signing, withdrawn, now)
    BY <1>1, <1>2, <2>3, Times DEF HandOK, WithKey
  <2> QED BY <1>2, <1>4, <2>3, <2>4, <2>5, GoesOn
<1> QED BY <1>3, <1>4 DEF Exchange

\* A token is verified with the keys at hand, or fresh keys are wanted, or it is
\* refused.
LEMMA DecodeStep ==
  ASSUME LoginInv, NEW h \in Handlers, NEW ks, Decode(h, ks), hand[h].at \in {"keys", "answered"},
         hand[h].key \in ks => Recent(hand[h].key, now, signing, withdrawn, now),
         hand[h].key \notin ks /\ hand[h].round # 0 => withdrawn[hand[h].key] # None,
         cache' \in [Clients -> CacheRow], CachesOK',
         UNCHANGED <<now, provider, tab, tx, sess>>
  PROVE  LoginInv'
<1>1. hand[h] \in HandRow /\ HandOK(hand[h], tab, signing, withdrawn, now) /\ now \in Nat
      /\ hand[h].at \in Past /\ hand[h].at \in WithKey /\ hand[h].at \notin {"none", "killed"}
      /\ hand[h].round \in Nat
  BY DEF LoginInv, LoginShape, HandsOK, Past, WithKey, HandRow
<1>2. SessionsOK' /\ sess' = [g \in Handlers |-> sess'[g]]
      /\ now' = now /\ signing' = signing /\ withdrawn' = withdrawn /\ tab' = tab /\ tx' = tx
  BY DEF LoginInv, LoginShape, SessionsOK, provider
<1>3. txCookie \in [Surfaces -> Tabs \cup {None}]
  BY DEF LoginInv, LoginShape
<1>4. CASE hand[h].key \in ks
  <2>0. PICK y : y = [hand[h] EXCEPT !.at = "admit", !.verified = now, !.round = 0, !.since = 0,
                                    !.keys = {}]
    OBVIOUS
  <2>1. y \in HandRow /\ y.at = "admit" /\ y.tab = hand[h].tab /\ y.proc = hand[h].proc
        /\ y.key = hand[h].key /\ y.verified = now
    BY <1>1, <2>0 DEF HandRow, Stages, Past
  <2>2. hand' = [hand EXCEPT ![h] = y] /\ txCookie' = txCookie
    BY <1>4, <2>0 DEF Decode, Verified
  <2>3. HandOK(y, tab, signing, withdrawn, now)
    BY <1>1, <1>4, <2>1 DEF HandOK, WithKey
  <2> QED BY <1>1, <1>2, <1>3, <2>1, <2>2, <2>3, OneHand
<1>5. CASE hand[h].key \notin ks /\ hand[h].round = 0
  <2> DEFINE n == hand[h].round + 1
  <2>9. n \in Nat /\ n < 2
    BY <1>5
  <2> HIDE DEF n
  <2>0. PICK y : y = [hand[h] EXCEPT !.at = "keys", !.round = n]
    OBVIOUS
  <2>1. y \in HandRow /\ y.at = "keys" /\ y.tab = hand[h].tab /\ y.proc = hand[h].proc
        /\ y.key = hand[h].key
    BY <1>1, <2>0, <2>9 DEF HandRow, Stages, Past
  <2>2. hand' = [hand EXCEPT ![h] = y] /\ txCookie' = txCookie
    BY <1>5, <2>0, <2>9 DEF Decode, Rounds, n
  <2>3. HandOK(y, tab, signing, withdrawn, now)
    BY <1>1, <2>1 DEF HandOK, WithKey
  <2> QED BY <1>1, <1>2, <1>3, <2>1, <2>2, <2>3, OneHand
<1>6. CASE hand[h].key \notin ks /\ hand[h].round # 0
  <2>0. PICK y : y = [hand[h] EXCEPT !.at = "bad"]
    OBVIOUS
  <2>1. y \in HandRow /\ y.at = "bad" /\ y.tab = hand[h].tab /\ y.proc = hand[h].proc
        /\ y.key = hand[h].key
    BY <1>1, <2>0 DEF HandRow, Stages, Past
  <2>2. Fail(h, "bad")
    BY <1>1, <1>6 DEF Decode, Rounds
  <2>3. hand' = [hand EXCEPT ![h] = y] /\ txCookie' \in [Surfaces -> Tabs \cup {None}]
    BY <2>0, <2>2, CookieGone DEF Fail, Go
  <2>4. HandOK(y, tab, signing, withdrawn, now)
    BY <1>1, <1>6, <2>1 DEF HandOK, WithKey
  <2> QED BY <1>1, <1>2, <1>3, <2>1, <2>3, <2>4, OneHand
<1> QED BY <1>4, <1>5, <1>6

\* The keys a process has cached were published when they were loaded.
LEMMA CachedKeysStep == ASSUME LoginInv, NEW h \in Handlers, CachedKeys(h) PROVE LoginInv'
<1>1. hand[h] \in HandRow /\ HandOK(hand[h], tab, signing, withdrawn, now) /\ now \in Nat
      /\ hand[h].at = "keys" /\ hand[h].round = 0
  BY DEF LoginInv, LoginShape, HandsOK, CachedKeys, At
<1> DEFINE c == Client(h)
<1>2. c \in Clients
  <2>1. hand[h].tab \in Tabs /\ hand[h].proc \in Procs /\ tab[hand[h].tab].at # "new"
    BY <1>1 DEF HandOK
  <2>2. SurfaceOf(h) \in Surfaces
    BY <2>1 DEF LoginInv, TabsOK, SurfaceOf
  <2> QED BY <2>1, <2>2 DEF Client, Clients
<1>3. cache[c] \in CacheRow /\ CacheOK(cache[c], signing, withdrawn, now) /\ Fresh(c)
      /\ Decode(h, cache[c].keys)
  BY <1>2 DEF LoginInv, LoginShape, CachesOK, CachedKeys
<1> HIDE DEF c
<1>4. cache[c].at \in Nat
  BY <1>3 DEF CacheRow
<1>5. ASSUME hand[h].key \in cache[c].keys PROVE Recent(hand[h].key, now, signing, withdrawn, now)
  <2>1. cache[c].loaded /\ now - cache[c].at < KeyTtl
    BY <1>3 DEF Fresh
  <2>2. PublishedSince(hand[h].key, cache[c].at, signing, withdrawn)
    BY <1>3, <1>5, <2>1 DEF CacheOK
  <2> DEFINE w == withdrawn[hand[h].key]
  <2>3. w = None \/ (w \in Nat /\ w >= cache[c].at)
    BY <1>1, <2>2, Times DEF PublishedSince, LoginInv, LoginShape
  <2>4. w = None \/ now - w < KeyTtl
    BY <1>1, <1>4, <2>1, <2>3, Times
  <2> QED BY <1>1, <2>2, <2>4 DEF Recent, PublishedSince
<1>6. UNCHANGED <<now, provider, tab, tx, cookie, cache, policy, sess, stored>>
  BY DEF CachedKeys
<1>7. cache' \in [Clients -> CacheRow] /\ CachesOK'
  BY <1>6 DEF LoginInv, LoginShape, CachesOK, provider
<1> QED BY <1>1, <1>3, <1>5, <1>6, <1>7, DecodeStep

\* A request for keys leaves.
LEMMA AskStep == ASSUME LoginInv, NEW h \in Handlers, Ask(h) PROVE LoginInv'
<1>1. hand[h] \in HandRow /\ HandOK(hand[h], tab, signing, withdrawn, now) /\ now \in Nat
      /\ hand[h].at = "keys" /\ hand[h].at \in Past
  BY DEF LoginInv, LoginShape, HandsOK, Ask, At, Past
<1>0. PICK y : y = [hand[h] EXCEPT !.at = "asked", !.since = now]
  OBVIOUS
<1>2. y \in HandRow /\ y.at = "asked" /\ y.tab = hand[h].tab /\ y.proc = hand[h].proc
      /\ y.key = hand[h].key /\ y.since = now
  BY <1>0, <1>1 DEF HandRow, Stages, Past
<1>3. hand' = [hand EXCEPT ![h] = y] /\ UNCHANGED <<now, provider, tab, tx, txCookie, cache, sess>>
  BY <1>0 DEF Ask, browser
<1>4. HandOK(y, tab, signing, withdrawn, now)
  BY <1>1, <1>2, Times DEF HandOK, WithKey
<1> QED BY <1>1, <1>2, <1>3, <1>4, GoesOn

\* The provider answers with the one key it publishes.
LEMMA AnsweredStep == ASSUME LoginInv, NEW h \in Handlers, Answered(h) PROVE LoginInv'
<1>1. hand[h] \in HandRow /\ HandOK(hand[h], tab, signing, withdrawn, now) /\ now \in Nat
      /\ hand[h].at = "asked" /\ hand[h].at \in Past /\ signing \in 1..MaxKeys
  BY DEF LoginInv, LoginShape, HandsOK, Answered, At, Past
<1>0. PICK y : y = [hand[h] EXCEPT !.at = "answered", !.keys = {signing}]
  OBVIOUS
<1>2. y \in HandRow /\ y.at = "answered" /\ y.tab = hand[h].tab /\ y.proc = hand[h].proc
      /\ y.key = hand[h].key /\ y.since = hand[h].since /\ y.keys = {signing}
  <2>1. {signing} \in SUBSET Nat
    BY <1>1, Times
  <2> QED BY <1>0, <1>1, <2>1 DEF HandRow, Stages, Past
<1>3. hand' = [hand EXCEPT ![h] = y] /\ UNCHANGED <<now, provider, tab, tx, txCookie, cache, sess>>
  BY <1>0 DEF Answered, browser
<1>4. withdrawn[signing] = None
  BY <1>1, Times DEF LoginInv, ProviderOK
<1>5. HandOK(y, tab, signing, withdrawn, now)
  <2>1. y.key \in 1..signing /\ y.since <= now /\ now - y.since <= FetchTime
    BY <1>1, <1>2 DEF HandOK, WithKey
  <2>2. signing \in 1..signing /\ y.key <= signing /\ PublishedSince(signing, y.since, signing, withdrawn)
    BY <1>1, <1>4, <2>1, Times DEF PublishedSince
  <2> QED BY <1>1, <1>2, <2>1, <2>2 DEF HandOK, WithKey
<1> QED BY <1>1, <1>2, <1>3, <1>5, GoesOn

\* The answer comes back: what it brings was published when the request left, and
\* a key it does not bring had been withdrawn.
LEMMA ReceiveStep == ASSUME LoginInv, NEW h \in Handlers, Receive(h) PROVE LoginInv'
<1>1. hand[h] \in HandRow /\ HandOK(hand[h], tab, signing, withdrawn, now) /\ now \in Nat
      /\ hand[h].at = "answered" /\ hand[h].since \in Nat /\ signing \in 1..MaxKeys
  BY DEF LoginInv, LoginShape, HandsOK, Receive, At, HandRow
<1>2. PICK j \in 1..signing :
        hand[h].keys = {j} /\ hand[h].key <= j /\ PublishedSince(j, hand[h].since, signing, withdrawn)
  BY <1>1 DEF HandOK
<1>3. hand[h].since <= now /\ now - hand[h].since <= FetchTime /\ hand[h].key \in 1..signing
  BY <1>1 DEF HandOK, WithKey
<1>4. j \in Nat /\ j \in 1..MaxKeys
  BY <1>1, Times
<1>5. ASSUME hand[h].key \in {j} PROVE Recent(hand[h].key, now, signing, withdrawn, now)
  <2> DEFINE w == withdrawn[j]
  <2>1. w = None \/ (w \in Nat /\ w >= hand[h].since)
    BY <1>2, <1>4, Times DEF PublishedSince, LoginInv, LoginShape
  <2>2. w = None \/ now - w < KeyTtl
    BY <1>1, <1>3, <2>1, Times
  <2> QED BY <1>1, <1>3, <1>5, <2>2 DEF Recent
<1>6. ASSUME hand[h].key \notin {j} PROVE withdrawn[hand[h].key] # None
  <2>3. hand[h].key # j
    BY <1>6
  <2>4. hand[h].key \in Nat /\ hand[h].key <= j /\ j <= signing /\ hand[h].key >= 1
        /\ signing \in Nat /\ signing <= MaxKeys
    BY <1>1, <1>2, <1>3, Times
  <2>1. hand[h].key < signing /\ hand[h].key \in 1..MaxKeys
    BY <1>4, <2>3, <2>4, Times
  <2>2. withdrawn[hand[h].key] \in Nat
    BY <2>1 DEF LoginInv, ProviderOK
  <2> QED BY <2>2, Times
<1>7. PICK entry : entry = [keys |-> hand[h].keys, at |-> LoadedAt(h), loaded |-> TRUE]
  OBVIOUS
<1>8. entry \in CacheRow /\ CacheOK(entry, signing, withdrawn, now)
  <2>1. entry \in CacheRow /\ entry.keys = {j} /\ entry.at = hand[h].since
    BY <1>1, <1>2, <1>4, <1>7 DEF CacheRow, LoadedAt
  <2> QED BY <1>2, <1>3, <2>1 DEF CacheOK
<1>9. Decode(h, {j}) /\ cache' = [cache EXCEPT ![Client(h)] = entry]
      /\ UNCHANGED <<now, provider, tab, tx, sess>>
  BY <1>2, <1>7 DEF Receive
<1>10. cache' \in [Clients -> CacheRow] /\ \A c \in Clients : cache'[c] = entry \/ cache'[c] = cache[c]
  BY <1>8, <1>9 DEF LoginInv, LoginShape
<1>11. CachesOK'
  BY <1>8, <1>9, <1>10 DEF LoginInv, CachesOK, provider
<1> QED BY <1>1, <1>5, <1>6, <1>9, <1>10, <1>11, DecodeStep

\* A request for keys comes to nothing.
LEMMA AskFailsStep == ASSUME LoginInv, NEW h \in Handlers, AskFails(h) PROVE LoginInv'
<1>1. Fail(h, "refused") /\ hand[h].at = "asked" /\ UNCHANGED <<now, provider, tab, tx, cache, sess>>
  BY DEF AskFails, At
<1> QED BY <1>1, GivesUp DEF Past

\* The account may come in, or not.
LEMMA AdmitStep == ASSUME LoginInv, NEW h \in Handlers, Admit(h) PROVE LoginInv'
<1>1. hand[h] \in HandRow /\ HandOK(hand[h], tab, signing, withdrawn, now) /\ now \in Nat
      /\ hand[h].at = "admit" /\ hand[h].at \in Past /\ hand[h].exp \in Nat
      /\ UNCHANGED <<now, provider, tab, tx, cache, sess>>
  BY DEF LoginInv, LoginShape, HandsOK, Admit, At, Past, HandRow
<1>2. CASE Fail(h, "turned away")
  BY <1>1, <1>2, GivesUp
<1>3. CASE hand' = [hand EXCEPT ![h].at = "create", ![h].until = Until(h)] /\ UNCHANGED txCookie
  <2>1. Until(h) \in Nat
    <3> DEFINE e == now + SessionTtl
    <3>1. e \in Nat
      BY <1>1, Times
    <3>2. \A m, n \in Nat : \E x \in {m, n} : \A y \in {m, n} : x <= y
      <4> SUFFICES ASSUME NEW m \in Nat, NEW n \in Nat PROVE \E x \in {m, n} : \A y \in {m, n} : x <= y
        OBVIOUS
      <4>1. CASE m <= n BY <4>1
      <4>2. CASE ~(m <= n) BY <4>2
      <4> QED BY <4>1, <4>2
    <3> HIDE DEF e
    <3>3. Until(h) = CHOOSE x \in {hand[h].exp, e} : \A y \in {hand[h].exp, e} : x <= y
      BY Zenon DEF Until, Min, e
    <3>4. Until(h) \in {hand[h].exp, e}
      BY <1>1, <3>1, <3>2, <3>3, Zenon
    <3> QED BY <1>1, <3>1, <3>4
  <2>2. PICK u \in Nat : u = Until(h)
    BY <2>1
  <2>0. PICK y : y = [hand[h] EXCEPT !.at = "create", !.until = u]
    OBVIOUS
  <2>3. y \in HandRow /\ y.at = "create" /\ y.tab = hand[h].tab /\ y.proc = hand[h].proc
        /\ y.key = hand[h].key /\ y.verified = hand[h].verified
    BY <1>1, <2>0 DEF HandRow, Stages, Past
  <2>4. hand' = [hand EXCEPT ![h] = y]
    BY <1>3, <2>0, <2>2
  <2>5. HandOK(y, tab, signing, withdrawn, now)
    BY <1>1, <2>3 DEF HandOK, WithKey
  <2> QED BY <1>1, <1>3, <2>3, <2>4, <2>5, GoesOn
<1> QED BY <1>2, <1>3 DEF Admit

\* The session is stored.
LEMMA CreateStep == ASSUME LoginInv, NEW h \in Handlers, Create(h) PROVE LoginInv'
<1>1. hand[h] \in HandRow /\ HandOK(hand[h], tab, signing, withdrawn, now)
      /\ hand[h].at = "create" /\ hand[h].at \in Past
  BY DEF LoginInv, LoginShape, HandsOK, Create, At, Past
<1>2. /\ now' = now /\ signing' = signing /\ withdrawn' = withdrawn /\ tab' = tab /\ tx' = tx
      /\ cache' = cache
  BY DEF Create, provider
<1>0. PICK y : y = [hand[h] EXCEPT !.at = "done"]
  OBVIOUS
<1>3. y \in HandRow /\ y.at = "done" /\ y.tab = hand[h].tab /\ y.proc = hand[h].proc
  BY <1>0, <1>1 DEF HandRow, Stages, Past
<1>4. hand' = [hand EXCEPT ![h] = y]
  BY <1>0 DEF Create, Go
<1>5. HandOK(y, tab, signing, withdrawn, now)
  BY <1>1, <1>3 DEF HandOK, WithKey
<1>6. txCookie' \in [Surfaces -> Tabs \cup {None}]
  BY CookieGone DEF Create
<1>7. CachesOK' /\ cache' \in [Clients -> CacheRow]
  BY <1>2 DEF LoginInv, LoginShape, CachesOK
<1>8. PICK entry : /\ sess' = [sess EXCEPT ![h] = entry]
                 /\ entry.key = hand[h].key /\ entry.verified = hand[h].verified
  <2> DEFINE entry == [surface |-> SurfaceOf(h), until |-> hand[h].until, policy |-> policy[hand[h].proc],
                     tab |-> hand[h].tab, exp |-> hand[h].exp, org |-> hand[h].org,
                     key |-> hand[h].key, verified |-> hand[h].verified]
  <2>1. sess' = [sess EXCEPT ![h] = entry]
    BY DEF Create
  <2>2. entry.key = hand[h].key /\ entry.verified = hand[h].verified
    OBVIOUS
  <2> QED BY <2>1, <2>2
<1>9. Recent(entry.key, entry.verified, signing, withdrawn, now)
  BY <1>1, <1>8 DEF HandOK
<1>10. sess = [g \in Handlers |-> sess[g]]
  BY DEF LoginInv, LoginShape
<1>11. /\ sess' = [g \in Handlers |-> sess'[g]]
       /\ \A g \in Handlers : sess'[g] = IF g = h THEN entry ELSE sess[g]
  BY <1>8, <1>10
<1>12. SessionsOK'
  BY <1>2, <1>9, <1>11 DEF LoginInv, SessionsOK, SessOK
<1> QED BY <1>1, <1>2, <1>3, <1>4, <1>5, <1>6, <1>7, <1>11, <1>12, OneHand

-----------------------------------------------------------------------------
(* The browser, the provider, time and deployments. *)

\* A login begins: no callback knows of it.
LEMMA BeginStep == ASSUME LoginInv, NEW i \in Tabs, NEW s \in Surfaces, Begin(i, s) PROVE LoginInv'
<1>1. tab \in [Tabs -> TabRow] /\ now \in Nat /\ hand \in [Handlers -> HandRow]
  BY DEF LoginInv, LoginShape
<1>2. now' = now /\ signing' = signing /\ withdrawn' = withdrawn /\ cache' = cache /\ hand' = hand
      /\ sess' = sess /\ tx' = tx \cup {i} /\ tab[i].at = "new"
  BY DEF Begin, provider
<1>3. PICK entry : entry = [at |-> "away", surface |-> s, expires |-> now + TxTtl]
  OBVIOUS
<1>4. entry \in TabRow /\ entry.at # "new" /\ entry.surface \in Surfaces
  BY <1>1, <1>3, Times DEF TabRow
<1>5. tab' = [tab EXCEPT ![i] = entry]
  BY <1>3 DEF Begin
<1>6. tab' \in [Tabs -> TabRow] /\ tab'[i] = entry /\ \A k \in Tabs : k # i => tab'[k] = tab[k]
  BY <1>1, <1>4, <1>5
<1>7. \A h \in Handlers : hand[h].at \in Past => hand[h].tab \in Tabs /\ tab[hand[h].tab].at # "new"
  BY DEF LoginInv, HandsOK, HandOK, Past
<1>8. LoginShape'
  BY <1>2, <1>6 DEF LoginInv, LoginShape, Begin
<1>9. TabsOK'
  BY <1>4, <1>6 DEF LoginInv, TabsOK
<1>10. TxUnused' /\ OneUse'
  BY <1>2, <1>7 DEF LoginInv, TxUnused, OneUse
<1>11. HandsOK'
  BY <1>2, <1>4, <1>6 DEF LoginInv, HandsOK, HandOK
<1>12. ProviderOK(signing, withdrawn, now)' /\ CachesOK' /\ SessionsOK'
  BY <1>2 DEF LoginInv, ProviderOK, CachesOK, SessionsOK
<1> QED BY <1>8, <1>9, <1>10, <1>11, <1>12 DEF LoginInv

\* A tab that has come back, or gone away, is still a login of its surface.
LEMMA TabStep ==
  ASSUME LoginInv, NEW i \in Tabs, NEW s \in {"back", "gone"}, tab[i].at \in {"away", "back"},
         tab' = [tab EXCEPT ![i].at = s]
  PROVE  /\ tab' \in [Tabs -> TabRow] /\ TabsOK'
         /\ \A k \in Tabs : tab[k].at # "new" => tab'[k].at # "new"
<1>1. tab \in [Tabs -> TabRow] /\ tab[i] \in TabRow
  BY DEF LoginInv, LoginShape
<1>2. PICK entry : entry = [tab[i] EXCEPT !.at = s]
  OBVIOUS
<1>3. entry \in TabRow /\ entry.at = s /\ entry.surface = tab[i].surface
  BY <1>1, <1>2 DEF TabRow
<1>4. tab' = [tab EXCEPT ![i] = entry]
  BY <1>2
<1>5. tab' \in [Tabs -> TabRow] /\ tab'[i] = entry /\ \A k \in Tabs : k # i => tab'[k] = tab[k]
  BY <1>1, <1>3, <1>4
<1> QED BY <1>3, <1>5 DEF LoginInv, TabsOK

\* A callback arrives: it has taken nothing yet.
LEMMA CallbackStep ==
  ASSUME LoginInv, NEW h \in Handlers, NEW i \in Tabs, NEW p \in Procs, Callback(h, i, p)
  PROVE  LoginInv'
<1>1. hand \in [Handlers -> HandRow] /\ tab[i].at # "new" /\ tab[i].surface \in Surfaces
      /\ txCookie[tab[i].surface] \in Tabs \cup {None}
  <2>1. tab[i].at # "new"
    BY DEF Callback
  <2>2. tab[i].surface \in Surfaces
    BY <2>1 DEF LoginInv, TabsOK
  <2> QED BY <2>1, <2>2 DEF LoginInv, LoginShape
<1>2. PICK c \in Tabs \cup {None} : c = txCookie[tab[i].surface]
  BY <1>1
<1>3. PICK y : y = [NoHand EXCEPT !.at = "take", !.tab = i, !.proc = p, !.cookie = c]
  OBVIOUS
<1>4. y \in HandRow /\ y.at = "take" /\ y.tab = i /\ y.proc = p
  BY <1>3 DEF NoHand, HandRow, Stages
<1>5. hand' = [hand EXCEPT ![h] = y] /\ tab[i].at \in {"away", "back"} /\ tab' = [tab EXCEPT ![i].at = "back"]
  BY <1>2, <1>3 DEF Callback
<1>6. now' = now /\ signing' = signing /\ withdrawn' = withdrawn /\ cache' = cache /\ tx' = tx
      /\ sess' = sess /\ txCookie' = txCookie
  BY DEF Callback, provider
<1>7. tab' \in [Tabs -> TabRow] /\ TabsOK' /\ \A k \in Tabs : tab[k].at # "new" => tab'[k].at # "new"
  BY <1>5, TabStep
<1>8. hand' \in [Handlers -> HandRow] /\ hand'[h] = y /\ \A g \in Handlers : g # h => hand'[g] = hand[g]
  BY <1>1, <1>4, <1>5
<1>9. LoginShape'
  BY <1>6, <1>7, <1>8 DEF LoginInv, LoginShape
<1>10. y.at \notin Past
  BY <1>4 DEF Past
<1>11. TxUnused' /\ OneUse'
  BY <1>6, <1>8, <1>10 DEF LoginInv, TxUnused, OneUse
<1>12. HandsOK'
  <2>1. HandOK(y, tab', signing, withdrawn, now)
    BY <1>1, <1>4, <1>7 DEF HandOK, WithKey
  <2>2. \A g \in Handlers : HandOK(hand[g], tab', signing, withdrawn, now)
    BY <1>7 DEF LoginInv, HandsOK, HandOK
  <2> QED BY <1>6, <1>8, <2>1, <2>2 DEF HandsOK
<1>13. ProviderOK(signing, withdrawn, now)' /\ CachesOK' /\ SessionsOK'
  BY <1>6 DEF LoginInv, ProviderOK, CachesOK, SessionsOK
<1> QED BY <1>7, <1>9, <1>11, <1>12, <1>13 DEF LoginInv

\* A login is given up at the provider.
LEMMA CallbackErrorStep == ASSUME LoginInv, NEW i \in Tabs, CallbackError(i) PROVE LoginInv'
<1>1. tab[i].at \in {"away", "back"} /\ tab' = [tab EXCEPT ![i].at = "gone"] /\ tx' \subseteq tx
      /\ \E s : txCookie' = [txCookie EXCEPT ![s] = None]
  BY DEF CallbackError
<1>2. now' = now /\ signing' = signing /\ withdrawn' = withdrawn /\ cache' = cache /\ hand' = hand
      /\ sess' = sess
  BY DEF CallbackError, provider
<1>3. tab' \in [Tabs -> TabRow] /\ TabsOK' /\ \A k \in Tabs : tab[k].at # "new" => tab'[k].at # "new"
  BY <1>1, TabStep
<1>4. txCookie' \in [Surfaces -> Tabs \cup {None}]
  BY <1>1, CookieGone
<1>5. LoginShape'
  BY <1>1, <1>2, <1>3, <1>4 DEF LoginInv, LoginShape
<1>6. TxUnused' /\ OneUse'
  BY <1>1, <1>2 DEF LoginInv, TxUnused, OneUse
<1>7. HandsOK'
  BY <1>2, <1>3 DEF LoginInv, HandsOK, HandOK
<1>8. ProviderOK(signing, withdrawn, now)' /\ CachesOK' /\ SessionsOK'
  BY <1>2 DEF LoginInv, ProviderOK, CachesOK, SessionsOK
<1> QED BY <1>3, <1>5, <1>6, <1>7, <1>8 DEF LoginInv

\* Requests and logouts move what Redis stores and the session's cookie only.
LEMMA SessionsAside ==
  ASSUME LoginInv, UNCHANGED <<now, provider, tab, tx, txCookie, cache, hand, sess>>
  PROVE  LoginInv'
<1>1. now' = now /\ signing' = signing /\ withdrawn' = withdrawn /\ tab' = tab /\ tx' = tx
      /\ txCookie' = txCookie /\ cache' = cache /\ hand' = hand /\ sess' = sess
  BY DEF provider
<1> QED BY <1>1 DEF LoginInv, LoginShape, ProviderOK, TabsOK, TxUnused, OneUse, HandsOK, CachesOK, SessionsOK

\* The provider replaces its key now: no later than anything that was loaded or
\* verified.
LEMMA RotateStep == ASSUME LoginInv, Rotate PROVE LoginInv'
<1>1. now' = now /\ tab' = tab /\ tx' = tx /\ txCookie' = txCookie /\ cache' = cache /\ hand' = hand
      /\ sess' = sess /\ signing' = signing + 1 /\ withdrawn' = [withdrawn EXCEPT ![signing] = now]
      /\ signing < MaxKeys
  BY DEF Rotate, browser
<1>2. now \in Nat /\ signing \in 1..MaxKeys /\ withdrawn \in [1..MaxKeys -> Nat \cup {None}]
  BY DEF LoginInv, LoginShape
<1>3. signing \in Nat /\ signing' \in 1..MaxKeys /\ 1..signing \subseteq 1..signing' /\ 1..signing \subseteq 1..MaxKeys
  BY <1>1, <1>2, Times
<1>4. /\ withdrawn'[signing] = now
      /\ \A k \in 1..MaxKeys : k # signing => withdrawn'[k] = withdrawn[k]
      /\ withdrawn' \in [1..MaxKeys -> Nat \cup {None}]
  BY <1>1, <1>2
<1>5. LoginShape'
  BY <1>1, <1>3, <1>4 DEF LoginInv, LoginShape
<1>6. ProviderOK(signing, withdrawn, now)'
  <2> SUFFICES ASSUME NEW k \in 1..MaxKeys
               PROVE  IF k < signing' THEN withdrawn'[k] \in Nat /\ withdrawn'[k] <= now' ELSE withdrawn'[k] = None
    BY DEF ProviderOK
  <2>1. k \in Nat /\ IF k < signing THEN withdrawn[k] \in Nat /\ withdrawn[k] <= now ELSE withdrawn[k] = None
    BY Times DEF LoginInv, ProviderOK
  <2>2. CASE k = signing
    BY <1>1, <1>2, <1>3, <1>4, <2>2
  <2>3. CASE k # signing
    <3>1. k < signing' <=> k < signing
      BY <1>1, <1>3, <2>1, <2>3
    <3> QED BY <1>1, <1>4, <2>1, <2>3, <3>1
  <2> QED BY <2>2, <2>3
<1>7. TabsOK' /\ TxUnused' /\ OneUse'
  BY <1>1 DEF LoginInv, TabsOK, TxUnused, OneUse
<1>8. \A k, v : Recent(k, v, signing, withdrawn, now) => Recent(k, v, signing', withdrawn', now')
  <2> SUFFICES ASSUME NEW k, NEW v, Recent(k, v, signing, withdrawn, now)
               PROVE  Recent(k, v, signing', withdrawn', now')
    OBVIOUS
  <2>1. k \in 1..signing' /\ k \in 1..MaxKeys /\ v \in Nat /\ v <= now /\ (withdrawn[k] = None \/ v - withdrawn[k] < KeyTtl)
    BY <1>3 DEF Recent
  <2>2. v - now < KeyTtl
    BY <1>2, <2>1, Times
  <2>3. withdrawn'[k] = None \/ v - withdrawn'[k] < KeyTtl
    BY <1>4, <2>1, <2>2
  <2> QED BY <1>1, <2>1, <2>3 DEF Recent
<1>9. \A k, t : PublishedSince(k, t, signing, withdrawn) /\ t <= now => PublishedSince(k, t, signing', withdrawn')
  <2> SUFFICES ASSUME NEW k, NEW t, PublishedSince(k, t, signing, withdrawn), t <= now
               PROVE  PublishedSince(k, t, signing', withdrawn')
    OBVIOUS
  <2>1. k \in 1..signing' /\ k \in 1..MaxKeys /\ (withdrawn[k] = None \/ withdrawn[k] >= t)
    BY <1>3 DEF PublishedSince
  <2>2. withdrawn'[k] = None \/ withdrawn'[k] >= t
    BY <1>4, <2>1
  <2> QED BY <2>1, <2>2 DEF PublishedSince
<1>10. HandsOK'
  <2> SUFFICES ASSUME NEW h \in Handlers PROVE HandOK(hand[h], tab, signing', withdrawn', now)
    BY <1>1 DEF HandsOK
  <2> DEFINE x == hand[h]
  <2>1. x \in HandRow /\ HandOK(x, tab, signing, withdrawn, now)
    BY DEF LoginInv, LoginShape, HandsOK
  <2> HIDE DEF x
  <2>2. x.at \in WithKey => x.key \in 1..signing'
    BY <1>3, <2>1 DEF HandOK
  <2>3. x.at = "answered" =>
          \E j \in 1..signing' : x.keys = {j} /\ x.key <= j /\ PublishedSince(j, x.since, signing', withdrawn')
    BY <1>3, <1>9, <2>1 DEF HandOK
  <2>5. x.at \in {"admit", "create"} => Recent(x.key, x.verified, signing', withdrawn', now)
    BY <1>1, <1>8, <2>1 DEF HandOK
  <2>6. x.at = "bad" => withdrawn'[x.key] # None
    BY <1>2, <1>3, <1>4, <2>1, Times DEF HandOK, WithKey
  <2>7. HandOK(x, tab, signing', withdrawn', now)
    BY <2>1, <2>2, <2>3, <2>5, <2>6 DEF HandOK
  <2> QED BY <2>7 DEF x
<1>11. CachesOK'
  BY <1>1, <1>9 DEF LoginInv, CachesOK, CacheOK
<1>12. SessionsOK'
  <2> SUFFICES ASSUME NEW h \in Handlers, sess[h] # None
               PROVE  Recent(sess[h].key, sess[h].verified, signing', withdrawn', now')
    BY <1>1 DEF SessionsOK, SessOK
  <2>1. Recent(sess[h].key, sess[h].verified, signing, withdrawn, now)
    BY DEF LoginInv, SessionsOK, SessOK
  <2> QED BY <1>8, <2>1
<1> QED BY <1>5, <1>6, <1>7, <1>10, <1>11, <1>12 DEF LoginInv

\* Time passes: a request for keys is not older than a client waits.
LEMMA TickStep == ASSUME LoginInv, Tick PROVE LoginInv'
<1>1. now' = now + 1 /\ signing' = signing /\ withdrawn' = withdrawn /\ tab' = tab /\ tx' = tx
      /\ txCookie' = txCookie /\ cache' = cache /\ hand' = hand /\ sess' = sess
  BY DEF Tick, provider, browser
<1>2. now \in Nat /\ signing \in 1..MaxKeys /\ \A h \in Handlers : hand[h] \in HandRow
  BY DEF LoginInv, LoginShape
<1>3. now' \in Nat /\ \A v \in Nat : v <= now => v <= now'
  BY <1>1, <1>2
<1>4. LoginShape'
  BY <1>1, <1>3 DEF LoginInv, LoginShape
<1>5. ProviderOK(signing, withdrawn, now)'
  BY <1>1, <1>3 DEF LoginInv, ProviderOK
<1>6. TabsOK' /\ TxUnused' /\ OneUse'
  BY <1>1 DEF LoginInv, TabsOK, TxUnused, OneUse
<1>7. \A k, v : Recent(k, v, signing, withdrawn, now) => Recent(k, v, signing, withdrawn, now')
  BY <1>3 DEF Recent
<1>8. HandsOK'
  <2> SUFFICES ASSUME NEW h \in Handlers PROVE HandOK(hand[h], tab, signing, withdrawn, now')
    BY <1>1 DEF HandsOK
  <2>1. hand[h] \in HandRow /\ HandOK(hand[h], tab, signing, withdrawn, now) /\ hand[h].since \in Nat
    BY <1>2 DEF LoginInv, HandsOK, HandRow
  <2>2. hand[h].at \in {"asked", "answered"} => hand[h].since <= now' /\ now' - hand[h].since <= FetchTime
    BY <1>1, <1>2, <2>1, Times DEF HandOK, Tick
  <2> QED BY <1>7, <2>1, <2>2 DEF HandOK
<1>9. CachesOK'
  <2>1. \A c \in Clients : cache[c].at \in Nat
    BY DEF LoginInv, LoginShape, CacheRow
  <2> QED BY <1>1, <1>3, <2>1 DEF LoginInv, CachesOK, CacheOK
<1>10. SessionsOK'
  BY <1>1, <1>7 DEF LoginInv, SessionsOK, SessOK
<1> QED BY <1>4, <1>5, <1>6, <1>8, <1>9, <1>10 DEF LoginInv

\* A process that comes back has no handlers and no caches.
LEMMA DeployStep == ASSUME LoginInv, NEW p \in Procs, Deploy(p) PROVE LoginInv'
<1>1. now' = now /\ signing' = signing /\ withdrawn' = withdrawn /\ tab' = tab /\ tx' = tx
      /\ txCookie' = txCookie /\ sess' = sess
  BY DEF Deploy, provider, browser
<1>2. PICK killed : killed = [NoHand EXCEPT !.at = "killed"]
  OBVIOUS
<1>3. killed \in HandRow /\ killed.at = "killed"
  BY <1>2 DEF NoHand, HandRow, Stages
<1>4. \A h \in Handlers : hand'[h] = killed \/ hand'[h] = hand[h]
  BY <1>2 DEF Deploy
<1>5. \A c \in Clients : cache'[c] = NoCache \/ cache'[c] = cache[c]
  BY DEF Deploy
<1>6. hand' \in [Handlers -> HandRow]
  BY <1>2, <1>3 DEF Deploy, LoginInv, LoginShape
<1>7. cache' \in [Clients -> CacheRow]
  BY BlankLoginRows DEF Deploy, LoginInv, LoginShape
<1>8. LoginShape'
  BY <1>1, <1>6, <1>7 DEF LoginInv, LoginShape
<1>9. killed.at \notin Past /\ killed.at \notin WithKey
      /\ HandOK(killed, tab, signing, withdrawn, now)
  BY <1>3 DEF Past, WithKey, HandOK
<1>10. ProviderOK(signing, withdrawn, now)' /\ TabsOK' /\ SessionsOK'
  BY <1>1 DEF LoginInv, ProviderOK, TabsOK, SessionsOK
<1>11. TxUnused' /\ OneUse'
  BY <1>1, <1>4, <1>9 DEF LoginInv, TxUnused, OneUse
<1>12. HandsOK'
  BY <1>1, <1>4, <1>9 DEF LoginInv, HandsOK
<1>13. CachesOK'
  BY <1>1, <1>5 DEF LoginInv, CachesOK, CacheOK, NoCache
<1> QED BY <1>8, <1>10, <1>11, <1>12, <1>13 DEF LoginInv

-----------------------------------------------------------------------------
(* Login as a whole. *)

\* Nothing has happened yet.
LEMMA InitLogin == Init => LoginInv
<1> SUFFICES ASSUME Init PROVE LoginInv
  OBVIOUS
<1>1. LoginShape
  BY BlankLoginRows, Times, LoginAssumption DEF Init, LoginShape
<1>2. ProviderOK(signing, withdrawn, now)
  <2>1. signing = 1 /\ \A k \in 1..MaxKeys : withdrawn[k] = None /\ ~(k < 1)
    BY Times DEF Init
  <2> QED BY <2>1 DEF ProviderOK
<1>3. \A h \in Handlers : hand[h].at = "none"
  BY DEF Init, NoHand
<1>4. TabsOK /\ TxUnused /\ OneUse
  BY <1>3 DEF TabsOK, TxUnused, OneUse, Past, Init, NoTab
<1>5. HandsOK
  BY <1>3 DEF HandsOK, HandOK, WithKey
<1>6. CachesOK /\ SessionsOK
  BY DEF CachesOK, CacheOK, SessionsOK, SessOK, Init, NoCache
<1> QED BY <1>1, <1>2, <1>4, <1>5, <1>6 DEF LoginInv

\* Every step keeps the invariant.
LEMMA NextLogin == LoginInv /\ [Next]_vars => LoginInv'
<1> SUFFICES ASSUME LoginInv, [Next]_vars PROVE LoginInv'
  OBVIOUS
<1>1. CASE \E i \in Tabs, s \in Surfaces : Begin(i, s)
  BY <1>1, BeginStep
<1>2. CASE \E i \in Tabs : CallbackError(i)
  BY <1>2, CallbackErrorStep
<1>3. CASE \E i \in Tabs, h \in Handlers, p \in Procs : Callback(h, i, p)
  BY <1>3, CallbackStep
<1>4. CASE \E p \in Procs, s \in Surfaces : Request(p, s) \/ Logout(p, s)
  <2>1. UNCHANGED <<now, provider, tab, tx, txCookie, cache, hand, sess>>
    BY <1>4 DEF Request, Logout, browser
  <2> QED BY <2>1, SessionsAside
<1>5. CASE \E h \in Handlers : Handle(h)
  <2>1. PICK h \in Handlers : Handle(h)
    BY <1>5
  <2>2. CASE Take(h) BY <2>2, TakeStep
  <2>3. CASE Exchange(h) BY <2>3, ExchangeStep
  <2>4. CASE CachedKeys(h) BY <2>4, CachedKeysStep
  <2>5. CASE Ask(h) BY <2>5, AskStep
  <2>6. CASE Answered(h) BY <2>6, AnsweredStep
  <2>7. CASE Receive(h) BY <2>7, ReceiveStep
  <2>8. CASE AskFails(h) BY <2>8, AskFailsStep
  <2>9. CASE Admit(h) BY <2>9, AdmitStep
  <2>10. CASE Create(h) BY <2>10, CreateStep
  <2> QED BY <2>1, <2>2, <2>3, <2>4, <2>5, <2>6, <2>7, <2>8, <2>9, <2>10 DEF Handle
<1>6. CASE \E p \in Procs : Deploy(p)
  BY <1>6, DeployStep
<1>7. CASE Rotate
  BY <1>7, RotateStep
<1>8. CASE Tick
  BY <1>8, TickStep
<1>9. CASE UNCHANGED vars
  <2>1. UNCHANGED <<now, provider, tab, tx, txCookie, cache, hand, sess>>
    BY <1>9 DEF vars, provider
  <2> QED BY <2>1, SessionsAside
<1> QED BY <1>1, <1>2, <1>3, <1>4, <1>5, <1>6, <1>7, <1>8, <1>9, Zenon DEF Next

\* The inductive invariant of Login holds throughout (auth_service.py, oidc.py):
\* transactions in Redis are of logins no callback has taken, what a process has
\* cached was published when it was loaded, and a request for keys is never older
\* than its timeout.
THEOREM LoginInvariant == Spec => []LoginInv
<1>1. Init => LoginInv BY InitLogin
<1>2. LoginInv /\ [Next]_vars => LoginInv' BY NextLogin
<1> QED BY <1>1, <1>2, PTL DEF Spec

\* However often and whenever the callbacks of a login arrive, its code is exchanged
\* once at most (auth_service.py:140), for any number of tabs, handlers and
\* processes.
THEOREM OneExchange == Spec => []OneExchangePerLogin
<1>1. LoginInv => OneExchangePerLogin
  <2> SUFFICES ASSUME LoginInv, NEW i \in Tabs
               PROVE  Cardinality({h \in Handlers : hand[h].tab = i /\ hand[h].at \in Past}) <= 1
    BY DEF OneExchangePerLogin
  <2> DEFINE S == {h \in Handlers : hand[h].tab = i /\ hand[h].at \in Past}
  <2>1. \A g, h \in S : g = h
    BY DEF LoginInv, OneUse
  <2> HIDE DEF S
  <2>2. S = {} => Cardinality(S) <= 1
    BY FS_EmptySet
  <2>3. ASSUME NEW h \in S PROVE Cardinality(S) <= 1
    <3>1. S = {h}
      BY <2>1
    <3>2. Cardinality(S) = 1
      BY <3>1, FS_Singleton, Zenon
    <3> QED BY <3>2
  <2>4. Cardinality(S) <= 1
    BY <2>2, <2>3
  <2> QED BY <2>4 DEF S
<1> QED BY <1>1, LoginInvariant, PTL

\* The key of a token had not been withdrawn for longer than keys are cached when
\* the token was verified, whichever answers of the provider overtook each other
\* (oidc.py:167).
THEOREM KeysAreCurrent == Spec => []KeyWasCurrent
<1>1. LoginInv => KeyWasCurrent
  BY DEF LoginInv, SessionsOK, SessOK, Recent, KeyWasCurrent
<1> QED BY <1>1, LoginInvariant, PTL

\* A token is refused only when its key has been withdrawn, however old the cached
\* keys are (oidc.py:440).
THEOREM GoodKeysAreTaken == Spec => []GoodKeyIsTaken
<1>1. LoginInv => GoodKeyIsTaken
  BY DEF LoginInv, HandsOK, HandOK, GoodKeyIsTaken, At
<1> QED BY <1>1, LoginInvariant, PTL

-----------------------------------------------------------------------------
(* Catalog: where the packs of tasks come from. *)

PackRow == [manifest : Manifests \cup {"builtin"}, release : 0..MaxRelease]
WorkRow == [state : {"none", "working", "ended"}, owner : Owners \cup {Nil},
            source : SnapshotSources \cup {"builtin"}, digest : Manifests \cup {Nil},
            profile : Tasks \cup {"knowbot", Nil}, snapshot : PackRow \cup {Nil}, version : 0..MaxRelease]

CatalogShape ==
  /\ release \in 0..MaxRelease /\ work \in [Tasks -> WorkRow]
  /\ visit = [v \in Visits |-> visit[v]] /\ pin = [o \in Owners |-> pin[o]]
  /\ by = [t \in Tasks |-> by[t]] /\ asked = [t \in Tasks |-> asked[t]] /\ got = [t \in Tasks |-> got[t]]

\* The pack of a task with a snapshot is of the manifest of its row, and its pin
\* still names it.
RowOK(x, pn) ==
  x.source \in SnapshotSources =>
    /\ x.state # "none" /\ x.digest \in Manifests /\ x.snapshot.manifest = x.digest
    /\ x.source = "knowmart" => x.owner \in Owners /\ x.digest # Nil /\ pn[x.owner] = x.digest

\* What the process has cached under a name is of the manifest the name tells.
SnapshotsOK == \A k \in DOMAIN snapshots : snapshots[k].manifest = k[2]

\* What has been done for a task, from its row.
DoneOK(x, b, a, g) ==
  /\ x.state = "none" => b = {} /\ g = {} /\ a.at = "idle"
  /\ x.source \in SnapshotSources =>
       /\ \A p \in b : p.manifest = x.digest
       /\ g \subseteq {DataOf[x.digest]}
       /\ a.at = "asked" => a.data = DataOf[x.digest]

CatalogInv ==
  /\ CatalogShape /\ SnapshotsOK
  /\ \A t \in Tasks : RowOK(work[t], pin) /\ DoneOK(work[t], by[t], asked[t], got[t])

\* At first no task has been handed over.
LEMMA InitCatalog == CatalogInit => CatalogInv
<1> SUFFICES ASSUME CatalogInit PROVE CatalogInv
  OBVIOUS
<1>1. NoWork \in WorkRow /\ NoWork.source = "builtin"
  BY CatalogAssumption DEF NoWork, WorkRow
<1>2. "builtin" \notin SnapshotSources
  BY DEF SnapshotSources
<1>3. CatalogShape
  BY <1>1, CatalogAssumption DEF CatalogInit, CatalogShape
<1>4. SnapshotsOK
  BY DEF CatalogInit, SnapshotsOK
<1>5. \A t \in Tasks : RowOK(work[t], pin) /\ DoneOK(work[t], by[t], asked[t], got[t])
  BY <1>1, <1>2 DEF CatalogInit, RowOK, DoneOK, NotAsked
<1> QED BY <1>3, <1>4, <1>5 DEF CatalogInv

\* A request to pin adds a row where there was none.
LEMMA PinStep == ASSUME CatalogInv, NEW v \in Visits, PinKnowbot(v) PROVE CatalogInv'
<1>1. /\ visit' = [u \in Visits |-> visit'[u]] /\ pin' = [o \in Owners |-> pin'[o]]
      /\ work' = work /\ release' = release /\ snapshots' = snapshots /\ by' = by /\ asked' = asked
      /\ got' = got
  BY DEF PinKnowbot, CatalogInv, CatalogShape
<1>2. \A o \in Owners : pin[o] # Nil => pin'[o] = pin[o]
  BY DEF PinKnowbot, PinRow, CatalogInv, CatalogShape
<1>3. \A t \in Tasks : RowOK(work[t], pin')
  <2> SUFFICES ASSUME NEW t \in Tasks, work[t].source = "knowmart" PROVE pin'[work[t].owner] = work[t].digest
    BY DEF CatalogInv, RowOK
  <2>1. work[t].owner \in Owners /\ work[t].digest # Nil /\ pin[work[t].owner] = work[t].digest
    BY DEF CatalogInv, RowOK, SnapshotSources
  <2> QED BY <1>2, <2>1
<1> QED BY <1>1, <1>3 DEF CatalogInv, CatalogShape, SnapshotsOK

\* A task that is handed over with a row that is in order.
LEMMA HandOverStep ==
  ASSUME CatalogInv, NEW t \in Tasks, NEW entry \in WorkRow, HandOver(t, entry), RowOK(entry, pin), entry.state # "none"
  PROVE  CatalogInv'
<1>1. /\ visit' = visit /\ pin' = pin /\ release' = release /\ snapshots' = snapshots /\ by' = by
      /\ asked' = asked /\ got' = got /\ work[t].state = "none" /\ work' = [work EXCEPT ![t] = entry]
  BY DEF HandOver
<1>2. work' \in [Tasks -> WorkRow] /\ work'[t] = entry /\ \A u \in Tasks : u # t => work'[u] = work[u]
  BY <1>1 DEF CatalogInv, CatalogShape
<1>3. by[t] = {} /\ got[t] = {} /\ asked[t].at = "idle"
  BY <1>1 DEF CatalogInv, DoneOK
<1>4. DoneOK(entry, by[t], asked[t], got[t])
  BY <1>3 DEF DoneOK
<1> QED BY <1>1, <1>2, <1>4 DEF CatalogInv, CatalogShape, SnapshotsOK

\* Each way to hand a task over gives it such a row.
LEMMA HandOversStep ==
  ASSUME CatalogInv, NEW t \in Tasks,
         \/ HandOverBuiltin(t)
         \/ \E o \in Owners : HandOverKnowbot(t, o)
         \/ \E m \in Manifests : HandOverDraft(t, m)
  PROVE  CatalogInv'
<1>0. release \in 0..MaxRelease
  BY DEF CatalogInv, CatalogShape
<1>1. CASE HandOverBuiltin(t)
  <2>0. PICK entry : entry = [NoWork EXCEPT !.state = "working", !.version = release]
    OBVIOUS
  <2>1. entry \in WorkRow /\ entry.source = "builtin" /\ entry.state = "working"
    BY <1>0, <2>0 DEF NoWork, WorkRow
  <2>2. RowOK(entry, pin)
    BY <2>1 DEF RowOK, SnapshotSources
  <2> QED BY <1>1, <2>0, <2>1, <2>2, HandOverStep DEF HandOverBuiltin
<1>2. ASSUME NEW o \in Owners, HandOverKnowbot(t, o) PROVE CatalogInv'
  <2>1. pin[o] # Nil /\ <<pin[o], release>> \in Manifests \X (0..MaxRelease)
    BY <1>2, CatalogAssumption DEF HandOverKnowbot, MayRun
  <2>2. PICK m \in Manifests : m = pin[o] /\ m # Nil
    BY <2>1
  <2>3. PICK pack : pack = [manifest |-> m, release |-> release]
    OBVIOUS
  <2>4. PICK entry : entry = [state |-> "working", owner |-> o, source |-> "knowmart", digest |-> m,
                         profile |-> "knowbot", snapshot |-> pack, version |-> 0]
    OBVIOUS
  <2>5. pack \in PackRow /\ pack.manifest = m
    BY <1>0, <2>3 DEF PackRow
  <2>6. entry \in WorkRow /\ entry.state # "none"
    BY <2>4, <2>5, CatalogAssumption DEF WorkRow, SnapshotSources
  <2>7. RowOK(entry, pin)
    BY <2>2, <2>4, <2>5 DEF RowOK
  <2>8. HandOver(t, entry)
    BY <1>2, <2>2, <2>3, <2>4 DEF HandOverKnowbot, PackFromManifest
  <2> QED BY <2>6, <2>7, <2>8, HandOverStep
<1>3. ASSUME NEW m \in Manifests, HandOverDraft(t, m) PROVE CatalogInv'
  <2>3. PICK pack : pack = [manifest |-> m, release |-> release]
    OBVIOUS
  <2>4. PICK entry : entry = [state |-> "working", owner |-> Nil, source |-> "knowlab-test", digest |-> m,
                         profile |-> t, snapshot |-> pack, version |-> 0]
    OBVIOUS
  <2>5. pack \in PackRow /\ pack.manifest = m
    BY <1>0, <2>3 DEF PackRow
  <2>6. entry \in WorkRow /\ entry.state # "none"
    BY <2>4, <2>5, CatalogAssumption DEF WorkRow, SnapshotSources
  <2>7. RowOK(entry, pin)
    BY <2>4, <2>5 DEF RowOK
  <2>8. HandOver(t, entry)
    BY <1>3, <2>3, <2>4 DEF HandOverDraft, PackFromManifest
  <2> QED BY <2>6, <2>7, <2>8, HandOverStep
<1> QED BY <1>1, <1>2, <1>3

\* The cache of the process answers for the manifest of the task.
LEMMA LoadedIsOwn ==
  ASSUME CatalogInv, NEW t \in Tasks, work[t].source \in SnapshotSources
  PROVE  /\ \A k \in DOMAIN Loaded(t) : Loaded(t)[k].manifest = k[2]
         /\ PackForTask(t).manifest = work[t].digest
<1> DEFINE key == SnapshotKey(t)
<1>1. key[2] = work[t].digest /\ work[t].snapshot.manifest = work[t].digest
  BY DEF SnapshotKey, CatalogInv, RowOK
<1>2. \A k \in DOMAIN snapshots : snapshots[k].manifest = k[2]
  BY DEF CatalogInv, SnapshotsOK
<1>3. \A k \in DOMAIN Kept : Kept[k].manifest = k[2]
  BY <1>2 DEF Kept
<1> HIDE DEF key
<1>4. Loaded(t) = IF key \in DOMAIN snapshots THEN snapshots
                  ELSE [k \in DOMAIN Kept \cup {key} |->
                          IF k \in DOMAIN Kept THEN Kept[k] ELSE work[t].snapshot]
  BY Zenon DEF Loaded, key
<1>5. key \in DOMAIN Loaded(t) /\ \A k \in DOMAIN Loaded(t) : Loaded(t)[k].manifest = k[2]
  <2>1. CASE key \in DOMAIN snapshots
    BY <1>2, <1>4, <2>1
  <2>2. CASE key \notin DOMAIN snapshots
    BY <1>1, <1>3, <1>4, <2>2
  <2> QED BY <2>1, <2>2
<1>6. PackForTask(t) = Loaded(t)[key]
  BY DEF PackForTask, key
<1> QED BY <1>1, <1>5, <1>6

\* Whatever looks at a task reads the pack of its manifest.
LEMMA ConsultStep == ASSUME CatalogInv, NEW t \in Tasks, Consult(t) PROVE CatalogInv'
<1>1. /\ visit' = visit /\ pin' = pin /\ release' = release /\ work' = work /\ asked' = asked
      /\ got' = got /\ work[t].state # "none"
  BY DEF Consult
<1>2. /\ by' = [u \in Tasks |-> by'[u]] /\ by'[t] = by[t] \cup {PackForTask(t)}
      /\ \A u \in Tasks : u # t => by'[u] = by[u]
  BY DEF Consult, CatalogInv, CatalogShape
<1>3. SnapshotsOK'
  <2>1. CASE work[t].source \in SnapshotSources
    <3>1. snapshots' = Loaded(t)
      BY <2>1 DEF Consult
    <3> QED BY <2>1, <3>1, LoadedIsOwn DEF SnapshotsOK
  <2>2. CASE work[t].source \notin SnapshotSources
    BY <2>2 DEF Consult, SnapshotsOK, CatalogInv
  <2> QED BY <2>1, <2>2
<1>4. DoneOK(work[t], by'[t], asked[t], got[t])
  <2>1. DoneOK(work[t], by[t], asked[t], got[t])
    BY DEF CatalogInv
  <2>2. work[t].source \in SnapshotSources => PackForTask(t).manifest = work[t].digest
    BY LoadedIsOwn
  <2> QED BY <1>1, <1>2, <2>1, <2>2 DEF DoneOK
<1>5. CatalogShape'
  BY <1>1, <1>2 DEF CatalogInv, CatalogShape
<1> QED BY <1>1, <1>2, <1>3, <1>4, <1>5 DEF CatalogInv

\* A task that ends keeps its pack.
LEMMA EndTaskStep == ASSUME CatalogInv, NEW t \in Tasks, EndTask(t) PROVE CatalogInv'
<1>1. /\ visit' = visit /\ pin' = pin /\ release' = release /\ snapshots' = snapshots /\ by' = by
      /\ asked' = asked /\ got' = got /\ work[t].state = "working"
      /\ work' = [work EXCEPT ![t].state = "ended"] /\ work[t] \in WorkRow
  BY DEF EndTask, CatalogInv, CatalogShape
<1>2. PICK entry : entry = [work[t] EXCEPT !.state = "ended"]
  OBVIOUS
<1>3. entry \in WorkRow /\ entry.state = "ended" /\ entry.source = work[t].source /\ entry.digest = work[t].digest
      /\ entry.owner = work[t].owner /\ entry.snapshot = work[t].snapshot
  BY <1>1, <1>2 DEF WorkRow
<1>4. work' = [work EXCEPT ![t] = entry]
  BY <1>1, <1>2
<1>5. work' \in [Tasks -> WorkRow] /\ work'[t] = entry /\ \A u \in Tasks : u # t => work'[u] = work[u]
  BY <1>3, <1>4 DEF CatalogInv, CatalogShape
<1>6. RowOK(entry, pin) /\ DoneOK(entry, by[t], asked[t], got[t])
  BY <1>3 DEF CatalogInv, RowOK, DoneOK
<1> QED BY <1>1, <1>5, <1>6 DEF CatalogInv, CatalogShape, SnapshotsOK

\* What is asked for a task, and handed to it, is what its manifest binds.
LEMMA DataStep ==
  ASSUME CatalogInv, NEW t \in Tasks, AskData(t) \/ \E d \in DataVersions : ReceiveData(t, d)
  PROVE  CatalogInv'
<1>1. /\ visit' = visit /\ pin' = pin /\ release' = release /\ snapshots' = snapshots /\ by' = by
      /\ work' = work
  BY DEF AskData, ReceiveData
<1>2. /\ asked' = [u \in Tasks |-> asked'[u]] /\ got' = [u \in Tasks |-> got'[u]]
      /\ \A u \in Tasks : u # t => asked'[u] = asked[u] /\ got'[u] = got[u]
  BY DEF AskData, ReceiveData, CatalogInv, CatalogShape
<1>3. DoneOK(work[t], by[t], asked[t], got[t]) /\ RowOK(work[t], pin)
  BY DEF CatalogInv
<1>4. DoneOK(work[t], by[t], asked'[t], got'[t])
  <2>1. CASE AskData(t)
    <3>1. got'[t] = got[t] /\ asked'[t].at = "asked" /\ asked'[t].data = Scope(t) /\ Scope(t) # Nil
      BY <2>1 DEF AskData, CatalogInv, CatalogShape
    <3>2. work[t].state = "working"
      BY <3>1 DEF Scope
    <3>3. work[t].source \in SnapshotSources => Scope(t) = DataOf[work[t].digest]
      BY <1>3, <3>1, <3>2 DEF Scope, RowOK, SnapshotSources
    <3> QED BY <1>3, <3>1, <3>2, <3>3 DEF DoneOK
  <2>2. ASSUME NEW d \in DataVersions, ReceiveData(t, d) PROVE DoneOK(work[t], by[t], asked'[t], got'[t])
    <3>1. asked[t].at = "asked" /\ asked'[t].at = "idle"
          /\ got'[t] = IF d = asked[t].data THEN got[t] \cup {d} ELSE got[t]
      BY <2>2 DEF ReceiveData, NotAsked, CatalogInv, CatalogShape
    <3> QED BY <1>3, <3>1 DEF DoneOK
  <2> QED BY <2>1, <2>2
<1>5. CatalogShape'
  BY <1>1, <1>2 DEF CatalogInv, CatalogShape
<1> QED BY <1>1, <1>2, <1>4, <1>5 DEF CatalogInv, SnapshotsOK

\* Every step of the catalog keeps the invariant.
LEMMA NextCatalog == CatalogInv /\ [CatalogNext]_catalogVars => CatalogInv'
<1> SUFFICES ASSUME CatalogInv, [CatalogNext]_catalogVars PROVE CatalogInv'
  OBVIOUS
<1>1. CASE \E m \in Manifests : Republish(m)
  BY <1>1 DEF Republish, CatalogInv, CatalogShape, SnapshotsOK
<1>2. CASE \E v \in Visits : PinKnowbot(v) \/ \E o \in Owners : Summon(v, o)
  <2>1. ASSUME NEW v \in Visits, NEW o \in Owners, Summon(v, o) PROVE CatalogInv'
    BY <2>1 DEF Summon, CatalogInv, CatalogShape, SnapshotsOK
  <2> QED BY <1>2, <2>1, PinStep
<1>3. CASE \E t \in Tasks : \/ HandOverBuiltin(t)
                            \/ \E o \in Owners : HandOverKnowbot(t, o)
                            \/ \E m \in Manifests : HandOverDraft(t, m)
  BY <1>3, HandOversStep
<1>4. CASE \E t \in Tasks : Consult(t) \/ EndTask(t) \/ AskData(t) \/ \E d \in DataVersions : ReceiveData(t, d)
  BY <1>4, ConsultStep, EndTaskStep, DataStep
<1>5. CASE Restart
  <2>1. /\ visit' = [v \in Visits |-> visit'[v]] /\ asked' = [t \in Tasks |-> asked'[t]]
        /\ \A t \in Tasks : asked'[t].at = "idle"
    BY <1>5 DEF Restart, NotAsked
  <2>2. pin' = pin /\ work' = work /\ by' = by /\ got' = got /\ release' \in release..MaxRelease
    BY <1>5 DEF Restart
  <2>3. release' \in 0..MaxRelease
    BY <2>2, CatalogAssumption DEF CatalogInv, CatalogShape
  <2>4. SnapshotsOK'
    BY <1>5 DEF Restart, SnapshotsOK
  <2>5. \A t \in Tasks : RowOK(work[t], pin) /\ DoneOK(work[t], by[t], asked'[t], got[t])
    BY <2>1 DEF CatalogInv, DoneOK
  <2> QED BY <2>1, <2>2, <2>3, <2>4, <2>5 DEF CatalogInv, CatalogShape
<1>6. CASE UNCHANGED catalogVars
  BY <1>6 DEF catalogVars, CatalogInv, CatalogShape, SnapshotsOK
<1> QED BY <1>1, <1>2, <1>3, <1>4, <1>5, <1>6, Zenon DEF CatalogNext

\* The inductive invariant of Catalog holds throughout (catalog.py): the row of a
\* task, its pin and every snapshot a process has cached agree on the manifest.
THEOREM CatalogInvariant == CatalogSpec => []CatalogInv
<1>1. CatalogInit => CatalogInv BY InitCatalog
<1>2. CatalogInv /\ [CatalogNext]_catalogVars => CatalogInv' BY NextCatalog
<1> QED BY <1>1, <1>2, PTL DEF CatalogSpec

-----------------------------------------------------------------------------
(* Library. *)

\* Every step of the library is a step of the catalog, or leaves it alone.
LEMMA LibraryStepIsCatalog == [LibraryNext]_allVars => [CatalogNext]_catalogVars
<1> SUFFICES ASSUME [LibraryNext]_allVars PROVE [CatalogNext]_catalogVars
  OBVIOUS
<1>1. ASSUME NEW t \in Tasks, LeaveAttempt(t) PROVE CatalogNext
  BY <1>1 DEF LeaveAttempt, CatalogNext
<1>2. ASSUME NEW t \in Tasks, OpenAttempt(t) \/ \E x \in Texts : PutArtifact(t, x)
      PROVE UNCHANGED catalogVars
  BY <1>2 DEF OpenAttempt, PutArtifact
<1>3. ASSUME NEW i \in Items, NEW n \in 1..MaxVersions, Read(i, n) PROVE UNCHANGED catalogVars
  BY <1>3 DEF Read
<1>4. ASSUME NEW e \in Edits, PutOverlay(e) \/ \E i \in Items, title \in Titles \cup {Nil} : FindItem(e, i, title)
      PROVE UNCHANGED catalogVars
  BY <1>4 DEF PutOverlay, FindItem
<1>5. CASE UNCHANGED allVars
  BY <1>5 DEF allVars
<1> QED BY <1>1, <1>2, <1>3, <1>4, <1>5, Zenon DEF LibraryNext

\* The library is a catalog to whoever looks at packs only (library.py:201).
THEOREM LibraryIsCatalog == LibrarySpec => CatalogSpec
<1>1. LibraryInit => CatalogInit BY DEF LibraryInit
<1>2. [LibraryNext]_allVars => [CatalogNext]_catalogVars BY LibraryStepIsCatalog
<1> QED BY <1>1, <1>2, PTL DEF LibrarySpec, CatalogSpec

\* A task with a snapshot is worked on by the manifest that was pinned when it was
\* handed over, its pin still says so, and it gets the data of that manifest only
\* (catalog.py:51 and 90), for any number of users, requests and restarts, beside
\* everything the library does.
THEOREM TasksKeepTheirManifest == LibrarySpec => []ByItsOwnManifest
<1>1. CatalogInv => ByItsOwnManifest
  BY DEF CatalogInv, RowOK, DoneOK, ByItsOwnManifest
<1> QED BY <1>1, CatalogInvariant, LibraryIsCatalog, PTL

LibraryShape ==
  /\ artifacts \in [Tasks -> Seq(Texts)]
  /\ overlay \in [Items -> [title : Titles \cup {Nil}, deleted : BOOLEAN]]
  /\ edit = [e \in Edits |-> edit[e]]
  /\ \A e \in Edits : edit[e].title \in Titles \cup {Nil}

\* A citation of a deliverable names a version that is there, and its text.
CiteOK(c, rows) ==
  c.item[1] = "deliverable" =>
    /\ c.item[2] \in Tasks /\ c.version \in 1..Len(rows[c.item[2]])
    /\ c.digest = rows[c.item[2]][c.version]

LibraryInv == LibraryShape /\ \A c \in cited : CiteOK(c, artifacts)

\* At first nothing has been delivered or cited.
LEMMA InitLibrary == LibraryInit => LibraryInv
<1> SUFFICES ASSUME LibraryInit PROVE LibraryInv
  OBVIOUS
<1>1. NoRow \in [title : Titles \cup {Nil}, deleted : BOOLEAN] /\ NoEdit.title = Nil
  BY DEF NoRow, NoEdit
<1>2. <<>> \in Seq(Texts)
  BY EmptySeq
<1>3. LibraryShape
  BY <1>1, <1>2 DEF LibraryInit, LibraryShape
<1> QED BY <1>3 DEF LibraryInit, LibraryInv

\* A delivery adds a version.
LEMMA PutArtifactStep ==
  ASSUME LibraryInv, NEW t \in Tasks, NEW x \in Texts, PutArtifact(t, x) PROVE LibraryInv'
<1>1. artifacts \in [Tasks -> Seq(Texts)] /\ overlay' = overlay /\ edit' = edit /\ cited' = cited
  BY DEF LibraryInv, LibraryShape, PutArtifact
<1>2. PICK s \in Seq(Texts) : s = artifacts[t]
  BY <1>1
<1>3. PICK n : n = Len(s) + 1
  OBVIOUS
<1>4. PICK r : r = [k \in 1..n |-> IF k = n THEN x ELSE s[k]]
  OBVIOUS
<1>5. artifacts' = [artifacts EXCEPT ![t] = r]
  BY <1>2, <1>3, <1>4 DEF PutArtifact, NextVersion
<1>6. r \in Seq(Texts) /\ Len(r) = Len(artifacts[t]) + 1 /\ \A k \in 1..Len(artifacts[t]) : r[k] = artifacts[t][k]
  <2>1. n \in Nat /\ Len(s) \in Nat /\ \A k \in 1..n : k # n => s[k] \in Texts
    BY <1>3
  <2>2. r \in [1..n -> Texts]
    BY <1>4, <2>1
  <2>3. r \in Seq(Texts) /\ Len(r) = n
    BY <2>1, <2>2, IsASeq, LenProperties
  <2>4. \A k \in 1..Len(s) : r[k] = s[k]
    BY <1>3, <1>4, <2>1
  <2> QED BY <1>2, <1>3, <2>3, <2>4
<1>7. /\ artifacts' \in [Tasks -> Seq(Texts)] /\ artifacts'[t] = r
      /\ \A u \in Tasks : u # t => artifacts'[u] = artifacts[u]
  BY <1>1, <1>5, <1>6
<1>8. \A c : CiteOK(c, artifacts) => CiteOK(c, artifacts')
  <2> SUFFICES ASSUME NEW c, CiteOK(c, artifacts), c.item[1] = "deliverable"
               PROVE  /\ c.item[2] \in Tasks /\ c.version \in 1..Len(artifacts'[c.item[2]])
                      /\ c.digest = artifacts'[c.item[2]][c.version]
    BY DEF CiteOK
  <2>1. /\ c.item[2] \in Tasks /\ c.version \in 1..Len(artifacts[c.item[2]])
        /\ c.digest = artifacts[c.item[2]][c.version]
    BY DEF CiteOK
  <2>2. CASE c.item[2] = t
    <3>1. Len(artifacts[t]) \in Nat
      BY <1>1
    <3> QED BY <1>6, <1>7, <2>1, <2>2, <3>1
  <2>3. CASE c.item[2] # t
    BY <1>7, <2>1, <2>3
  <2> QED BY <2>2, <2>3
<1> QED BY <1>1, <1>7, <1>8 DEF LibraryInv, LibraryShape

\* What a step is given, and what is read, is cited by its version.
LEMMA CiteStep ==
  ASSUME LibraryInv, \/ \E t \in Tasks : OpenAttempt(t)
                     \/ \E i \in Items, n \in 1..MaxVersions : Read(i, n)
  PROVE  LibraryInv'
<1>1. artifacts' = artifacts /\ overlay' = overlay /\ edit' = edit
  BY DEF OpenAttempt, Read
<1>2. artifacts \in [Tasks -> Seq(Texts)]
  BY DEF LibraryInv, LibraryShape
<1>3. ASSUME NEW t \in Tasks, OpenAttempt(t), NEW c \in cited' PROVE CiteOK(c, artifacts)
  <2>1. CASE c \in cited
    BY <2>1 DEF LibraryInv
  <2>2. CASE c \notin cited
    <3>1. /\ artifacts[t] # <<>>
          /\ c = [item |-> <<"deliverable", t>>, version |-> Len(artifacts[t]),
                  digest |-> artifacts[t][Len(artifacts[t])]]
      BY <1>3, <2>2 DEF OpenAttempt
    <3>2. artifacts[t] \in Seq(Texts) /\ Len(artifacts[t]) \in 1..Len(artifacts[t])
      BY <1>2, <3>1
    <3>3. c.item[1] = "deliverable" /\ c.item[2] = t /\ c.version = Len(artifacts[t])
          /\ c.digest = artifacts[t][c.version]
      BY <3>1
    <3> QED BY <3>2, <3>3 DEF CiteOK
  <2> QED BY <2>1, <2>2
<1>4. ASSUME NEW i \in Items, NEW n \in 1..MaxVersions, Read(i, n), NEW c \in cited'
      PROVE  CiteOK(c, artifacts)
  <2>1. CASE c \in cited
    BY <2>1 DEF LibraryInv
  <2>2. CASE c \notin cited
    <3>1. n \in VersionsOf(i) /\ c = [item |-> i, version |-> n, digest |-> TextOf(i, n)]
      BY <1>4, <2>2 DEF Read
    <3>2. c.item = i /\ c.version = n /\ c.digest = TextOf(i, n) /\ i[2] \in Tasks
      BY <3>1 DEF Items
    <3>3. CASE i[1] = "deliverable"
      <4>1. c.digest = artifacts[i[2]][n] /\ n \in DOMAIN artifacts[i[2]]
        BY <3>1, <3>2, <3>3 DEF TextOf, VersionsOf
      <4>2. DOMAIN artifacts[i[2]] = 1..Len(artifacts[i[2]])
        BY <1>2, <3>2
      <4> QED BY <3>2, <4>1, <4>2 DEF CiteOK
    <3>4. CASE i[1] # "deliverable"
      BY <3>2, <3>4 DEF CiteOK
    <3> QED BY <3>3, <3>4
  <2> QED BY <2>1, <2>2
<1>5. \A c \in cited' : CiteOK(c, artifacts)
  BY <1>3, <1>4
<1> QED BY <1>1, <1>5 DEF LibraryInv, LibraryShape

\* A request to rename or remove finds its item, or writes.
LEMMA EditStep ==
  ASSUME LibraryInv, NEW e \in Edits,
         PutOverlay(e) \/ \E i \in Items, title \in Titles \cup {Nil} : FindItem(e, i, title)
  PROVE  LibraryInv' /\ \A i \in Items : overlay[i].deleted => overlay'[i].deleted
<1>0. /\ overlay \in [Items -> [title : Titles \cup {Nil}, deleted : BOOLEAN]]
      /\ edit = [d \in Edits |-> edit[d]] /\ \A d \in Edits : edit[d].title \in Titles \cup {Nil}
  BY DEF LibraryInv, LibraryShape
<1>1. artifacts' = artifacts /\ cited' = cited
  BY DEF PutOverlay, FindItem
<1>2. edit' = [d \in Edits |-> edit'[d]] /\ \A d \in Edits : edit'[d].title \in Titles \cup {Nil}
  <2>1. CASE PutOverlay(e)
    BY <1>0, <2>1 DEF PutOverlay, NoEdit
  <2>2. ASSUME NEW i \in Items, NEW title \in Titles \cup {Nil}, FindItem(e, i, title)
        PROVE  edit' = [d \in Edits |-> edit'[d]] /\ \A d \in Edits : edit'[d].title \in Titles \cup {Nil}
    BY <1>0, <2>2 DEF FindItem
  <2> QED BY <2>1, <2>2
<1>3. /\ overlay' \in [Items -> [title : Titles \cup {Nil}, deleted : BOOLEAN]]
      /\ \A i \in Items : overlay[i].deleted => overlay'[i].deleted
  <2>1. CASE PutOverlay(e)
    <3> DEFINE i == edit[e].item
    <3>1. PICK title \in Titles \cup {Nil} : title = edit[e].title
      BY <1>0
    <3>2. PICK entry : entry = Merged(overlay[i], title)
      OBVIOUS
    <3>3. overlay' = [overlay EXCEPT ![i] = entry]
      BY <2>1, <3>1, <3>2 DEF PutOverlay
    <3>4. CASE i \in Items
      <4>1. overlay[i] \in [title : Titles \cup {Nil}, deleted : BOOLEAN]
        BY <1>0, <3>4
      <4>2. entry \in [title : Titles \cup {Nil}, deleted : BOOLEAN]
            /\ (overlay[i].deleted => entry.deleted)
        <5>1. CASE title = Nil
          <6>1. entry = [overlay[i] EXCEPT !.deleted = TRUE]
            BY <3>2, <5>1 DEF Merged
          <6> QED BY <4>1, <6>1
        <5>2. CASE title # Nil
          <6>1. entry = [overlay[i] EXCEPT !.title = title]
            BY <3>2, <5>2 DEF Merged
          <6> QED BY <4>1, <6>1
        <5> QED BY <5>1, <5>2
      <4> QED BY <1>0, <3>3, <3>4, <4>2
    <3>5. CASE i \notin Items
      BY <1>0, <3>3, <3>5
    <3> QED BY <3>4, <3>5
  <2>2. ASSUME NEW i \in Items, NEW title \in Titles \cup {Nil}, FindItem(e, i, title)
        PROVE  overlay' = overlay
    BY <2>2 DEF FindItem
  <2> QED BY <1>0, <2>1, <2>2
<1> QED BY <1>0, <1>1, <1>2, <1>3 DEF LibraryInv, LibraryShape

\* Every step of the library keeps its invariant, and what was removed.
LEMMA NextLibrary ==
  LibraryInv /\ [LibraryNext]_allVars =>
    LibraryInv' /\ \A i \in Items : overlay[i].deleted => overlay'[i].deleted
<1> DEFINE Both == LibraryInv' /\ \A i \in Items : overlay[i].deleted => overlay'[i].deleted
<1> SUFFICES ASSUME LibraryInv, [LibraryNext]_allVars PROVE Both
  OBVIOUS
<1>0. ASSUME artifacts' = artifacts, overlay' = overlay, edit' = edit, cited' = cited PROVE Both
  BY <1>0 DEF LibraryInv, LibraryShape
<1>1. CASE UNCHANGED libraryVars
  BY <1>0, <1>1 DEF libraryVars
<1>2. ASSUME NEW t \in Tasks, LeaveAttempt(t) PROVE Both
  BY <1>0, <1>2 DEF LeaveAttempt
<1>3. ASSUME NEW t \in Tasks, NEW x \in Texts, PutArtifact(t, x) PROVE Both
  BY <1>3, PutArtifactStep DEF PutArtifact
<1>4. CASE \/ \E t \in Tasks : OpenAttempt(t)
           \/ \E i \in Items, n \in 1..MaxVersions : Read(i, n)
  <2>1. overlay' = overlay
    BY <1>4 DEF OpenAttempt, Read
  <2> QED BY <1>4, <2>1, CiteStep
<1>5. ASSUME NEW e \in Edits, PutOverlay(e) \/ \E i \in Items, title \in Titles \cup {Nil} : FindItem(e, i, title)
      PROVE  Both
  BY <1>5, EditStep
<1>6. CASE UNCHANGED allVars
  BY <1>1, <1>6 DEF allVars
<1> HIDE DEF Both
<1> QED BY <1>1, <1>2, <1>3, <1>4, <1>5, <1>6, Zenon DEF LibraryNext

\* The inductive invariant of Library holds throughout (library.py,
\* repository.py:1100): every citation of a deliverable names a version that is
\* there.
THEOREM LibraryInvariant == LibrarySpec => []LibraryInv
<1>1. LibraryInit => LibraryInv BY InitLibrary
<1>2. LibraryInv /\ [LibraryNext]_allVars => LibraryInv' BY NextLibrary
<1> QED BY <1>1, <1>2, PTL DEF LibrarySpec

\* A deliverable that has been cited, or given to a later step, is what its version
\* says for good (repository.py:1100 and library.py:257), for any number of tasks
\* and versions.
THEOREM CitationsHold == LibrarySpec => []CitationHolds
<1>1. LibraryInv => CitationHolds
  BY DEF LibraryInv, CiteOK, CitationHolds, TextOf
<1> QED BY <1>1, LibraryInvariant, PTL

\* What the user has removed stays out of the library, also when a request to rename
\* it has found it before (library.py:229).
THEOREM WhatWasRemovedStaysSo == LibrarySpec => RemovedStaysRemoved
<1>1. LibraryInv /\ [LibraryNext]_allVars =>
        [\A i \in Items : overlay[i].deleted => overlay'[i].deleted]_allVars
  BY NextLibrary
<1> QED BY <1>1, LibraryInvariant, PTL DEF LibrarySpec, RemovedStaysRemoved

-----------------------------------------------------------------------------
(* The pages of a task: the inductive invariant behind PageIsTrue, in parts. *)

TaskState == {"QUEUED", "RUNNING", "WAITING"} \cup Ended
TaskRow == [state : TaskState, why : {"", "resource", "tool_approval", "input", "environment"},
            step : 0..Steps, active : Nat, used : Nat, limit : Nat \cup {NoCap}, cancel : BOOLEAN]
Codes == {"", "acceptance", "cancelled", "stopped", "error", "lost"}
TryRow == [step : Index,
           status : {"RUNNING", "COMPLETED", "FAILED", "BUDGET_EXCEEDED", "CANCELLED"},
           code : Codes, charged : Nat, cost : Nat]
EventTypes == {"step/started", "turn/started", "usage", "turn/completed", "step/accepted",
               "step/rejected", "data.missing", "step/went_back"}
Reasons == Ended \X {"", "user", "error", "user stopped"}
LogRow == [type : EventTypes, try : Nat, n : Nat] \cup [type : {"task/state"}, try : Nat, n : Reasons]
AskRow == [status : {"none", "pending", "consumed", "cancelled"},
           kind : {"", "resource", "tool_approval", "input"}, step : Nat, missing : BOOLEAN, late : BOOLEAN,
           stale : BOOLEAN]

AtTry == {"announce", "begin", "turn"} \cup Results
Phases == AtTry \cup
  {"off", "step", "after stopped", "after error", "after lost", "cancel", "accept", "reject bad",
   "reject no_data", "requeue", "finish", "judge", "no_data event", "no_data question", "question"}

DeskShape ==
  /\ row \in TaskRow /\ tries \in Seq(TryRow) /\ log \in Seq(LogRow)
  /\ latest \in [Index -> Nat] /\ ask \in AskRow /\ phase \in Phases /\ asks \in Nat /\ deaths \in Nat
  /\ ask.kind = "resource" => row.limit # NoCap

\* The attempt a driver is at is the last one, of the step of the cursor.
AtLast(ph, rw, ts) ==
  /\ ph \in AtTry \cup {"accept"} => Len(ts) > 0 /\ rw.step \in Index /\ ts[Len(ts)].step = rw.step
  /\ ph = "finish" => rw.step = Steps

\* A step is done: it has a deliverable and its last attempt was accepted.
DoneStep(k, ts, lt) ==
  /\ lt[k] # 0
  /\ \E i \in 1..Len(ts) : /\ ts[i].step = k /\ ts[i].status = "COMPLETED"
                           /\ \A j \in 1..Len(ts) : ts[j].step = k => j <= i
\* The steps before the cursor are done, and the one that is being accepted.
StepsDone(rw, ph, ts, lt) ==
  /\ \A k \in Index : k < rw.step => DoneStep(k, ts, lt)
  /\ ph = "accept" => ts[Len(ts)].status = "COMPLETED" /\ lt[rw.step] # 0
\* Who has succeeded has done all steps, and nobody drives it any more.
SucceededRests(rw, ph) == rw.state = "SUCCEEDED" => ph = "off" /\ rw.step = Steps

\* What a task has used is no more than its attempts have cost, and the one that is still
\* to be charged is not in it.
Covered(rw, ts) ==
  /\ rw.used <= CostOf(ts)[Len(ts)]
  /\ rw.active # 0 => rw.active <= Len(ts) /\ rw.used <= CostOf(ts)[rw.active - 1]
UsedIsCovered(rw, ph, ts) ==
  /\ Covered(rw, ts)
  /\ rw.active # 0 => rw.active = Len(ts)
  /\ ph \in AtTry => rw.used <= CostOf(ts)[Len(ts) - 1]

\* The reports after the latest start are of its attempt, and no more than it costs.
LastStart(j, lg) ==
  /\ j \in 1..Len(lg) /\ lg[j].type = "step/started"
  /\ \A i \in 1..Len(lg) : lg[i].type = "step/started" => i <= j
ReportsFit(lg, ts) ==
  \A j \in 1..Len(lg) : LastStart(j, lg) =>
    /\ lg[j].try \in 1..Len(ts)
    /\ \A i \in 1..Len(lg) : i > j /\ lg[i].type = "usage" =>
         lg[i].n \in Nat /\ lg[i].n <= ts[lg[j].try].cost
StartIsOfLast(ph, lg, ts) ==
  ph \in {"begin", "turn"} => \A j \in 1..Len(lg) : LastStart(j, lg) => lg[j].try = Len(ts)

\* An end that was not a success has its event, and such an event has its reason.
EndTold(state, lg) ==
  state \in {"FAILED", "CANCELLED"} =>
    \E i \in 1..Len(lg) : lg[i].type = "task/state" /\ lg[i].n[1] = state
ReasonsGiven(lg) ==
  \A i \in 1..Len(lg) : lg[i].type = "task/state" =>
    lg[i].n \in Reasons /\ (lg[i].n[1] # "SUCCEEDED" => lg[i].n[2] # "")

StepInv(rw, ph, ts, lt) ==
  AtLast(ph, rw, ts) /\ StepsDone(rw, ph, ts, lt) /\ SucceededRests(rw, ph) /\ UsedIsCovered(rw, ph, ts)
LogInv(lg, ph, ts) == ReportsFit(lg, ts) /\ StartIsOfLast(ph, lg, ts) /\ ReasonsGiven(lg)
WriterInv ==
  /\ DeskShape
  /\ StepInv(row, phase, tries, latest) /\ LogInv(log, phase, tries) /\ EndTold(row.state, log)

\* A page is read in order, its task first, and nothing it needs is left out.
Later == {"attempts", "verdicts", "reason", "running", "now", "artifacts", "missing"}
Needs(kind) == {"attempts", "reason", "running"} \cup (IF kind = "dossier" THEN {"artifacts"} ELSE {})
Elems(s) == {s[i] : i \in 1..Len(s)}
ReadsFit(kind, left, seen) ==
  /\ left \in Seq(Later) /\ Needs(kind) \subseteq DOMAIN seen \cup Elems(left)
  /\ "task" \in DOMAIN seen /\ seen["task"] \in TaskRow

\* What has been read, and what of it is still so.
PageFits(seen) ==
    LET t == seen["task"] IN
    /\ Covered(t, tries)
    /\ "running" \in DOMAIN seen => seen["running"] \in Nat /\ t.used + seen["running"] <= CostUpToNow
    /\ EndTold(t.state, log)
    /\ "reason" \in DOMAIN seen /\ t.state \in {"FAILED", "CANCELLED"} => seen["reason"] # ""
    /\ t.state = "SUCCEEDED" =>
         /\ row = t
         /\ "attempts" \in DOMAIN seen => seen["attempts"] = tries
         /\ "artifacts" \in DOMAIN seen => seen["artifacts"] = latest
PageShape ==
  /\ page = [kind |-> page.kind, since |-> page.since, left |-> page.left, got |-> page.got]
  /\ page.kind \in {"none", "steps", "dossier", "review", "overview"}
PageInv ==
  /\ PageShape
  /\ page.kind \in {"steps", "dossier"} => ReadsFit(page.kind, page.left, page.got) /\ PageFits(page.got)
DeskInv == WriterInv /\ PageInv
-----------------------------------------------------------------------------
(* What attempts cost together: CostOf as a sum, and how it grows. *)

\* A set of natural numbers has a least member.
LEMMA LeastOf ==
  ASSUME NEW D \in SUBSET Nat, D # {}
  PROVE  \E d \in D : \A x \in D : d <= x
<1>1. IsWellFoundedOn(OpToRel(<, Nat), Nat) BY NatLessThanWellFounded
<1>2. PICK d \in D : \A x \in D : ~(<<x, d>> \in OpToRel(<, Nat)) BY <1>1, WFMin, Zenon
<1>3. ASSUME NEW x \in D PROVE d <= x
  <2>1. x \in Nat /\ d \in Nat OBVIOUS
  <2>2. ~(x < d) BY <1>2, <2>1 DEF OpToRel
  <2> QED BY <2>1, <2>2
<1> QED BY <1>3

\* A sum of the costs of the first n attempts.
SumUpTo(ts, n, g) ==
  g \in [0..n -> Nat] /\ \A i \in 0..n : g[i] = IF i = 0 THEN 0 ELSE g[i - 1] + ts[i].cost

\* There is such a sum: the least n for which there was none would have one.
LEMMA SumExists ==
  ASSUME NEW ts \in Seq(TryRow)
  PROVE  \E g : SumUpTo(ts, Len(ts), g)
<1> DEFINE Without == {n \in 0..Len(ts) : ~\E g : SumUpTo(ts, n, g)}
<1>1. Len(ts) \in Nat OBVIOUS
<1>2. SUFFICES ASSUME Without # {} PROVE FALSE BY <1>1
<1>3. Without \in SUBSET Nat BY <1>1
<1>4. PICK n \in Without : \A m \in Without : n <= m BY <1>2, <1>3, LeastOf
<1>5. n # 0
  <2> DEFINE z == [i \in 0..0 |-> 0]
  <2>1. SumUpTo(ts, 0, z) BY DEF SumUpTo
  <2> QED BY <2>1, <1>4
<1>6. n \in 1..Len(ts) BY <1>4, <1>5, <1>1
<1>7. n - 1 \in 0..Len(ts) /\ n - 1 \notin Without BY <1>6, <1>4, <1>1
<1>8. PICK g : SumUpTo(ts, n - 1, g) BY <1>7
<1>9. ts[n].cost \in Nat
  <2>1. ts[n] \in TryRow BY <1>6
  <2> QED BY <2>1 DEF TryRow
<1> DEFINE h == [i \in 0..n |-> IF i = n THEN g[n - 1] + ts[n].cost ELSE g[i]]
<1>10. n - 1 \in 0..(n - 1) /\ g[n - 1] \in Nat BY <1>6, <1>8 DEF SumUpTo
<1>11. h \in [0..n -> Nat]
  <2> SUFFICES ASSUME NEW i \in 0..n PROVE h[i] \in Nat OBVIOUS
  <2>1. CASE i = n BY <2>1, <1>9, <1>10
  <2>2. CASE i # n
    <3>1. i \in 0..(n - 1) BY <2>2, <1>6
    <3> QED BY <2>2, <3>1, <1>8 DEF SumUpTo
  <2> QED BY <2>1, <2>2
<1>12. ASSUME NEW i \in 0..n PROVE h[i] = IF i = 0 THEN 0 ELSE h[i - 1] + ts[i].cost
  <2>1. CASE i = n
    <3>1. n - 1 \in 0..n /\ n - 1 # n BY <1>6
    <3> QED BY <2>1, <3>1, <1>6
  <2>2. CASE i # n
    <3>1. i \in 0..(n - 1) BY <2>2, <1>6
    <3>2. h[i] = g[i] BY <2>2
    <3>3. i # 0 => i - 1 \in 0..n /\ i - 1 # n BY <3>1, <1>6
    <3>4. i # 0 => h[i - 1] = g[i - 1] BY <3>3
    <3>5. g[i] = IF i = 0 THEN 0 ELSE g[i - 1] + ts[i].cost BY <3>1, <1>8 DEF SumUpTo
    <3> QED BY <3>2, <3>4, <3>5
  <2> QED BY <2>1, <2>2
<1>13. SumUpTo(ts, n, h) BY <1>11, <1>12 DEF SumUpTo
<1> QED BY <1>13, <1>4

\* What CostOf returns: the sum, one attempt after the other.
LEMMA CostIsSum ==
  ASSUME NEW ts \in Seq(TryRow)
  PROVE  SumUpTo(ts, Len(ts), CostOf(ts))
<1> DEFINE F(g) == [i \in 0..Len(ts) |-> IF i = 0 THEN 0 ELSE g[i - 1] + ts[i].cost]
<1>1. PICK g : SumUpTo(ts, Len(ts), g) BY SumExists
<1>2. g = F(g) BY <1>1 DEF SumUpTo
<1>3. CostOf(ts) = (CHOOSE f : f = F(f)) BY DEF CostOf
<1>4. CostOf(ts) = F(CostOf(ts)) BY <1>2, <1>3
<1> DEFINE c == CostOf(ts)
<1>5. c = [i \in 0..Len(ts) |-> c[i]] /\ \A i \in 0..Len(ts) : c[i] = IF i = 0 THEN 0 ELSE c[i - 1] + ts[i].cost
  <2> HIDE DEF c
  <2>1. c = F(c) BY <1>4 DEF c
  <2> QED BY <2>1
<1> HIDE DEF c, F
<1> DEFINE Wrong == {i \in 0..Len(ts) : c[i] \notin Nat}
<1>6. Wrong = {}
  <2>1. SUFFICES ASSUME Wrong # {} PROVE FALSE OBVIOUS
  <2>2. Wrong \in SUBSET Nat OBVIOUS
  <2>3. PICK i \in Wrong : \A j \in Wrong : i <= j BY <2>1, <2>2, LeastOf
  <2>4. i \in 0..Len(ts) /\ Len(ts) \in Nat BY <2>3
  <2>5. i # 0 BY <1>5, <2>4
  <2>6. i - 1 \in 0..Len(ts) /\ ~(i <= i - 1) BY <2>4, <2>5
  <2>7. c[i - 1] \in Nat BY <2>6, <2>3
  <2>8. ts[i] \in TryRow BY <2>4, <2>5
  <2>9. ts[i].cost \in Nat BY <2>8 DEF TryRow
  <2>10. c[i] = c[i - 1] + ts[i].cost BY <1>5, <2>4, <2>5
  <2>11. c[i] \in Nat BY <2>7, <2>9, <2>10
  <2> QED BY <2>11, <2>3
<1>7. c \in [0..Len(ts) -> Nat] BY <1>5, <1>6
<1>8. SumUpTo(ts, Len(ts), c) BY <1>5, <1>7 DEF SumUpTo
<1> QED BY <1>8 DEF c

\* One attempt after the other, each of them adds what it cost.
LEMMA CostSteps ==
  ASSUME NEW ts \in Seq(TryRow)
  PROVE  /\ \A i \in 0..Len(ts) : CostOf(ts)[i] \in Nat
         /\ CostOf(ts)[0] = 0
         /\ \A i \in 1..Len(ts) : CostOf(ts)[i] = CostOf(ts)[i - 1] + ts[i].cost /\ ts[i].cost \in Nat
<1> DEFINE c == CostOf(ts)
<1>1. SumUpTo(ts, Len(ts), c) BY CostIsSum
<1>2. \A i \in 1..Len(ts) : ts[i] \in TryRow OBVIOUS
<1>3. \A i \in 1..Len(ts) : ts[i].cost \in Nat BY <1>2 DEF TryRow
<1> HIDE DEF c
<1>4. Len(ts) \in Nat OBVIOUS
<1>5. \A i \in 0..Len(ts) : c[i] \in Nat BY <1>1 DEF SumUpTo
<1>6. c[0] = 0 BY <1>1, <1>4 DEF SumUpTo
<1>7. \A i \in 1..Len(ts) : c[i] = c[i - 1] + ts[i].cost BY <1>1, <1>4 DEF SumUpTo
<1> QED BY <1>3, <1>5, <1>6, <1>7 DEF c

\* Attempts are only added, and they only become dearer.
Grows(ts, ss) == Len(ts) <= Len(ss) /\ \A i \in 1..Len(ts) : ts[i].cost <= ss[i].cost

\* Where attempts are added or cost more, so does the sum.
LEMMA CostGrows ==
  ASSUME NEW ts \in Seq(TryRow), NEW ss \in Seq(TryRow), Grows(ts, ss), NEW n \in 0..Len(ts)
  PROVE  CostOf(ts)[n] <= CostOf(ss)[n]
<1> DEFINE c == CostOf(ts)  d == CostOf(ss)
<1> DEFINE Wrong == {i \in 0..Len(ts) : ~(c[i] <= d[i])}
<1>1. SUFFICES ASSUME Wrong # {} PROVE FALSE OBVIOUS
<1>2. Len(ts) \in Nat /\ Len(ss) \in Nat /\ Len(ts) <= Len(ss) BY DEF Grows
<1>3. Wrong \in SUBSET Nat OBVIOUS
<1>4. PICK i \in Wrong : \A j \in Wrong : i <= j BY <1>1, <1>3, LeastOf
<1>5. c[0] = 0 /\ \A j \in 1..Len(ts) : c[j] = c[j - 1] + ts[j].cost /\ ts[j].cost \in Nat BY CostSteps
<1>6. d[0] = 0 /\ \A j \in 1..Len(ss) : d[j] = d[j - 1] + ss[j].cost /\ ss[j].cost \in Nat BY CostSteps
<1>7. (\A j \in 0..Len(ts) : c[j] \in Nat) /\ \A j \in 0..Len(ss) : d[j] \in Nat BY CostSteps
<1> HIDE DEF c, d
<1>8. i \in 0..Len(ts) BY <1>4
<1>9. i # 0 BY <1>4, <1>5, <1>6
<1>10. i - 1 \in 0..Len(ts) /\ i - 1 \in 0..Len(ss) /\ ~(i <= i - 1) BY <1>8, <1>9, <1>2
<1>11. c[i - 1] <= d[i - 1] BY <1>10, <1>4
<1>12. i \in 1..Len(ts) /\ i \in 1..Len(ss) BY <1>8, <1>9, <1>2
<1>13. ts[i].cost <= ss[i].cost BY <1>12 DEF Grows
<1>14. c[i] = c[i - 1] + ts[i].cost /\ d[i] = d[i - 1] + ss[i].cost BY <1>5, <1>6, <1>12
<1>15. c[i - 1] \in Nat /\ d[i - 1] \in Nat /\ ts[i].cost \in Nat /\ ss[i].cost \in Nat
  BY <1>5, <1>6, <1>7, <1>10, <1>12
<1>16. c[i] <= d[i] BY <1>11, <1>13, <1>14, <1>15
<1> QED BY <1>16, <1>4

\* More attempts cost more.
LEMMA CostRises ==
  ASSUME NEW ts \in Seq(TryRow), NEW m \in 0..Len(ts), NEW n \in 0..Len(ts), m <= n
  PROVE  CostOf(ts)[m] <= CostOf(ts)[n]
<1> DEFINE c == CostOf(ts)
<1> DEFINE Wrong == {i \in 0..Len(ts) : m <= i /\ ~(c[m] <= c[i])}
<1>1. SUFFICES ASSUME Wrong # {} PROVE FALSE OBVIOUS
<1>2. Len(ts) \in Nat /\ m \in Nat OBVIOUS
<1>3. Wrong \in SUBSET Nat OBVIOUS
<1>4. PICK i \in Wrong : \A j \in Wrong : i <= j BY <1>1, <1>3, LeastOf
<1>5. \A j \in 1..Len(ts) : c[j] = c[j - 1] + ts[j].cost /\ ts[j].cost \in Nat BY CostSteps
<1>6. \A j \in 0..Len(ts) : c[j] \in Nat BY CostSteps
<1> HIDE DEF c
<1>7. i \in 0..Len(ts) /\ m <= i /\ ~(c[m] <= c[i]) BY <1>4
<1>8. i # m BY <1>7, <1>6
<1>9. i \in 1..Len(ts) /\ i - 1 \in 0..Len(ts) /\ m <= i - 1 /\ ~(i <= i - 1) BY <1>7, <1>8, <1>2
<1>10. c[m] <= c[i - 1] BY <1>9, <1>4
<1>11. c[i] = c[i - 1] + ts[i].cost /\ ts[i].cost \in Nat BY <1>5, <1>9
<1>12. c[m] \in Nat /\ c[i - 1] \in Nat BY <1>6, <1>9
<1>13. c[m] <= c[i] BY <1>10, <1>11, <1>12
<1> QED BY <1>13, <1>7

\* What is covered stays covered.
LEMMA StaysCovered ==
  ASSUME NEW ts \in Seq(TryRow), NEW ss \in Seq(TryRow), Grows(ts, ss),
         NEW rw, rw \in TaskRow, Covered(rw, ts)
  PROVE  Covered(rw, ss)
<1>1. rw.used \in Nat /\ rw.active \in Nat BY DEF TaskRow
<1>2. Len(ts) \in Nat /\ Len(ss) \in Nat /\ Len(ts) <= Len(ss) BY DEF Grows
<1>3. Len(ts) \in 0..Len(ts) /\ Len(ts) \in 0..Len(ss) /\ Len(ss) \in 0..Len(ss) BY <1>2
<1>4. CostOf(ts)[Len(ts)] <= CostOf(ss)[Len(ts)] BY <1>3, CostGrows
<1>5. CostOf(ss)[Len(ts)] <= CostOf(ss)[Len(ss)] BY <1>2, <1>3, CostRises
<1>6. CostOf(ts)[Len(ts)] \in Nat /\ CostOf(ss)[Len(ts)] \in Nat /\ CostOf(ss)[Len(ss)] \in Nat BY <1>3, CostSteps
<1>7. rw.used <= CostOf(ss)[Len(ss)] BY <1>1, <1>4, <1>5, <1>6 DEF Covered
<1>8. ASSUME rw.active # 0 PROVE rw.active <= Len(ss) /\ rw.used <= CostOf(ss)[rw.active - 1]
  <2>1. rw.active <= Len(ts) /\ rw.used <= CostOf(ts)[rw.active - 1] BY <1>8 DEF Covered
  <2>2. rw.active - 1 \in 0..Len(ts) /\ rw.active - 1 \in 0..Len(ss) BY <2>1, <1>8, <1>1, <1>2
  <2>3. CostOf(ts)[rw.active - 1] <= CostOf(ss)[rw.active - 1] BY <2>2, CostGrows
  <2>4. CostOf(ts)[rw.active - 1] \in Nat /\ CostOf(ss)[rw.active - 1] \in Nat BY <2>2, CostSteps
  <2> QED BY <2>1, <2>3, <2>4, <1>1, <1>2
<1> QED BY <1>7, <1>8 DEF Covered

-----------------------------------------------------------------------------
(* What a change to the attempts leaves as it was. *)

\* Only attempts of step c are added or change their status.
Beside(ts, ss, c) ==
  /\ Len(ts) <= Len(ss)
  /\ \A i \in 1..Len(ts) : ss[i].step = ts[i].step /\ (ts[i].step # c => ss[i].status = ts[i].status)
  /\ \A i \in 1..Len(ss) : i > Len(ts) => ss[i].step = c

\* A step that is done stays so while no attempt at it is opened.
LEMMA StaysDone ==
  ASSUME NEW ts \in Seq(TryRow), NEW ss \in Seq(TryRow), NEW c, Beside(ts, ss, c),
         NEW lt, NEW mt, NEW k, k # c, mt[k] = lt[k], DoneStep(k, ts, lt)
  PROVE  DoneStep(k, ss, mt)
<1>1. Len(ts) \in Nat /\ Len(ss) \in Nat /\ Len(ts) <= Len(ss) BY DEF Beside
<1>2. PICK i \in 1..Len(ts) : /\ ts[i].step = k /\ ts[i].status = "COMPLETED"
                              /\ \A j \in 1..Len(ts) : ts[j].step = k => j <= i
  BY DEF DoneStep
<1>3. i \in 1..Len(ss) /\ ss[i].step = k /\ ss[i].status = "COMPLETED" BY <1>1, <1>2 DEF Beside
<1>4. ASSUME NEW j \in 1..Len(ss), ss[j].step = k PROVE j <= i
  <2>1. ~(j > Len(ts)) BY <1>4 DEF Beside
  <2>2. j \in 1..Len(ts) BY <2>1, <1>1
  <2> QED BY <2>2, <1>2, <1>4 DEF Beside
<1>5. mt[k] # 0 BY DEF DoneStep
<1> QED BY <1>3, <1>4, <1>5 DEF DoneStep

\* A new attempt.
LEMMA TryAppended ==
  ASSUME NEW ts \in Seq(TryRow), NEW y, y \in TryRow
  PROVE  /\ Append(ts, y) \in Seq(TryRow) /\ Len(Append(ts, y)) = Len(ts) + 1
         /\ Append(ts, y)[Len(Append(ts, y))] = y
         /\ Grows(ts, Append(ts, y)) /\ Beside(ts, Append(ts, y), y.step)
<1> DEFINE ss == Append(ts, y)
<1>1. ss \in Seq(TryRow) /\ Len(ss) = Len(ts) + 1 /\ ss[Len(ss)] = y OBVIOUS
<1>2. \A i \in 1..Len(ts) : ss[i] = ts[i] OBVIOUS
<1>3. Len(ts) \in Nat OBVIOUS
<1>4. \A i \in 1..Len(ts) : ts[i].cost \in Nat BY CostSteps
<1>5. Grows(ts, ss) BY <1>1, <1>2, <1>3, <1>4 DEF Grows
<1>6. \A i \in 1..Len(ss) : i > Len(ts) => i = Len(ss) BY <1>1, <1>3
<1>7. Beside(ts, ss, y.step) BY <1>1, <1>2, <1>3, <1>6 DEF Beside
<1> QED BY <1>1, <1>5, <1>7

\* The last attempt goes on, or ends.
LastSet(ts, y) == [ts EXCEPT ![Len(ts)] = y]

\* A change of the last attempt that does not make it cheaper.
LEMMA LastTryChanged ==
  ASSUME NEW ts \in Seq(TryRow), Len(ts) > 0, NEW y, y \in TryRow,
         y.step = ts[Len(ts)].step, ts[Len(ts)].cost <= y.cost
  PROVE  /\ LastSet(ts, y) \in Seq(TryRow) /\ Len(LastSet(ts, y)) = Len(ts)
         /\ LastSet(ts, y)[Len(LastSet(ts, y))] = y
         /\ Grows(ts, LastSet(ts, y)) /\ Beside(ts, LastSet(ts, y), y.step)
<1> PICK ss : ss = [ts EXCEPT ![Len(ts)] = y] OBVIOUS
<1>1. Len(ts) \in 1..Len(ts) OBVIOUS
<1>2. ss \in Seq(TryRow) /\ Len(ss) = Len(ts) /\ ss[Len(ss)] = y BY <1>1
<1>3. \A i \in 1..Len(ts) : i # Len(ts) => ss[i] = ts[i] BY <1>1
<1>4. \A i \in 1..Len(ts) : ts[i].cost \in Nat BY CostSteps
<1>5. Len(ts) \in Nat /\ ~\E i \in 1..Len(ss) : i > Len(ts) BY <1>2
<1>6. ss[Len(ts)].cost = y.cost /\ ss[Len(ts)].step = ts[Len(ts)].step BY <1>2
<1>7. \A i \in 1..Len(ts) : ts[i].cost <= ss[i].cost
  <2> SUFFICES ASSUME NEW i \in 1..Len(ts) PROVE ts[i].cost <= ss[i].cost OBVIOUS
  <2>1. CASE i = Len(ts) BY <2>1, <1>6
  <2>2. CASE i # Len(ts)
    <3>1. ss[i].cost = ts[i].cost /\ ts[i].cost \in Nat BY <2>2, <1>3, <1>4
    <3> QED BY <3>1
  <2> QED BY <2>1, <2>2
<1>8. \A i \in 1..Len(ts) : ss[i].step = ts[i].step /\ (ts[i].step # y.step => ss[i].status = ts[i].status)
  <2> SUFFICES ASSUME NEW i \in 1..Len(ts)
      PROVE  ss[i].step = ts[i].step /\ (ts[i].step # y.step => ss[i].status = ts[i].status) OBVIOUS
  <2>1. CASE i = Len(ts) BY <2>1, <1>6
  <2>2. CASE i # Len(ts) BY <2>2, <1>3
  <2> QED BY <2>1, <2>2
<1>9. Len(ts) <= Len(ss) BY <1>2, <1>5
<1>10. Grows(ts, ss) BY <1>7, <1>9 DEF Grows
<1>11. Beside(ts, ss, y.step) BY <1>5, <1>8, <1>9 DEF Beside
<1>12. LastSet(ts, y) = ss BY DEF LastSet
<1> QED BY <1>2, <1>10, <1>11, <1>12

\* Attempts that stay as they are.
LEMMA GrowsNot ==
  ASSUME NEW ts \in Seq(TryRow)
  PROVE  Grows(ts, ts)
<1>1. \A i \in 1..Len(ts) : ts[i].cost \in Nat BY CostSteps
<1> QED BY <1>1 DEF Grows

-----------------------------------------------------------------------------
(* The log: what is told stays told. *)

Longer(lg, mg) == Len(lg) <= Len(mg) /\ \A i \in 1..Len(lg) : mg[i] = lg[i]

\* An end that has its event keeps it.
LEMMA StaysTold ==
  ASSUME NEW lg \in Seq(LogRow), NEW mg \in Seq(LogRow), Longer(lg, mg), NEW s, EndTold(s, lg)
  PROVE  EndTold(s, mg)
<1>1. Len(lg) \in Nat /\ Len(mg) \in Nat /\ Len(lg) <= Len(mg) BY DEF Longer
<1>2. \A i \in 1..Len(lg) : i \in 1..Len(mg) /\ mg[i] = lg[i] BY <1>1 DEF Longer
<1> QED BY <1>2 DEF EndTold

\* Reports stay within costs that only rise.
LEMMA ReportsStayFit ==
  ASSUME NEW lg \in Seq(LogRow), NEW ts \in Seq(TryRow), NEW ss \in Seq(TryRow), Grows(ts, ss), ReportsFit(lg, ts)
  PROVE  ReportsFit(lg, ss)
<1>1. Len(ts) \in Nat /\ Len(ss) \in Nat /\ Len(ts) <= Len(ss) BY DEF Grows
<1> SUFFICES ASSUME NEW j \in 1..Len(lg), LastStart(j, lg)
    PROVE  /\ lg[j].try \in 1..Len(ss)
           /\ \A i \in 1..Len(lg) : i > j /\ lg[i].type = "usage" =>
                lg[i].n \in Nat /\ lg[i].n <= ss[lg[j].try].cost
  BY DEF ReportsFit
<1>2. lg[j].try \in 1..Len(ts) BY DEF ReportsFit
<1>3. lg[j].try \in 1..Len(ss) BY <1>1, <1>2
<1>4. ts[lg[j].try].cost <= ss[lg[j].try].cost BY <1>2 DEF Grows
<1>5. ts[lg[j].try].cost \in Nat /\ ss[lg[j].try].cost \in Nat BY <1>2, <1>3, CostSteps
<1>6. ASSUME NEW i \in 1..Len(lg), i > j, lg[i].type = "usage"
      PROVE  lg[i].n \in Nat /\ lg[i].n <= ss[lg[j].try].cost
  <2>1. lg[i].n \in Nat /\ lg[i].n <= ts[lg[j].try].cost BY <1>6 DEF ReportsFit
  <2> QED BY <2>1, <1>4, <1>5
<1> QED BY <1>3, <1>6

\* The attempt a turn reports about is still the last one.
SameTurn(ph, qh, ts, ss) == qh \in {"begin", "turn"} => ph \in {"begin", "turn"} /\ Len(ss) = Len(ts)

\* A log that stays as it is, while attempts go on.
LEMMA LogStays ==
  ASSUME NEW lg \in Seq(LogRow), NEW ts \in Seq(TryRow), NEW ss \in Seq(TryRow), Grows(ts, ss),
         NEW ph, NEW qh, SameTurn(ph, qh, ts, ss), LogInv(lg, ph, ts)
  PROVE  LogInv(lg, qh, ss)
<1>1. ReportsFit(lg, ss) BY ReportsStayFit DEF LogInv
<1>2. StartIsOfLast(qh, lg, ss) BY DEF LogInv, StartIsOfLast, SameTurn
<1> QED BY <1>1, <1>2 DEF LogInv

\* An event is added.
LEMMA Appended ==
  ASSUME NEW lg \in Seq(LogRow), NEW e, e \in LogRow, NEW mg, mg = Append(lg, e)
  PROVE  /\ mg \in Seq(LogRow) /\ Len(mg) = Len(lg) + 1 /\ mg[Len(mg)] = e /\ Longer(lg, mg)
         /\ \A i \in 1..Len(lg) : mg[i] = lg[i]
         /\ \A i \in 1..Len(mg) : i \in 1..Len(lg) \/ i = Len(mg)
<1>1. mg \in Seq(LogRow) /\ Len(mg) = Len(lg) + 1 /\ mg[Len(mg)] = e OBVIOUS
<1>2. \A i \in 1..Len(lg) : mg[i] = lg[i] OBVIOUS
<1>3. Len(lg) \in Nat OBVIOUS
<1> QED BY <1>1, <1>2, <1>3 DEF Longer

ReasonGiven(e) == e.type = "task/state" => e.n \in Reasons /\ (e.n[1] # "SUCCEEDED" => e.n[2] # "")

\* An event with its reason is added to events that have theirs.
LEMMA ReasonsStayGiven ==
  ASSUME NEW lg \in Seq(LogRow), NEW e, e \in LogRow, NEW mg, mg = Append(lg, e), ReasonsGiven(lg), ReasonGiven(e)
  PROVE  ReasonsGiven(mg)
<1>1. /\ Len(mg) = Len(lg) + 1 /\ mg[Len(mg)] = e
      /\ \A i \in 1..Len(lg) : mg[i] = lg[i]
      /\ \A i \in 1..Len(mg) : i \in 1..Len(lg) \/ i = Len(mg)
  BY Appended
<1> QED BY <1>1 DEF ReasonsGiven, ReasonGiven

\* An event that is neither a start nor a report leaves what is said of reports.
LEMMA LogTold ==
  ASSUME NEW lg \in Seq(LogRow), NEW ts \in Seq(TryRow), NEW ss \in Seq(TryRow), Grows(ts, ss),
         NEW ph, NEW qh, SameTurn(ph, qh, ts, ss), LogInv(lg, ph, ts),
         NEW e, e \in LogRow, e.type \notin {"step/started", "usage"}, ReasonGiven(e),
         NEW mg, mg = Append(lg, e)
  PROVE  LogInv(mg, qh, ss)
<1>1. LogInv(lg, qh, ss) BY LogStays
<1>2. /\ Len(mg) = Len(lg) + 1 /\ mg[Len(mg)] = e
      /\ \A i \in 1..Len(lg) : mg[i] = lg[i]
      /\ \A i \in 1..Len(mg) : i \in 1..Len(lg) \/ i = Len(mg)
  BY Appended
<1>3. Len(lg) \in Nat OBVIOUS
<1>4. \A i \in 1..Len(lg) : i \in 1..Len(mg) BY <1>2, <1>3
<1>5. ASSUME NEW j \in 1..Len(mg), LastStart(j, mg) PROVE j \in 1..Len(lg) /\ LastStart(j, lg) /\ mg[j] = lg[j]
  <2>1. mg[j].type = "step/started" BY <1>5 DEF LastStart
  <2>2. j # Len(mg) BY <2>1, <1>2
  <2>3. j \in 1..Len(lg) /\ mg[j] = lg[j] BY <2>2, <1>2
  <2>4. LastStart(j, lg) BY <1>5, <2>3, <1>2, <1>4 DEF LastStart
  <2> QED BY <2>3, <2>4
<1>6. ReportsFit(mg, ss)
  <2> SUFFICES ASSUME NEW j \in 1..Len(mg), LastStart(j, mg)
      PROVE  /\ mg[j].try \in 1..Len(ss)
             /\ \A i \in 1..Len(mg) : i > j /\ mg[i].type = "usage" =>
                  mg[i].n \in Nat /\ mg[i].n <= ss[mg[j].try].cost
    BY DEF ReportsFit
  <2>1. j \in 1..Len(lg) /\ LastStart(j, lg) /\ mg[j] = lg[j] BY <1>5
  <2>2. ReportsFit(lg, ss) BY <1>1 DEF LogInv
  <2>3. mg[j].try \in 1..Len(ss) BY <2>1, <2>2 DEF ReportsFit
  <2>4. ASSUME NEW i \in 1..Len(mg), i > j, mg[i].type = "usage"
        PROVE  mg[i].n \in Nat /\ mg[i].n <= ss[mg[j].try].cost
    <3>1. i # Len(mg) BY <2>4, <1>2
    <3>2. i \in 1..Len(lg) /\ mg[i] = lg[i] BY <3>1, <1>2
    <3> QED BY <3>2, <2>1, <2>2, <2>4 DEF ReportsFit
  <2> QED BY <2>3, <2>4
<1>7. StartIsOfLast(qh, mg, ss)
  <2>1. StartIsOfLast(qh, lg, ss) BY <1>1 DEF LogInv
  <2> QED BY <2>1, <1>5 DEF StartIsOfLast
<1>8. ReasonsGiven(mg) BY <1>1, ReasonsStayGiven DEF LogInv
<1> QED BY <1>6, <1>7, <1>8 DEF LogInv

\* The latest start is that of the last attempt.
LEMMA LogStarted ==
  ASSUME NEW lg \in Seq(LogRow), NEW ts \in Seq(TryRow), Len(ts) > 0, NEW ph, NEW qh, LogInv(lg, ph, ts),
         NEW e, e \in LogRow, e.type = "step/started", e.try = Len(ts), NEW mg, mg = Append(lg, e)
  PROVE  LogInv(mg, qh, ts)
<1>1. /\ Len(mg) = Len(lg) + 1 /\ mg[Len(mg)] = e
      /\ \A i \in 1..Len(lg) : mg[i] = lg[i]
      /\ \A i \in 1..Len(mg) : i \in 1..Len(lg) \/ i = Len(mg)
  BY Appended
<1>2. Len(lg) \in Nat /\ Len(ts) \in Nat OBVIOUS
<1>3. ASSUME NEW j \in 1..Len(mg), LastStart(j, mg) PROVE j = Len(mg) /\ mg[j].try = Len(ts)
  <2>1. Len(mg) \in 1..Len(mg) BY <1>1, <1>2
  <2>2. Len(mg) <= j BY <1>1, <1>3, <2>1 DEF LastStart
  <2>3. j = Len(mg) BY <2>2, <1>1, <1>2
  <2> QED BY <2>3, <1>1
<1>4. ReportsFit(mg, ts)
  <2>1. \A j \in 1..Len(mg) : LastStart(j, mg) => mg[j].try \in 1..Len(ts) BY <1>2, <1>3
  <2>2. \A j \in 1..Len(mg) : LastStart(j, mg) => ~\E i \in 1..Len(mg) : i > j BY <1>1, <1>2, <1>3
  <2> QED BY <2>1, <2>2 DEF ReportsFit
<1>5. StartIsOfLast(qh, mg, ts) BY <1>3 DEF StartIsOfLast
<1>6. ReasonsGiven(mg) BY ReasonsStayGiven DEF LogInv, ReasonGiven
<1> QED BY <1>4, <1>5, <1>6 DEF LogInv

\* A report of the turn that is on.
LEMMA LogReported ==
  ASSUME NEW lg \in Seq(LogRow), NEW ts \in Seq(TryRow), Len(ts) > 0, LogInv(lg, "turn", ts),
         NEW e, e \in LogRow, e.type = "usage", e.n \in Nat, e.n <= ts[Len(ts)].cost, NEW mg, mg = Append(lg, e)
  PROVE  LogInv(mg, "turn", ts)
<1>1. /\ Len(mg) = Len(lg) + 1 /\ mg[Len(mg)] = e
      /\ \A i \in 1..Len(lg) : mg[i] = lg[i]
      /\ \A i \in 1..Len(mg) : i \in 1..Len(lg) \/ i = Len(mg)
  BY Appended
<1>2. Len(lg) \in Nat /\ Len(ts) \in Nat OBVIOUS
<1>3. \A i \in 1..Len(lg) : i \in 1..Len(mg) BY <1>1, <1>2
<1>4. ASSUME NEW j \in 1..Len(mg), LastStart(j, mg)
      PROVE  j \in 1..Len(lg) /\ LastStart(j, lg) /\ mg[j] = lg[j] /\ mg[j].try = Len(ts)
  <2>1. mg[j].type = "step/started" BY <1>4 DEF LastStart
  <2>2. j # Len(mg) BY <2>1, <1>1
  <2>3. j \in 1..Len(lg) /\ mg[j] = lg[j] BY <2>2, <1>1
  <2>4. LastStart(j, lg) BY <1>4, <2>3, <1>1, <1>3 DEF LastStart
  <2>5. lg[j].try = Len(ts) BY <2>3, <2>4 DEF LogInv, StartIsOfLast
  <2> QED BY <2>3, <2>4, <2>5
<1>5. ReportsFit(mg, ts)
  <2> SUFFICES ASSUME NEW j \in 1..Len(mg), LastStart(j, mg)
      PROVE  /\ mg[j].try \in 1..Len(ts)
             /\ \A i \in 1..Len(mg) : i > j /\ mg[i].type = "usage" =>
                  mg[i].n \in Nat /\ mg[i].n <= ts[mg[j].try].cost
    BY DEF ReportsFit
  <2>1. j \in 1..Len(lg) /\ LastStart(j, lg) /\ mg[j] = lg[j] /\ mg[j].try = Len(ts) BY <1>4
  <2>2. ReportsFit(lg, ts) BY DEF LogInv
  <2>3. ASSUME NEW i \in 1..Len(mg), i > j, mg[i].type = "usage"
        PROVE  mg[i].n \in Nat /\ mg[i].n <= ts[mg[j].try].cost
    <3>1. CASE i = Len(mg) BY <3>1, <1>1, <2>1
    <3>2. CASE i # Len(mg)
      <4>1. i \in 1..Len(lg) /\ mg[i] = lg[i] BY <3>2, <1>1
      <4> QED BY <4>1, <2>1, <2>2, <2>3 DEF ReportsFit
    <3> QED BY <3>1, <3>2
  <2>4. mg[j].try \in 1..Len(ts) BY <2>1, <1>2
  <2> QED BY <2>3, <2>4
<1>6. StartIsOfLast("turn", mg, ts) BY <1>4 DEF StartIsOfLast
<1>7. ReasonsGiven(mg) BY ReasonsStayGiven DEF LogInv, ReasonGiven
<1> QED BY <1>5, <1>6, <1>7 DEF LogInv

-----------------------------------------------------------------------------
(* The task's row from step to step. *)

\* The cursor and the money stay, the attempt may be left.
SameWork(rw, sw) == sw.step = rw.step /\ sw.used = rw.used /\ sw.active \in {0, rw.active}

\* A driver at an attempt was at it before, and one that finishes has done all steps.
DrivenOn(ph, qh, rw) ==
  /\ qh \in Phases
  /\ qh \in AtTry => ph \in AtTry
  /\ qh = "accept" => ph = "accept"
  /\ qh = "finish" => ph = "finish" \/ rw.step = Steps

\* The row of a task that keeps its step and its money.
LEMMA RowMoves ==
  ASSUME NEW rw, rw \in TaskRow, NEW sw, sw \in TaskRow, NEW ph, NEW qh, NEW ts \in Seq(TryRow), NEW lt,
         StepInv(rw, ph, ts, lt), SameWork(rw, sw), DrivenOn(ph, qh, rw),
         sw.state = "SUCCEEDED" => qh = "off" /\ sw.step = Steps
  PROVE  StepInv(sw, qh, ts, lt)
<1>1. AtLast(qh, sw, ts) BY DEF StepInv, AtLast, SameWork, DrivenOn
<1>2. StepsDone(sw, qh, ts, lt) BY DEF StepInv, StepsDone, SameWork, DrivenOn
<1>3. SucceededRests(sw, qh) BY DEF SucceededRests
<1>4. UsedIsCovered(sw, qh, ts)
  <2>1. UsedIsCovered(rw, ph, ts) BY DEF StepInv
  <2>2. sw.used = rw.used /\ sw.active \in {0, rw.active} BY DEF SameWork
  <2> QED BY <2>1, <2>2 DEF UsedIsCovered, Covered, DrivenOn
<1> QED BY <1>1, <1>2, <1>3, <1>4 DEF StepInv

Whys == {"", "resource", "tool_approval", "input", "environment"}

\* The row in another state; with no attempt at work; with the cost of one charged.
To(rw, st, wh) == [rw EXCEPT !.state = st, !.why = wh]
Off(rw) == [rw EXCEPT !.active = 0]
Stopped(rw, st, wh) == [rw EXCEPT !.state = st, !.why = wh, !.active = 0]
Charged(rw, n) == [rw EXCEPT !.used = @ + n, !.active = 0]

\* transition: to another state.
LEMMA RowTo ==
  ASSUME NEW rw, rw \in TaskRow, NEW st, st \in TaskState, NEW wh, wh \in Whys
  PROVE  /\ To(rw, st, wh) \in TaskRow /\ SameWork(rw, To(rw, st, wh))
         /\ To(rw, st, wh).state = st /\ To(rw, st, wh).limit = rw.limit
<1>1. PICK r1 : r1 = [rw EXCEPT !.state = st] OBVIOUS
<1>2. PICK r2 : r2 = [r1 EXCEPT !.why = wh] OBVIOUS
<1>3. r1 \in TaskRow /\ r1.state = st /\ r1.step = rw.step /\ r1.used = rw.used /\ r1.active = rw.active
      /\ r1.limit = rw.limit
  BY <1>1 DEF TaskRow
<1>4. r2 \in TaskRow BY <1>2, <1>3 DEF TaskRow, Whys
<1>5. r2.state = st /\ r2.step = rw.step /\ r2.used = rw.used /\ r2.active = rw.active /\ r2.limit = rw.limit
  BY <1>2, <1>3 DEF TaskRow
<1>6. To(rw, st, wh) = r2 BY <1>1, <1>2 DEF To, TaskRow
<1> QED BY <1>4, <1>5, <1>6 DEF SameWork

\* No attempt is at work any more.
LEMMA RowOff ==
  ASSUME NEW rw, rw \in TaskRow
  PROVE  /\ Off(rw) \in TaskRow /\ Off(rw).state = rw.state /\ Off(rw).why = rw.why /\ Off(rw).step = rw.step
         /\ Off(rw).used = rw.used /\ Off(rw).active = 0 /\ Off(rw).limit = rw.limit
BY DEF TaskRow, Off

\* transition to an end.
LEMMA RowStopped ==
  ASSUME NEW rw, rw \in TaskRow, NEW st, st \in TaskState, NEW wh, wh \in Whys
  PROVE  /\ Stopped(rw, st, wh) \in TaskRow /\ SameWork(rw, Stopped(rw, st, wh))
         /\ Stopped(rw, st, wh).state = st /\ Stopped(rw, st, wh).limit = rw.limit
<1>1. Stopped(rw, st, wh) = Off(To(rw, st, wh)) BY DEF Stopped, Off, To, TaskRow
<1>2. /\ To(rw, st, wh) \in TaskRow /\ SameWork(rw, To(rw, st, wh))
      /\ To(rw, st, wh).state = st /\ To(rw, st, wh).limit = rw.limit
  BY RowTo
<1> QED BY <1>1, <1>2, RowOff DEF SameWork

\* The cost of a turn is charged.
LEMMA RowCharges ==
  ASSUME NEW rw, rw \in TaskRow, NEW n \in Nat
  PROVE  /\ Charged(rw, n) \in TaskRow /\ Charged(rw, n).state = rw.state /\ Charged(rw, n).why = rw.why
         /\ Charged(rw, n).step = rw.step /\ Charged(rw, n).used = rw.used + n /\ Charged(rw, n).active = 0
         /\ Charged(rw, n).limit = rw.limit
<1>1. PICK r1 : r1 = [rw EXCEPT !.used = rw.used + n] OBVIOUS
<1>2. rw.used + n \in Nat
  <2>1. rw.used \in Nat BY DEF TaskRow
  <2> QED BY <2>1
<1>3. /\ r1 \in TaskRow /\ r1.state = rw.state /\ r1.why = rw.why /\ r1.step = rw.step
      /\ r1.used = rw.used + n /\ r1.limit = rw.limit
  BY <1>1, <1>2 DEF TaskRow
<1>4. Charged(rw, n) = Off(r1) BY <1>1 DEF Charged, Off, TaskRow
<1> QED BY <1>3, <1>4, RowOff

\* The state of a row is set.
LEMMA RowSet ==
  ASSUME NEW rw, rw \in TaskRow, NEW st, st \in TaskState, NEW sw, sw = [rw EXCEPT !.state = st]
  PROVE  sw \in TaskRow /\ SameWork(rw, sw) /\ sw.state = st /\ sw.limit = rw.limit
BY DEF TaskRow, SameWork

\* An attempt is over: it has a status and a code, and its cost is charged to it.
Closed(y, status, code) == [y EXCEPT !.status = status, !.code = code, !.charged = y.cost]

\* attempt_transition to an end: the last attempt keeps its step and what it cost.
LEMMA TryIsClosed ==
  ASSUME NEW y, y \in TryRow, NEW status, status \in {"COMPLETED", "FAILED", "BUDGET_EXCEEDED", "CANCELLED"},
         NEW code, code \in Codes
  PROVE  /\ Closed(y, status, code) \in TryRow /\ Closed(y, status, code).step = y.step
         /\ Closed(y, status, code).status = status /\ Closed(y, status, code).cost = y.cost
<1>1. PICK y1 : y1 = [y EXCEPT !.status = status] OBVIOUS
<1>2. y1 \in TryRow /\ y1.step = y.step /\ y1.status = status /\ y1.cost = y.cost BY <1>1 DEF TryRow
<1>3. PICK y2 : y2 = [y1 EXCEPT !.code = code] OBVIOUS
<1>4. y2 \in TryRow /\ y2.step = y.step /\ y2.status = status /\ y2.cost = y.cost BY <1>2, <1>3 DEF TryRow
<1>5. Closed(y, status, code) = [y2 EXCEPT !.charged = y.cost] BY <1>1, <1>3 DEF Closed, TryRow
<1>6. y.cost \in Nat BY DEF TryRow
<1> QED BY <1>4, <1>5, <1>6 DEF TryRow

-----------------------------------------------------------------------------
(* The commits of the driver, the person and the clock keep WriterInv. *)

\* What a commit does not disturb for a page that is being read.
KeepsPages ==
  /\ page' = page
  /\ Grows(tries, tries') /\ Longer(log, log')
  /\ row.state = "SUCCEEDED" => row' = row /\ tries' = tries /\ latest' = latest

\* What is to be shown of the log.
LogStep ==
  log' \in Seq(LogRow) /\ LogInv(log', phase', tries') /\ Longer(log, log') /\ EndTold(row'.state, log')

\* A commit without an event.
LEMMA Silent ==
  ASSUME WriterInv, log' = log, tries' \in Seq(TryRow), Grows(tries, tries'),
         SameTurn(phase, phase', tries, tries'),
         row'.state = row.state \/ row'.state \notin {"FAILED", "CANCELLED"}
  PROVE  LogStep
<1>1. log \in Seq(LogRow) /\ tries \in Seq(TryRow) /\ LogInv(log, phase, tries) /\ EndTold(row.state, log)
  BY DEF WriterInv, DeskShape
<1>2. LogInv(log, phase', tries') BY <1>1, LogStays
<1>3. EndTold(row'.state, log) BY <1>1 DEF EndTold
<1>4. Longer(log, log)
  <2>1. Len(log) \in Nat BY <1>1
  <2> QED BY <2>1 DEF Longer
<1> QED BY <1>1, <1>2, <1>3, <1>4 DEF LogStep

\* Ends(e, s): event e tells that the task is in state s.
Tells(e, s) == e.type = "task/state" /\ e.n[1] = s

\* The event of an end is a row of the log, with its reason.
LEMMA TaskEvent ==
  ASSUME NEW s, s \in Ended, NEW reason, reason \in {"", "user", "error", "user stopped"},
         s # "SUCCEEDED" => reason # "", NEW e, e = Event("task/state", 0, <<s, reason>>)
  PROVE  /\ e \in LogRow /\ e.type \notin {"step/started", "usage"} /\ ReasonGiven(e) /\ Tells(e, s)
<1>1. <<s, reason>> \in Reasons BY DEF Reasons
<1>2. e.type = "task/state" /\ e.try = 0 /\ e.n = <<s, reason>> BY DEF Event
<1>3. e \in [type : {"task/state"}, try : Nat, n : Reasons] BY <1>1 DEF Event
<1>4. e \in LogRow BY <1>3 DEF LogRow
<1>5. e.n[1] = s /\ e.n[2] = reason
  <2>1. <<s, reason>>[1] = s /\ <<s, reason>>[2] = reason OBVIOUS
  <2> QED BY <1>2, <2>1, Zenon
<1>6. ReasonGiven(e) BY <1>1, <1>2, <1>5 DEF ReasonGiven
<1> QED BY <1>2, <1>4, <1>5, <1>6 DEF Tells

\* Any other event is a row of the log.
LEMMA OtherEvent ==
  ASSUME NEW type, type \in EventTypes, NEW try, try \in Nat, NEW n, n \in Nat, NEW e, e = Event(type, try, n)
  PROVE  e \in LogRow /\ e.type = type /\ e.try = try /\ e.n = n /\ ReasonGiven(e)
<1>1. e.type = type /\ e.try = try /\ e.n = n BY DEF Event
<1>2. e \in [type : EventTypes, try : Nat, n : Nat] BY DEF Event
<1>3. e \in LogRow BY <1>2 DEF LogRow
<1>4. ReasonGiven(e) BY <1>1 DEF ReasonGiven, EventTypes
<1> QED BY <1>1, <1>3, <1>4

\* A commit with an event that is neither a start nor a report.
LEMMA Told ==
  ASSUME WriterInv, tries' \in Seq(TryRow), Grows(tries, tries'), SameTurn(phase, phase', tries, tries'),
         NEW e, e \in LogRow, e.type \notin {"step/started", "usage"}, ReasonGiven(e), log' = Append(log, e),
         row'.state = row.state \/ row'.state \notin {"FAILED", "CANCELLED"} \/ Tells(e, row'.state)
  PROVE  LogStep
<1>1. log \in Seq(LogRow) /\ tries \in Seq(TryRow) /\ LogInv(log, phase, tries) /\ EndTold(row.state, log)
  BY DEF WriterInv, DeskShape
<1>2. /\ log' \in Seq(LogRow) /\ Len(log') = Len(log) + 1 /\ log'[Len(log')] = e /\ Longer(log, log')
  BY <1>1, Appended, ZenonT(40)
<1>3. LogInv(log', phase', tries') BY <1>1, LogTold
<1>4. EndTold(row'.state, log')
  <2>1. CASE row'.state = row.state BY <2>1, <1>1, <1>2, StaysTold
  <2>2. CASE row'.state \notin {"FAILED", "CANCELLED"} BY <2>2 DEF EndTold
  <2>3. CASE Tells(e, row'.state)
    <3>1. Len(log') \in 1..Len(log') BY <1>1, <1>2
    <3> QED BY <2>3, <3>1, <1>2 DEF EndTold, Tells
  <2> QED BY <2>1, <2>2, <2>3
<1> QED BY <1>2, <1>3, <1>4 DEF LogStep

\* A commit that leaves attempts and deliverables alone.
LEMMA Quiet ==
  ASSUME WriterInv, tries' = tries, latest' = latest, page' = page, asks' \in Nat, deaths' \in Nat,
         row' \in TaskRow, SameWork(row, row'), DrivenOn(phase, phase', row),
         ask' \in AskRow, ask'.kind = "resource" => row'.limit # NoCap,
         row'.state = "SUCCEEDED" => phase' = "off" /\ row'.step = Steps,
         row.state = "SUCCEEDED" => row' = row,
         LogStep
  PROVE  WriterInv' /\ KeepsPages
<1>1. row \in TaskRow /\ tries \in Seq(TryRow) /\ latest \in [Index -> Nat] /\ StepInv(row, phase, tries, latest)
  BY DEF WriterInv, DeskShape
<1>2. StepInv(row', phase', tries, latest) BY <1>1, RowMoves
<1>3. StepInv(row', phase', tries', latest') BY <1>2
<1>4. phase' \in Phases BY DEF DrivenOn
<1>5. DeskShape' BY <1>1, <1>4 DEF DeskShape, LogStep
<1>6. Grows(tries, tries') BY <1>1, GrowsNot
<1>7. WriterInv' BY <1>3, <1>5 DEF WriterInv, LogStep
<1> QED BY <1>6, <1>7 DEF KeepsPages, LogStep

\* Nothing is written.
LEMMA Unwritten ==
  ASSUME WriterInv, tries' = tries, latest' = latest, log' = log, page' = page, asks' \in Nat, deaths' \in Nat,
         row' \in TaskRow, SameWork(row, row'), DrivenOn(phase, phase', row),
         ask' \in AskRow, ask'.kind = "resource" => row'.limit # NoCap,
         phase' \in {"begin", "turn"} => phase' = phase,
         row'.state = row.state \/ row'.state \in {"QUEUED", "RUNNING", "WAITING"},
         row.state = "SUCCEEDED" => row' = row /\ phase' = "off"
  PROVE  WriterInv' /\ KeepsPages
<1>1. tries \in Seq(TryRow) BY DEF WriterInv, DeskShape
<1>2. Grows(tries, tries') BY <1>1, GrowsNot
<1>3. SameTurn(phase, phase', tries, tries') BY DEF SameTurn
<1>4. LogStep BY <1>1, <1>2, <1>3, Silent
<1>5. row'.state = "SUCCEEDED" => row.state = "SUCCEEDED" OBVIOUS
<1>6. row.state = "SUCCEEDED" => row.step = Steps BY DEF WriterInv, StepInv, SucceededRests
<1>7. row'.state = "SUCCEEDED" => phase' = "off" /\ row'.step = Steps BY <1>5, <1>6
<1> QED BY <1>4, <1>7, Quiet

\* An event is written.
LEMMA Written ==
  ASSUME WriterInv, tries' = tries, latest' = latest, page' = page, asks' \in Nat, deaths' \in Nat,
         row' \in TaskRow, SameWork(row, row'), DrivenOn(phase, phase', row),
         ask' \in AskRow, ask'.kind = "resource" => row'.limit # NoCap,
         phase' \in {"begin", "turn"} => phase \in {"begin", "turn"},
         NEW e, e \in LogRow, e.type \notin {"step/started", "usage"}, ReasonGiven(e), log' = Append(log, e),
         row'.state = row.state \/ row'.state \in {"QUEUED", "RUNNING", "WAITING"} \/ Tells(e, row'.state),
         row'.state = "SUCCEEDED" => phase' = "off" /\ row'.step = Steps,
         row.state # "SUCCEEDED"
  PROVE  WriterInv' /\ KeepsPages
<1>1. tries \in Seq(TryRow) BY DEF WriterInv, DeskShape
<1>2. Grows(tries, tries') BY <1>1, GrowsNot
<1>3. SameTurn(phase, phase', tries, tries') BY DEF SameTurn
<1>4. LogStep BY <1>1, <1>2, <1>3, Told
<1> QED BY <1>4, Quiet

\* Where a driver is, the task has not succeeded; its attempt is the last one.
LEMMA WhereItIs ==
  ASSUME WriterInv
  PROVE  /\ row \in TaskRow /\ tries \in Seq(TryRow) /\ log \in Seq(LogRow) /\ ask \in AskRow
         /\ latest \in [Index -> Nat]
         /\ phase \in Phases /\ asks \in Nat /\ deaths \in Nat /\ Len(tries) \in Nat
         /\ ask.kind = "resource" => row.limit # NoCap
         /\ phase # "off" => row.state # "SUCCEEDED"
         /\ row.state = "SUCCEEDED" => row.step = Steps
         /\ SameWork(row, row) /\ (phase' = phase => DrivenOn(phase, phase', row))
<1>1. DeskShape /\ SucceededRests(row, phase) BY DEF WriterInv, StepInv
<1>2. Len(tries) \in Nat BY <1>1 DEF DeskShape
<1> QED BY <1>1, <1>2 DEF DeskShape, SucceededRests, SameWork, DrivenOn

\* A question is put.
LEMMA Opens ==
  ASSUME WriterInv, NEW r, r \in TaskRow, NEW kind, kind \in {"resource", "tool_approval", "input"},
         NEW missing \in BOOLEAN, OpenQuestion(r, kind, missing)
  PROVE  /\ row' = To(r, "WAITING", kind) /\ row' \in TaskRow /\ SameWork(r, row')
         /\ row'.state = "WAITING" /\ row'.limit = r.limit
         /\ ask' \in AskRow /\ ask'.kind = kind /\ asks' \in Nat
<1>1. row' = To(r, "WAITING", kind) BY DEF OpenQuestion, To
<1>2. "WAITING" \in TaskState /\ kind \in Whys BY DEF TaskState, Whys
<1>3. /\ To(r, "WAITING", kind) \in TaskRow /\ SameWork(r, To(r, "WAITING", kind))
      /\ To(r, "WAITING", kind).state = "WAITING" /\ To(r, "WAITING", kind).limit = r.limit
  BY <1>2, RowTo
<1>4. row.step \in Nat
  <2>1. row.step \in 0..Steps BY WhereItIs DEF TaskRow
  <2> QED BY <2>1
<1>5. ask' = [status |-> "pending", kind |-> kind, step |-> row.step, missing |-> missing, late |-> FALSE,
                stale |-> FALSE]
  BY DEF OpenQuestion, NoQuestion
<1>6. ask' \in AskRow BY <1>4, <1>5 DEF AskRow
<1>7. asks' \in Nat BY WhereItIs DEF OpenQuestion
<1> QED BY <1>1, <1>3, <1>5, <1>6, <1>7

\* The task comes to an end.
LEMMA ComesToEnd ==
  ASSUME WriterInv, NEW s, s \in Ended, NEW reason, reason \in {"", "user", "error", "user stopped"},
         s # "SUCCEEDED" => reason # "", s = "SUCCEEDED" => row.step = Steps,
         End(s, reason), tries' = tries, latest' = latest, deaths' = deaths, page' = page,
         phase # "off", phase' = "off"
  PROVE  WriterInv' /\ KeepsPages
<1>1. row' = Stopped(row, s, "") BY DEF End, Stopped
<1>2. row \in TaskRow /\ asks \in Nat /\ deaths \in Nat /\ ask \in AskRow /\ row.state # "SUCCEEDED"
      /\ (ask.kind = "resource" => row.limit # NoCap)
  BY WhereItIs
<1>3. s \in TaskState /\ "" \in Whys BY DEF TaskState, Whys
<1>4. row' \in TaskRow /\ SameWork(row, row') /\ row'.state = s /\ row'.limit = row.limit
  <2>1. /\ Stopped(row, s, "") \in TaskRow /\ SameWork(row, Stopped(row, s, ""))
        /\ Stopped(row, s, "").state = s /\ Stopped(row, s, "").limit = row.limit
    <3>1. row \in TaskRow BY <1>2
    <3> QED BY <1>3, <3>1, RowStopped, ZenonT(40)
  <2> QED BY <1>1, <2>1
<1>5. ask' \in AskRow /\ ask'.kind = ask.kind
  <2>1. ask' = IF ask.status = "pending" THEN [ask EXCEPT !.status = "cancelled"] ELSE ask BY DEF End
  <2> QED BY <1>2, <2>1 DEF AskRow
<1>6. asks' \in Nat /\ deaths' \in Nat BY <1>2 DEF End
<1>7. PICK e : e = Event("task/state", 0, <<s, reason>>) OBVIOUS
<1>8. e \in LogRow /\ e.type \notin {"step/started", "usage"} /\ ReasonGiven(e) /\ Tells(e, s) BY <1>7, TaskEvent
<1>9. log' = Append(log, e) BY <1>7 DEF End
<1>10. DrivenOn(phase, phase', row) BY DEF DrivenOn, Phases, AtTry, Results
<1>11. row'.state = "SUCCEEDED" => phase' = "off" /\ row'.step = Steps BY <1>4 DEF SameWork
<1> QED BY <1>2, <1>4, <1>5, <1>6, <1>8, <1>9, <1>10, <1>11, Written

LEMMA KeepsDrive ==
  ASSUME WriterInv, Drive
  PROVE  WriterInv' /\ KeepsPages
<1>1. /\ row' = row /\ tries' = tries /\ latest' = latest /\ log' = log /\ page' = page
      /\ asks' = asks /\ deaths' = deaths /\ ask' = ask /\ phase' = "step" /\ row.state # "SUCCEEDED"
  BY DEF Drive, Now, OnlyChanged
<1>2. DrivenOn(phase, phase', row) BY <1>1 DEF DrivenOn, Phases, AtTry, Results
<1> QED BY <1>1, <1>2, WhereItIs, Unwritten

LEMMA KeepsDies ==
  ASSUME WriterInv, Dies
  PROVE  WriterInv' /\ KeepsPages
<1>1. /\ row' = row /\ tries' = tries /\ latest' = latest /\ log' = log /\ page' = page
      /\ asks' = asks /\ deaths' = deaths + 1 /\ ask' = ask /\ phase' = "off" /\ phase # "off"
  BY DEF Dies
<1>2. DrivenOn(phase, phase', row) BY <1>1 DEF DrivenOn, Phases, AtTry, Results
<1>3. deaths' \in Nat BY <1>1, WhereItIs
<1> QED BY <1>1, <1>2, <1>3, WhereItIs, Unwritten

LEMMA KeepsExpires ==
  ASSUME WriterInv, Expires
  PROVE  WriterInv' /\ KeepsPages
<1>1. /\ row' = row /\ tries' = tries /\ latest' = latest /\ log' = log /\ page' = page
      /\ asks' = asks /\ deaths' = deaths /\ ask' = [ask EXCEPT !.late = TRUE] /\ phase' = phase
  BY DEF Expires, Now, OnlyChanged
<1>2. ask' \in AskRow /\ ask'.kind = ask.kind
  <2>1. ask \in AskRow BY WhereItIs
  <2> QED BY <1>1, <2>1 DEF AskRow
<1>3. row.state = "SUCCEEDED" => phase' = "off" BY <1>1, WhereItIs
<1> QED BY <1>1, <1>2, <1>3, WhereItIs, Unwritten

LEMMA KeepsRequeue ==
  ASSUME WriterInv, Requeue
  PROVE  WriterInv' /\ KeepsPages
<1>1. /\ row' = IF row.state = "RUNNING" THEN [row EXCEPT !.state = "QUEUED"] ELSE row
      /\ tries' = tries /\ latest' = latest /\ log' = log /\ page' = page
      /\ asks' = asks /\ deaths' = deaths /\ ask' = ask /\ phase' = "step" /\ phase = "requeue"
  BY DEF Requeue, Now, OnlyChanged
<1>2. DrivenOn(phase, phase', row) BY <1>1 DEF DrivenOn, Phases, AtTry, Results
<1>3. row \in TaskRow /\ row.state # "SUCCEEDED" BY <1>1, WhereItIs
<1>4. "QUEUED" \in TaskState BY DEF TaskState
<1>5. /\ row' \in TaskRow /\ SameWork(row, row') /\ row'.limit = row.limit
      /\ (row'.state = row.state \/ row'.state = "QUEUED")
  <2>1. CASE row.state = "RUNNING"
    <3>1. row' = [row EXCEPT !.state = "QUEUED"] BY <1>1, <2>1
    <3> QED BY <1>3, <1>4, <3>1, RowSet
  <2>2. CASE row.state # "RUNNING" BY <1>1, <2>2, WhereItIs
  <2> QED BY <2>1, <2>2
<1> QED BY <1>1, <1>2, <1>3, <1>5, WhereItIs, Unwritten

LEMMA KeepsBackOnline ==
  ASSUME WriterInv, BackOnline
  PROVE  WriterInv' /\ KeepsPages
<1>1. /\ row' = To(row, "QUEUED", "") /\ row.state = "WAITING"
      /\ tries' = tries /\ latest' = latest /\ log' = log /\ page' = page
      /\ asks' = asks /\ deaths' = deaths /\ ask' = ask /\ phase' = phase
  BY DEF BackOnline, Now, OnlyChanged, To
<1>2. "QUEUED" \in TaskState /\ "" \in Whys BY DEF TaskState, Whys
<1>3. row' \in TaskRow /\ SameWork(row, row') /\ row'.state = "QUEUED" /\ row'.limit = row.limit
  <2>1. row \in TaskRow BY WhereItIs
  <2>2. /\ To(row, "QUEUED", "") \in TaskRow /\ SameWork(row, To(row, "QUEUED", ""))
        /\ To(row, "QUEUED", "").state = "QUEUED" /\ To(row, "QUEUED", "").limit = row.limit
    BY <1>2, <2>1, RowTo, ZenonT(40)
  <2> QED BY <1>1, <2>2
<1> QED BY <1>1, <1>3, WhereItIs, Unwritten

LEMMA KeepsTurnAsks ==
  ASSUME WriterInv, TurnAsks
  PROVE  WriterInv' /\ KeepsPages
<1>1. /\ OpenQuestion(row, "tool_approval", FALSE) /\ row.state = "RUNNING"
      /\ tries' = tries /\ latest' = latest /\ log' = log /\ page' = page
      /\ deaths' = deaths /\ phase' = phase
  BY DEF TurnAsks, Now, OnlyChanged
<1>2. /\ row' \in TaskRow /\ SameWork(row, row') /\ row'.state = "WAITING"
      /\ ask' \in AskRow /\ ask'.kind = "tool_approval" /\ asks' \in Nat
  BY <1>1, WhereItIs, Opens
<1> QED BY <1>1, <1>2, WhereItIs, Unwritten

LEMMA KeepsQuestion ==
  ASSUME WriterInv, Question
  PROVE  WriterInv' /\ KeepsPages
<1>1. /\ tries' = tries /\ latest' = latest /\ log' = log /\ page' = page /\ deaths' = deaths
      /\ phase' = "off" /\ phase # "off"
  BY DEF Question, Now, OnlyChanged
<1>2. DrivenOn(phase, phase', row) BY <1>1 DEF DrivenOn, Phases, AtTry, Results
<1>3. CASE CanWait
  <2>1. OpenQuestion(row, "input", phase = "no_data question") BY <1>3 DEF Question
  <2>2. PICK missing \in BOOLEAN : OpenQuestion(row, "input", missing)
    <3>1. (phase = "no_data question") \in BOOLEAN OBVIOUS
    <3> QED BY <2>1, <3>1
  <2>3. /\ row' \in TaskRow /\ SameWork(row, row') /\ row'.state = "WAITING"
        /\ ask' \in AskRow /\ ask'.kind = "input" /\ asks' \in Nat
    BY <2>2, WhereItIs, Opens
  <2> QED BY <1>1, <1>2, <2>3, WhereItIs, Unwritten
<1>4. CASE ~CanWait
  <2>1. row' = row /\ ask' = ask /\ asks' = asks BY <1>4 DEF Question, OnlyChanged
  <2> QED BY <1>1, <1>2, <2>1, WhereItIs, Unwritten
<1> QED BY <1>3, <1>4

LEMMA KeepsGiveUp ==
  ASSUME WriterInv, GiveUp
  PROVE  WriterInv' /\ KeepsPages
<1>1. /\ tries' = tries /\ latest' = latest /\ page' = page /\ deaths' = deaths
      /\ phase' = "off" /\ phase # "off"
  BY DEF GiveUp, Now, OnlyChanged
<1>2. DrivenOn(phase, phase', row) BY <1>1 DEF DrivenOn, Phases, AtTry, Results
<1>3. CASE OnlyChanged({})
  <2>1. row' = row /\ ask' = ask /\ asks' = asks /\ log' = log BY <1>3 DEF OnlyChanged
  <2> QED BY <1>1, <1>2, <2>1, WhereItIs, Unwritten
<1>4. CASE End("FAILED", "error") BY <1>1, <1>4, ComesToEnd DEF Ended
<1>5. CASE End("CANCELLED", "user") BY <1>1, <1>5, ComesToEnd DEF Ended
<1>6. CASE row' = [row EXCEPT !.state = "WAITING", !.why = "environment"] /\ OnlyChanged({"row"})
  <2>1. row' = To(row, "WAITING", "environment") /\ log' = log /\ ask' = ask /\ asks' = asks
    BY <1>6 DEF OnlyChanged, To
  <2>2. "WAITING" \in TaskState /\ "environment" \in Whys BY DEF TaskState, Whys
  <2>3. row' \in TaskRow /\ SameWork(row, row') /\ row'.state = "WAITING" /\ row'.limit = row.limit
    <3>1. row \in TaskRow BY WhereItIs
    <3>2. /\ To(row, "WAITING", "environment") \in TaskRow /\ SameWork(row, To(row, "WAITING", "environment"))
          /\ To(row, "WAITING", "environment").state = "WAITING"
          /\ To(row, "WAITING", "environment").limit = row.limit
      BY <2>2, <3>1, RowTo
    <3> QED BY <2>1, <3>2
  <2> QED BY <1>1, <1>2, <2>1, <2>3, WhereItIs, Unwritten
<1> QED BY <1>3, <1>4, <1>5, <1>6 DEF GiveUp

LEMMA KeepsFinish ==
  ASSUME WriterInv, Finish
  PROVE  WriterInv' /\ KeepsPages
<1>1. /\ tries' = tries /\ latest' = latest /\ page' = page /\ deaths' = deaths
      /\ phase' = "off" /\ phase = "finish"
  BY DEF Finish, Now, OnlyChanged
<1>2. DrivenOn(phase, phase', row) BY <1>1 DEF DrivenOn, Phases, AtTry, Results
<1>3. row.step = Steps BY <1>1 DEF WriterInv, StepInv, AtLast
<1>4. CASE row.state \in {"QUEUED", "RUNNING"}
  <2>1. End("SUCCEEDED", "") BY <1>4 DEF Finish
  <2> QED BY <1>1, <1>3, <2>1, ComesToEnd DEF Ended
<1>5. CASE row.state \notin {"QUEUED", "RUNNING"}
  <2>1. row' = row /\ log' = log /\ ask' = ask /\ asks' = asks BY <1>5 DEF Finish, OnlyChanged
  <2> QED BY <1>1, <1>2, <2>1, WhereItIs, Unwritten
<1> QED BY <1>4, <1>5

\* The number of the attempt and the step in an event.
LEMMA Numbers ==
  ASSUME WriterInv
  PROVE  Present \in Nat /\ row.step \in Nat /\ 0 \in Nat /\ row.step \in 0..Steps
<1>1. row \in TaskRow /\ Len(tries) \in Nat BY WhereItIs
<1>2. row.step \in 0..Steps BY <1>1 DEF TaskRow
<1> QED BY <1>1, <1>2 DEF Present

\* An event is all that is written.
LEMMA Tells1 ==
  ASSUME WriterInv, tries' = tries, latest' = latest, page' = page, asks' = asks, deaths' = deaths,
         row' = row, ask' = ask, DrivenOn(phase, phase', row), phase # "off",
         phase' \in {"begin", "turn"} => phase \in {"begin", "turn"},
         NEW type, type \in EventTypes \ {"step/started", "usage"}, NEW try, try \in Nat, NEW n, n \in Nat,
         log' = Append(log, Event(type, try, n))
  PROVE  WriterInv' /\ KeepsPages
<1>1. PICK e : e = Event(type, try, n) OBVIOUS
<1>2. e \in LogRow /\ e.type = type /\ ReasonGiven(e) BY <1>1, OtherEvent
<1>3. log' = Append(log, e) /\ e.type \notin {"step/started", "usage"} BY <1>1, <1>2
<1>4. /\ row.state # "SUCCEEDED" /\ row \in TaskRow /\ SameWork(row, row) /\ ask \in AskRow
      /\ asks \in Nat /\ deaths \in Nat /\ (ask.kind = "resource" => row.limit # NoCap)
  BY WhereItIs
<1> QED BY <1>2, <1>3, <1>4, Written

LEMMA KeepsTurnStarted ==
  ASSUME WriterInv, TurnStarted
  PROVE  WriterInv' /\ KeepsPages
<1>1. /\ row' = row /\ tries' = tries /\ latest' = latest /\ page' = page
      /\ asks' = asks /\ deaths' = deaths /\ ask' = ask /\ phase' = "turn" /\ phase = "begin"
      /\ log' = Append(log, Event("turn/started", 0, 0))
  BY DEF TurnStarted, Now, OnlyChanged
<1>2. DrivenOn(phase, phase', row) BY <1>1 DEF DrivenOn, Phases, AtTry, Results
<1>3. "turn/started" \in EventTypes \ {"step/started", "usage"} BY DEF EventTypes
<1> QED BY <1>1, <1>2, <1>3, Numbers, Tells1

\* The end of a turn is one more event at most, and an open question is out of date.
LEMMA OverTurn ==
  ASSUME WriterInv, NEW results, results \subseteq Results, TurnOver(results)
  PROVE  /\ phase = "turn" /\ phase' \in Results /\ asks' = asks
         /\ ask' \in AskRow /\ (ask'.kind = "resource" => row.limit # NoCap)
         /\ DrivenOn(phase, phase', row)
<1>1. phase = "turn" /\ phase' \in Results /\ asks' = asks
  BY DEF TurnOver, Now
<1>2. ask' = [ask EXCEPT !.stale = (row.state = "WAITING")]
  BY DEF TurnOver
<1>3. ask \in AskRow /\ (ask.kind = "resource" => row.limit # NoCap)
  BY WhereItIs
<1>4. PICK b \in BOOLEAN : b = (row.state = "WAITING") OBVIOUS
<1>5. ask' = [ask EXCEPT !.stale = b] BY <1>2, <1>4
<1>6. ask' \in AskRow BY <1>3, <1>5 DEF AskRow
<1>7. ask'.kind = ask.kind BY <1>3, <1>5 DEF AskRow
<1>8. DrivenOn(phase, phase', row) BY <1>1 DEF DrivenOn, Phases, AtTry, Results
<1> QED BY <1>1, <1>3, <1>6, <1>7, <1>8

LEMMA KeepsTurnEnds ==
  ASSUME WriterInv, TurnEnds
  PROVE  WriterInv' /\ KeepsPages
<1>1. /\ row' = row /\ tries' = tries /\ latest' = latest /\ page' = page /\ deaths' = deaths
      /\ log' = Append(log, Event("turn/completed", 0, 0))
  BY DEF TurnEnds, OnlyChanged
<1>2. /\ phase = "turn" /\ phase' \in Results /\ asks' = asks
      /\ ask' \in AskRow /\ (ask'.kind = "resource" => row.limit # NoCap)
      /\ DrivenOn(phase, phase', row)
  <2>1. (IF row.state = "WAITING" THEN GivenUp ELSE Results) \subseteq Results
    BY DEF GivenUp, Results
  <2>2. TurnOver(IF row.state = "WAITING" THEN GivenUp ELSE Results)
    BY DEF TurnEnds
  <2> QED BY <2>1, <2>2, OverTurn
<1>3. "turn/completed" \in EventTypes \ {"step/started", "usage"} BY DEF EventTypes
<1>4. phase' \notin {"begin", "turn"} BY <1>2 DEF Results
<1>5. PICK e : e = Event("turn/completed", 0, 0) OBVIOUS
<1>6. e \in LogRow /\ e.type = "turn/completed" /\ ReasonGiven(e) BY <1>3, <1>5, Numbers, OtherEvent
<1>7. log' = Append(log, e) /\ e.type \notin {"step/started", "usage"} BY <1>1, <1>5, <1>6
<1>8. /\ row.state # "SUCCEEDED" /\ row \in TaskRow /\ SameWork(row, row)
      /\ asks \in Nat /\ deaths \in Nat
  BY <1>2, WhereItIs
<1> QED BY <1>1, <1>2, <1>4, <1>6, <1>7, <1>8, Written

LEMMA KeepsTurnGivenUp ==
  ASSUME WriterInv, TurnGivenUp
  PROVE  WriterInv' /\ KeepsPages
<1>1. /\ row' = row /\ tries' = tries /\ latest' = latest /\ page' = page /\ deaths' = deaths
      /\ log' = log
  BY DEF TurnGivenUp, OnlyChanged
<1>2. /\ phase = "turn" /\ phase' \in Results /\ asks' = asks
      /\ ask' \in AskRow /\ (ask'.kind = "resource" => row.limit # NoCap)
      /\ DrivenOn(phase, phase', row)
  <2>1. {"bad", "error"} \subseteq Results BY DEF Results
  <2> QED BY <2>1, OverTurn DEF TurnGivenUp
<1>3. phase' \notin {"begin", "turn"} BY <1>2 DEF Results
<1>4. /\ row.state # "SUCCEEDED" /\ row \in TaskRow /\ SameWork(row, row)
      /\ asks \in Nat /\ deaths \in Nat
  BY <1>2, WhereItIs
<1> QED BY <1>1, <1>2, <1>3, <1>4, Unwritten

LEMMA KeepsReject ==
  ASSUME WriterInv, Reject
  PROVE  WriterInv' /\ KeepsPages
<1>1. /\ row' = row /\ tries' = tries /\ latest' = latest /\ page' = page
      /\ asks' = asks /\ deaths' = deaths /\ ask' = ask /\ phase' \in {"judge", "no_data event"} /\ phase # "off"
      /\ log' = Append(log, Event("step/rejected", Present, row.step))
  BY DEF Reject, Now, OnlyChanged
<1>2. DrivenOn(phase, phase', row) BY <1>1 DEF DrivenOn, Phases, AtTry, Results
<1>3. "step/rejected" \in EventTypes \ {"step/started", "usage"} BY DEF EventTypes
<1> QED BY <1>1, <1>2, <1>3, Numbers, Tells1

LEMMA KeepsNoDataEvent ==
  ASSUME WriterInv, NoDataEvent
  PROVE  WriterInv' /\ KeepsPages
<1>1. /\ row' = row /\ tries' = tries /\ latest' = latest /\ page' = page
      /\ asks' = asks /\ deaths' = deaths /\ ask' = ask /\ phase' = "no_data question" /\ phase # "off"
      /\ log' \in {log, Append(log, Event("data.missing", Present, 0))}
  BY DEF NoDataEvent, Now, OnlyChanged
<1>2. DrivenOn(phase, phase', row) BY <1>1 DEF DrivenOn, Phases, AtTry, Results
<1>3. "data.missing" \in EventTypes \ {"step/started", "usage"} BY DEF EventTypes
<1>4. CASE log' = log BY <1>1, <1>2, <1>4, WhereItIs, Unwritten
<1>5. CASE log' = Append(log, Event("data.missing", Present, 0)) BY <1>1, <1>2, <1>3, <1>5, Numbers, Tells1
<1> QED BY <1>1, <1>4, <1>5

LEMMA KeepsCancelIt ==
  ASSUME WriterInv, CancelIt
  PROVE  WriterInv' /\ KeepsPages
<1>1. /\ tries' = tries /\ latest' = latest /\ page' = page /\ deaths' = deaths
      /\ phase' = phase /\ row.state \notin Ended
  BY DEF CancelIt, Now, OnlyChanged
<1>2. /\ row \in TaskRow /\ row.state # "SUCCEEDED" /\ ask \in AskRow /\ asks \in Nat /\ deaths \in Nat
      /\ (ask.kind = "resource" => row.limit # NoCap) /\ DrivenOn(phase, phase', row)
  BY <1>1, WhereItIs DEF Ended
<1>3. PICK r : r = [row EXCEPT !.cancel = TRUE] OBVIOUS
<1>4. r \in TaskRow /\ r.state = row.state /\ r.step = row.step /\ r.used = row.used /\ r.active = row.active
      /\ r.limit = row.limit
  <2>1. r \in TaskRow BY <1>2, <1>3 DEF TaskRow
  <2> QED BY <1>2, <1>3, <2>1 DEF TaskRow
<1>5. CASE row.state = "RUNNING"
  <2>1. row' = r /\ log' = log /\ ask' = ask /\ asks' = asks BY <1>3, <1>5 DEF CancelIt, OnlyChanged
  <2>2. SameWork(row, row') BY <1>4, <2>1 DEF SameWork
  <2> QED BY <1>1, <1>2, <1>4, <2>1, <2>2, Unwritten
<1>6. CASE row.state # "RUNNING"
  <2>1. row' = Stopped(r, "CANCELLED", "")
    <3>1. row' = [row EXCEPT !.cancel = TRUE, !.state = "CANCELLED", !.why = "", !.active = 0]
      BY <1>6 DEF CancelIt
    <3> QED BY <1>2, <1>3, <3>1 DEF Stopped, TaskRow
  <2>2. "CANCELLED" \in TaskState /\ "" \in Whys /\ "CANCELLED" \in Ended BY DEF TaskState, Whys, Ended
  <2>3. /\ Stopped(r, "CANCELLED", "") \in TaskRow /\ SameWork(r, Stopped(r, "CANCELLED", ""))
        /\ Stopped(r, "CANCELLED", "").state = "CANCELLED" /\ Stopped(r, "CANCELLED", "").limit = r.limit
    <3>1. r \in TaskRow BY <1>4
    <3> QED BY <2>2, <3>1, RowStopped, ZenonT(40)
  <2>4. row' \in TaskRow /\ SameWork(row, row') /\ row'.state = "CANCELLED" /\ row'.limit = row.limit
    BY <1>4, <2>1, <2>3 DEF SameWork
  <2>5. ask' = (IF ask.status = "pending" THEN [ask EXCEPT !.status = "cancelled"] ELSE ask) /\ asks' = asks
    BY <1>6 DEF CancelIt
  <2>6. ask' \in AskRow /\ ask'.kind = ask.kind BY <1>2, <2>5 DEF AskRow
  <2>7. PICK e : e = Event("task/state", 0, <<"CANCELLED", "user">>) OBVIOUS
  <2>8. e \in LogRow /\ e.type \notin {"step/started", "usage"} /\ ReasonGiven(e) /\ Tells(e, "CANCELLED")
    BY <2>2, <2>7, TaskEvent
  <2>9. log' = Append(log, e) BY <1>6, <2>7 DEF CancelIt
  <2> QED BY <1>1, <1>2, <2>4, <2>5, <2>6, <2>8, <2>9, Written
<1> QED BY <1>5, <1>6

\* An answer: the task goes on, or fails and says that the user stopped it.
LEMMA KeepsAnswer ==
  ASSUME DeskAssumption, WriterInv, NEW choice, AnswerTo(choice)
  PROVE  WriterInv' /\ KeepsPages
<1>1. /\ tries' = tries /\ latest' = latest /\ page' = page /\ deaths' = deaths
      /\ phase' = phase /\ row.state = "WAITING" /\ asks' = asks
      /\ ask' = [ask EXCEPT !.status = "consumed"]
  BY DEF AnswerTo, Now, OnlyChanged
<1>2. /\ row \in TaskRow /\ ask \in AskRow /\ asks \in Nat /\ deaths \in Nat
      /\ (ask.kind = "resource" => row.limit # NoCap) /\ DrivenOn(phase, phase', row)
  BY <1>1, WhereItIs
<1>3. ask' \in AskRow /\ ask'.kind = ask.kind BY <1>1, <1>2 DEF AskRow
<1>4. CASE choice = "go"
  <2>1. /\ row' = [row EXCEPT !.state = "QUEUED", !.why = "",
                              !.limit = IF ask.kind = "resource" THEN @ + 1 ELSE @]
        /\ log' = log
    BY <1>4 DEF AnswerTo, OnlyChanged
  <2>2. PICK r : r = To(row, "QUEUED", "") OBVIOUS
  <2>3. r \in TaskRow /\ SameWork(row, r) /\ r.state = "QUEUED" /\ r.limit = row.limit
    <3>1. "QUEUED" \in TaskState /\ "" \in Whys BY DEF TaskState, Whys
    <3>2. /\ To(row, "QUEUED", "") \in TaskRow /\ SameWork(row, To(row, "QUEUED", ""))
          /\ To(row, "QUEUED", "").state = "QUEUED" /\ To(row, "QUEUED", "").limit = row.limit
      BY <1>2, <3>1, RowTo
    <3> QED BY <2>2, <3>2
  <2>4. PICK lim : lim = (IF ask.kind = "resource" THEN row.limit + 1 ELSE row.limit) OBVIOUS
  <2>5. lim \in Nat \cup {NoCap} /\ (ask.kind = "resource" => lim # NoCap)
    <3>1. row.limit \in Nat \cup {NoCap} BY <1>2 DEF TaskRow
    <3>2. NoCap \notin Int BY DEF DeskAssumption
    <3>3. CASE ask.kind = "resource"
      <4>1. row.limit \in Nat BY <3>1, <3>3, <1>2
      <4>2. lim = row.limit + 1 BY <2>4, <3>3
      <4>3. lim \in Nat BY <4>1, <4>2
      <4> QED BY <4>3, <3>2
    <3>4. CASE ask.kind # "resource" BY <2>4, <3>1, <3>4
    <3> QED BY <3>3, <3>4
  <2>6. row' = [r EXCEPT !.limit = lim]
    <3>1. row' = [row EXCEPT !.state = "QUEUED", !.why = "", !.limit = lim] BY <2>1, <2>4
    <3> QED BY <3>1, <2>2, <1>2 DEF To, TaskRow
  <2>7. row' \in TaskRow BY <2>3, <2>5, <2>6 DEF TaskRow
  <2>8. row'.state = r.state /\ row'.step = r.step /\ row'.used = r.used /\ row'.active = r.active /\ row'.limit = lim
    <3>1. r \in TaskRow BY <2>3
    <3> QED BY <2>6, <3>1 DEF TaskRow
  <2>9. SameWork(row, row') BY <2>3, <2>8 DEF SameWork
  <2>10. row'.state = "QUEUED" /\ (ask'.kind = "resource" => row'.limit # NoCap) BY <1>3, <2>3, <2>5, <2>8
  <2> QED BY <1>1, <1>2, <1>3, <2>1, <2>7, <2>9, <2>10, Unwritten
<1>5. CASE choice # "go"
  <2>1. /\ row' = Stopped(row, "FAILED", "")
        /\ log' = Append(log, Event("task/state", 0, <<"FAILED", "user stopped">>))
    BY <1>5 DEF AnswerTo, Stopped
  <2>2. "FAILED" \in TaskState /\ "" \in Whys /\ "FAILED" \in Ended BY DEF TaskState, Whys, Ended
  <2>3. /\ Stopped(row, "FAILED", "") \in TaskRow /\ SameWork(row, Stopped(row, "FAILED", ""))
        /\ Stopped(row, "FAILED", "").state = "FAILED" /\ Stopped(row, "FAILED", "").limit = row.limit
    BY <1>2, <2>2, RowStopped
  <2>4. row' \in TaskRow /\ SameWork(row, row') /\ row'.state = "FAILED" /\ row'.limit = row.limit
    BY <2>1, <2>3
  <2>5. PICK e : e = Event("task/state", 0, <<"FAILED", "user stopped">>) OBVIOUS
  <2>6. e \in LogRow /\ e.type \notin {"step/started", "usage"} /\ ReasonGiven(e) /\ Tells(e, "FAILED")
    BY <2>2, <2>5, TaskEvent
  <2>7. log' = Append(log, e) BY <2>1, <2>5
  <2> QED BY <1>1, <1>2, <1>3, <2>4, <2>6, <2>7, Written
<1> QED BY <1>4, <1>5

\* The parts of WriterInv put together, for a commit that moves more than the row's state.
LEMMA Together ==
  ASSUME WriterInv, row' \in TaskRow, tries' \in Seq(TryRow), latest' \in [Index -> Nat], ask' \in AskRow,
         phase' \in Phases, asks' \in Nat, deaths' \in Nat, ask'.kind = "resource" => row'.limit # NoCap,
         StepInv(row', phase', tries', latest'), LogStep,
         page' = page, Grows(tries, tries'), row.state # "SUCCEEDED"
  PROVE  WriterInv' /\ KeepsPages
<1>1. DeskShape' BY DEF DeskShape, LogStep
<1>2. WriterInv' BY <1>1 DEF WriterInv, LogStep
<1> QED BY <1>2 DEF KeepsPages, LogStep

\* At an attempt: it is the last one, of the step of the cursor, and not charged yet.
LEMMA AtTheTry ==
  ASSUME WriterInv, phase \in AtTry
  PROVE  /\ Len(tries) > 0 /\ Len(tries) \in 1..Len(tries) /\ Len(tries) - 1 \in 0..Len(tries)
         /\ row.step \in Index /\ tries[Len(tries)].step = row.step
         /\ tries[Len(tries)] \in TryRow /\ row.state # "SUCCEEDED"
         /\ Covered(row, tries) /\ row.used <= CostOf(tries)[Len(tries) - 1]
         /\ \A k \in Index : k < row.step => DoneStep(k, tries, latest)
<1>1. tries \in Seq(TryRow) /\ Len(tries) \in Nat BY WhereItIs
<1>2. Len(tries) > 0 /\ row.step \in Index /\ tries[Len(tries)].step = row.step
  BY DEF WriterInv, StepInv, AtLast
<1>3. Len(tries) \in 1..Len(tries) /\ Len(tries) - 1 \in 0..Len(tries) BY <1>1, <1>2
<1>4. tries[Len(tries)] \in TryRow BY <1>1, <1>3
<1>5. Covered(row, tries) /\ row.used <= CostOf(tries)[Len(tries) - 1]
  BY DEF WriterInv, StepInv, UsedIsCovered
<1>6. \A k \in Index : k < row.step => DoneStep(k, tries, latest) BY DEF WriterInv, StepInv, StepsDone
<1>7. row.state # "SUCCEEDED" BY WhereItIs DEF AtTry, Results
<1> QED BY <1>2, <1>3, <1>4, <1>5, <1>6, <1>7

\* An attempt is opened: a new last row, of the step of the cursor.
LEMMA OpensTry ==
  ASSUME DeskAssumption, WriterInv, row.state # "SUCCEEDED", row.step < Steps,
         NEW y, y \in TryRow, y.step = row.step, tries' = Append(tries, y),
         row' \in TaskRow, row'.state = "RUNNING", row'.step = row.step, row'.used = row.used,
         row'.limit = row.limit, row'.active = Len(tries) + 1,
         log' = log, latest' = latest, ask' = ask, asks' = asks, deaths' = deaths, page' = page, phase' = "announce"
  PROVE  WriterInv' /\ KeepsPages
<1>1. /\ row \in TaskRow /\ tries \in Seq(TryRow) /\ ask \in AskRow /\ latest \in [Index -> Nat]
      /\ asks \in Nat /\ deaths \in Nat /\ Len(tries) \in Nat /\ (ask.kind = "resource" => row.limit # NoCap)
  BY WhereItIs
<1>2. row.step \in Index /\ row.used \in Nat /\ row.step \in Int
  <2>1. row.step \in 0..Steps /\ row.used \in Nat BY <1>1 DEF TaskRow
  <2>2. Steps \in Nat BY DEF DeskAssumption
  <2> QED BY <2>1, <2>2 DEF Index
<1>3. /\ tries' \in Seq(TryRow) /\ Len(tries') = Len(tries) + 1 /\ tries'[Len(tries')] = y
      /\ Grows(tries, tries') /\ Beside(tries, tries', row.step)
  <2>1. /\ Append(tries, y) \in Seq(TryRow) /\ Len(Append(tries, y)) = Len(tries) + 1
        /\ Append(tries, y)[Len(Append(tries, y))] = y
        /\ Grows(tries, Append(tries, y)) /\ Beside(tries, Append(tries, y), y.step)
    BY <1>1, TryAppended
  <2> QED BY <2>1
<1>4. row'.active = Len(tries') /\ Len(tries') > 0 BY <1>1, <1>3
<1>5. AtLast(phase', row', tries') BY <1>2, <1>3, <1>4 DEF AtLast
<1>6. StepsDone(row', phase', tries', latest')
  <2> SUFFICES ASSUME NEW k \in Index, k < row.step PROVE DoneStep(k, tries', latest')
    BY DEF StepsDone
  <2>1. DoneStep(k, tries, latest) BY DEF WriterInv, StepInv, StepsDone
  <2>2. k # row.step /\ latest'[k] = latest[k] BY <1>2 DEF Index
  <2> QED BY <1>1, <1>3, <2>1, <2>2, StaysDone
<1>7. UsedIsCovered(row', phase', tries')
  <2>1. Covered(row, tries) BY DEF WriterInv, StepInv, UsedIsCovered
  <2>2. Covered(row, tries') BY <1>1, <1>3, <2>1, StaysCovered
  <2>3. Len(tries) \in 0..Len(tries) /\ Len(tries) \in 0..Len(tries') BY <1>1, <1>3
  <2>4. CostOf(tries)[Len(tries)] <= CostOf(tries')[Len(tries)] BY <1>1, <1>3, <2>3, CostGrows
  <2>5. CostOf(tries)[Len(tries)] \in Nat /\ CostOf(tries')[Len(tries)] \in Nat BY <1>1, <1>3, <2>3, CostSteps
  <2>6. row.used <= CostOf(tries')[Len(tries)] BY <1>2, <2>1, <2>4, <2>5 DEF Covered
  <2>7. Len(tries') - 1 = Len(tries) /\ Len(tries') <= Len(tries') BY <1>1, <1>3
  <2>8. row'.used <= CostOf(tries')[Len(tries')] BY <2>2 DEF Covered
  <2>9. row'.used <= CostOf(tries')[Len(tries') - 1] BY <2>6, <2>7
  <2> QED BY <1>4, <2>7, <2>8, <2>9 DEF UsedIsCovered, Covered
<1>8. StepInv(row', phase', tries', latest') BY <1>5, <1>6, <1>7 DEF StepInv, SucceededRests
<1>9. SameTurn(phase, phase', tries, tries') BY DEF SameTurn
<1>10. LogStep BY <1>3, <1>9, Silent
<1>11. phase' \in Phases BY DEF Phases, AtTry
<1> QED BY <1>1, <1>3, <1>8, <1>10, <1>11, Together

\* The top of a step: an attempt is opened after all others.
LEMMA KeepsNextStep ==
  ASSUME DeskAssumption, WriterInv, NextStep
  PROVE  WriterInv' /\ KeepsPages
<1>1. phase = "step" BY DEF NextStep
<1>2. \A q \in {"off", "finish"} : (q = "finish" => row.step = Steps) => DrivenOn(phase, q, row)
  BY DEF DrivenOn, Phases, AtTry, Results
<1>3. CASE Now("off") /\ OnlyChanged({})
  <2>1. /\ row' = row /\ tries' = tries /\ latest' = latest /\ log' = log /\ page' = page
        /\ asks' = asks /\ deaths' = deaths /\ ask' = ask /\ phase' = "off"
    BY <1>3 DEF Now, OnlyChanged
  <2>2. DrivenOn(phase, phase', row) BY <1>2, <2>1
  <2> QED BY <2>1, <2>2, WhereItIs, Unwritten
<1>4. CASE End("CANCELLED", "user") /\ Now("off") /\ OnlyChanged({"row", "log", "ask"})
  <2>1. tries' = tries /\ latest' = latest /\ page' = page /\ deaths' = deaths /\ phase' = "off"
    BY <1>4 DEF Now, OnlyChanged
  <2> QED BY <1>1, <1>4, <2>1, ComesToEnd DEF Ended
<1>5. CASE row.step >= Steps /\ Now("finish") /\ OnlyChanged({})
  <2>1. /\ row' = row /\ tries' = tries /\ latest' = latest /\ log' = log /\ page' = page
        /\ asks' = asks /\ deaths' = deaths /\ ask' = ask /\ phase' = "finish"
    BY <1>5 DEF Now, OnlyChanged
  <2>2. row.step = Steps
    <3>1. row.step \in 0..Steps /\ Steps \in Nat BY Numbers DEF DeskAssumption
    <3> QED BY <1>5, <3>1
  <2>3. DrivenOn(phase, phase', row) BY <1>2, <2>1, <2>2
  <2> QED BY <1>1, <2>1, <2>3, WhereItIs, Unwritten
<1>6. CASE /\ row.limit # NoCap /\ OpenQuestion(row, "resource", FALSE) /\ Now("off") /\ OnlyChanged({"row", "ask"})
  <2>1. tries' = tries /\ latest' = latest /\ log' = log /\ page' = page /\ deaths' = deaths /\ phase' = "off"
    BY <1>6 DEF Now, OnlyChanged
  <2>2. /\ row' \in TaskRow /\ SameWork(row, row') /\ row'.state = "WAITING" /\ row'.limit = row.limit
        /\ ask' \in AskRow /\ asks' \in Nat
    BY <1>6, WhereItIs, Opens
  <2>3. DrivenOn(phase, phase', row) BY <1>2, <2>1
  <2> QED BY <1>1, <1>6, <2>1, <2>2, <2>3, WhereItIs, Unwritten
<1>7. CASE /\ CanWait /\ row.step < Steps
           /\ tries' = Append(tries, [step |-> row.step, status |-> "RUNNING", code |-> "", charged |-> 0, cost |-> 0])
           /\ row' = [row EXCEPT !.state = "RUNNING", !.active = Present + 1]
           /\ Now("announce") /\ OnlyChanged({"row", "tries"})
  <2>1. /\ log' = log /\ latest' = latest /\ ask' = ask /\ asks' = asks /\ deaths' = deaths /\ page' = page
        /\ phase' = "announce"
    BY <1>7 DEF Now, OnlyChanged
  <2>2. PICK y : y = [step |-> row.step, status |-> "RUNNING", code |-> "", charged |-> 0, cost |-> 0] OBVIOUS
  <2>3. row \in TaskRow /\ row.state # "SUCCEEDED" /\ Len(tries) \in Nat BY <1>1, WhereItIs
  <2>4. row.step \in Index
    <3>1. row.step \in 0..Steps /\ row.step < Steps BY <1>7, Numbers
    <3>2. Steps \in Nat BY DEF DeskAssumption
    <3> QED BY <3>1, <3>2 DEF Index
  <2>5. y \in TryRow /\ y.step = row.step
    <3>1. "" \in Codes BY DEF Codes
    <3> QED BY <2>2, <2>4, <3>1 DEF TryRow
  <2>6. PICK r : r = [row EXCEPT !.state = "RUNNING"] OBVIOUS
  <2>7. r \in TaskRow /\ SameWork(row, r) /\ r.state = "RUNNING" /\ r.limit = row.limit
    <3>1. "RUNNING" \in TaskState BY DEF TaskState
    <3> QED BY <2>3, <2>6, <3>1, RowSet
  <2>8. PICK a : a = Len(tries) + 1 OBVIOUS
  <2>9. a \in Nat BY <2>3, <2>8
  <2>10. row' = [r EXCEPT !.active = a] BY <1>7, <2>3, <2>6, <2>8 DEF Present, TaskRow
  <2>11. row' \in TaskRow BY <2>7, <2>9, <2>10 DEF TaskRow
  <2>12. row'.state = r.state /\ row'.step = r.step /\ row'.used = r.used /\ row'.limit = r.limit /\ row'.active = a
    <3>1. r \in TaskRow BY <2>7
    <3> QED BY <2>10, <3>1 DEF TaskRow
  <2>13. row'.state = "RUNNING" /\ row'.step = row.step /\ row'.used = row.used /\ row'.limit = row.limit
    BY <2>7, <2>12 DEF SameWork
  <2>14. row'.active = Len(tries) + 1 BY <2>8, <2>12
  <2>15. tries' = Append(tries, y) BY <1>7, <2>2
  <2>16. row.step < Steps BY <1>7
  <2> QED BY <2>1, <2>3, <2>5, <2>11, <2>13, <2>14, <2>15, <2>16, OpensTry
<1> QED BY <1>3, <1>4, <1>5, <1>6, <1>7 DEF NextStep

\* The start of an attempt is announced: no report follows it yet.
LEMMA KeepsAnnounce ==
  ASSUME WriterInv, Announce
  PROVE  WriterInv' /\ KeepsPages
<1>1. /\ row' = row /\ tries' = tries /\ latest' = latest /\ page' = page
      /\ asks' = asks /\ deaths' = deaths /\ ask' = ask /\ phase' = "begin" /\ phase = "announce"
      /\ log' = Append(log, Event("step/started", Present, row.step))
  BY DEF Announce, Now, OnlyChanged
<1>2. DrivenOn(phase, phase', row) BY <1>1 DEF DrivenOn, Phases, AtTry, Results
<1>3. Len(tries) > 0 /\ row.state # "SUCCEEDED" BY <1>1, AtTheTry DEF AtTry
<1>4. log \in Seq(LogRow) /\ tries \in Seq(TryRow) /\ LogInv(log, phase, tries) /\ EndTold(row.state, log)
  BY DEF WriterInv, DeskShape
<1>5. PICK e : e = Event("step/started", Present, row.step) OBVIOUS
<1>6. "step/started" \in EventTypes BY DEF EventTypes
<1>7. e \in LogRow /\ e.type = "step/started" /\ e.try = Len(tries) BY <1>5, <1>6, Numbers, OtherEvent DEF Present
<1>8. log' = Append(log, e) BY <1>1, <1>5
<1>9. LogInv(log', phase', tries) BY <1>3, <1>4, <1>7, <1>8, LogStarted
<1>10. log' \in Seq(LogRow) /\ Longer(log, log') BY <1>4, <1>7, <1>8, Appended
<1>11. EndTold(row.state, log') BY <1>4, <1>10, StaysTold
<1>12. LogStep BY <1>1, <1>9, <1>10, <1>11 DEF LogStep
<1> QED BY <1>1, <1>2, <1>3, <1>12, WhereItIs, Quiet

\* A report is of the latest start, and of what its attempt has cost.
LEMMA KeepsTurnReports ==
  ASSUME WriterInv, TurnReports
  PROVE  WriterInv' /\ KeepsPages
<1>1. /\ row' = row /\ latest' = latest /\ page' = page
      /\ asks' = asks /\ deaths' = deaths /\ ask' = ask /\ phase' = "turn" /\ phase = "turn"
      /\ tries' = [tries EXCEPT ![Len(tries)].cost = @ + 1]
      /\ log' = Append(log, Event("usage", 0, tries[Len(tries)].cost + 1))
  BY DEF TurnReports, Now, OnlyChanged, Present
<1>2. phase \in AtTry BY <1>1 DEF AtTry
<1>3. /\ Len(tries) > 0 /\ Len(tries) \in 1..Len(tries) /\ Len(tries) - 1 \in 0..Len(tries)
      /\ row.step \in Index /\ tries[Len(tries)].step = row.step
      /\ tries[Len(tries)] \in TryRow /\ row.state # "SUCCEEDED"
      /\ Covered(row, tries) /\ row.used <= CostOf(tries)[Len(tries) - 1]
      /\ \A k \in Index : k < row.step => DoneStep(k, tries, latest)
  BY <1>2, AtTheTry
<1>4. /\ row \in TaskRow /\ tries \in Seq(TryRow) /\ log \in Seq(LogRow) /\ ask \in AskRow
      /\ latest \in [Index -> Nat] /\ phase \in Phases /\ asks \in Nat /\ deaths \in Nat
      /\ (ask.kind = "resource" => row.limit # NoCap)
  BY WhereItIs
<1>5. PICK y : y = tries[Len(tries)] OBVIOUS
<1>6. PICK z : z = [y EXCEPT !.cost = y.cost + 1] OBVIOUS
<1>7. y \in TryRow /\ y.cost \in Nat BY <1>3, <1>5 DEF TryRow
<1>8. z \in TryRow /\ z.step = y.step /\ z.cost = y.cost + 1
  <2>1. y.cost + 1 \in Nat BY <1>7
  <2>2. z \in TryRow BY <1>6, <1>7, <2>1 DEF TryRow
  <2> QED BY <1>6, <1>7, <2>2 DEF TryRow
<1>9. tries' = [tries EXCEPT ![Len(tries)] = z] BY <1>1, <1>5, <1>6
<1>10. /\ tries' \in Seq(TryRow) /\ Len(tries') = Len(tries) /\ tries'[Len(tries')] = z
       /\ Grows(tries, tries') /\ Beside(tries, tries', z.step)
  <2>1. y.cost <= z.cost BY <1>7, <1>8
  <2>2. z.step = tries[Len(tries)].step /\ tries[Len(tries)].cost <= z.cost BY <1>5, <1>8, <2>1
  <2>3. tries \in Seq(TryRow) /\ Len(tries) > 0 /\ z \in TryRow BY <1>3, <1>4, <1>8
  <2>4. tries' = LastSet(tries, z) BY <1>9 DEF LastSet
  <2>5. /\ LastSet(tries, z) \in Seq(TryRow) /\ Len(LastSet(tries, z)) = Len(tries)
        /\ LastSet(tries, z)[Len(LastSet(tries, z))] = z
        /\ Grows(tries, LastSet(tries, z)) /\ Beside(tries, LastSet(tries, z), z.step)
    BY <2>2, <2>3, LastTryChanged
  <2> QED BY <2>4, <2>5
<1>11. AtLast(phase', row', tries') BY <1>1, <1>3, <1>5, <1>8, <1>10 DEF AtLast
<1>12. StepsDone(row', phase', tries', latest')
  <2> SUFFICES ASSUME NEW k \in Index, k < row.step PROVE DoneStep(k, tries', latest')
    BY <1>1 DEF StepsDone
  <2>1. DoneStep(k, tries, latest) BY <1>3
  <2>2. k # z.step /\ latest'[k] = latest[k] BY <1>1, <1>3, <1>5, <1>8 DEF Index
  <2> QED BY <1>4, <1>10, <2>1, <2>2, StaysDone
<1>13. UsedIsCovered(row', phase', tries')
  <2>1. Covered(row, tries') BY <1>3, <1>4, <1>10, StaysCovered
  <2>2. CostOf(tries)[Len(tries) - 1] <= CostOf(tries')[Len(tries) - 1] BY <1>3, <1>4, <1>10, CostGrows
  <2>3. CostOf(tries)[Len(tries) - 1] \in Nat /\ CostOf(tries')[Len(tries) - 1] \in Nat
    BY <1>3, <1>4, <1>10, CostSteps
  <2>4. row.used \in Nat BY <1>4 DEF TaskRow
  <2>5. row'.used <= CostOf(tries')[Len(tries') - 1] BY <1>1, <1>3, <1>10, <2>2, <2>3, <2>4
  <2>6. row.active # 0 => row.active = Len(tries) BY DEF WriterInv, StepInv, UsedIsCovered
  <2> QED BY <1>1, <1>10, <2>1, <2>5, <2>6 DEF UsedIsCovered
<1>14. StepInv(row', phase', tries', latest') BY <1>1, <1>3, <1>11, <1>12, <1>13 DEF StepInv, SucceededRests
<1>15. PICK e : e = Event("usage", 0, y.cost + 1) OBVIOUS
<1>16. "usage" \in EventTypes /\ y.cost + 1 \in Nat /\ 0 \in Nat BY <1>7 DEF EventTypes
<1>17. e \in LogRow /\ e.type = "usage" /\ e.n = z.cost /\ e.n \in Nat BY <1>8, <1>15, <1>16, OtherEvent
<1>18. log' = Append(log, e) BY <1>1, <1>5, <1>15
<1>19. LogInv(log', phase', tries')
  <2>1. LogInv(log, "turn", tries) BY <1>1 DEF WriterInv
  <2>2. SameTurn("turn", "turn", tries, tries') BY <1>10 DEF SameTurn
  <2>3. LogInv(log, "turn", tries') BY <1>4, <1>10, <2>1, <2>2, LogStays
  <2>4. Len(tries') > 0 /\ e.n <= tries'[Len(tries')].cost BY <1>3, <1>10, <1>17
  <2>5. LogInv(log', "turn", tries') BY <1>4, <1>10, <1>17, <1>18, <2>3, <2>4, LogReported
  <2> QED BY <1>1, <2>5
<1>20. log' \in Seq(LogRow) /\ Longer(log, log') BY <1>4, <1>17, <1>18, Appended
<1>21. EndTold(row'.state, log')
  <2>1. EndTold(row.state, log) BY DEF WriterInv
  <2> QED BY <1>1, <1>4, <1>20, <2>1, StaysTold
<1>22. LogStep BY <1>19, <1>20, <1>21 DEF LogStep
<1> QED BY <1>1, <1>3, <1>4, <1>10, <1>14, <1>22, Together

\* The end of an attempt, as one change to the last row.
LEMMA ClosedIsLast ==
  ASSUME NEW status, NEW code, tries \in Seq(TryRow), Len(tries) > 0
  PROVE  TryClosed(status, code) = LastSet(tries, Closed(tries[Len(tries)], status, code))
<1>1. Len(tries) \in 1..Len(tries) OBVIOUS
<1>2. tries[Len(tries)] \in TryRow BY <1>1
<1> QED BY <1>1, <1>2 DEF TryClosed, LastSet, Closed, Present, TryRow

\* A turn is settled: its attempt ends and its cost is charged.
LEMMA SettlesTry ==
  ASSUME WriterInv, phase \in Results,
         NEW status, status \in {"COMPLETED", "FAILED", "BUDGET_EXCEEDED", "CANCELLED"},
         NEW code, code \in Codes,
         tries' = TryClosed(status, code),
         row' \in TaskRow, row'.step = row.step, row'.used = row.used + tries[Len(tries)].cost, row'.active = 0,
         row'.state \in {row.state, "WAITING"}, ask' \in AskRow, ask'.kind = "resource" => row'.limit # NoCap,
         asks' \in Nat, deaths' = deaths, log' = log, page' = page,
         phase' \in Phases, phase' \notin AtTry, phase' # "finish",
         latest' \in [Index -> Nat], \A k \in Index : k < row.step => latest'[k] = latest[k],
         phase' = "accept" => status = "COMPLETED" /\ latest'[row.step] # 0
  PROVE  WriterInv' /\ KeepsPages
<1>1. /\ Len(tries) > 0 /\ Len(tries) \in 1..Len(tries) /\ Len(tries) - 1 \in 0..Len(tries)
      /\ row.step \in Index /\ tries[Len(tries)].step = row.step
      /\ tries[Len(tries)] \in TryRow /\ row.state # "SUCCEEDED"
      /\ row.used <= CostOf(tries)[Len(tries) - 1]
      /\ \A k \in Index : k < row.step => DoneStep(k, tries, latest)
  <2>1. phase \in AtTry BY DEF AtTry
  <2> QED BY <2>1, AtTheTry
<1>2. row \in TaskRow /\ tries \in Seq(TryRow) /\ deaths \in Nat BY WhereItIs
<1>3. PICK y : y = tries[Len(tries)] OBVIOUS
<1>4. PICK z : z = Closed(y, status, code) OBVIOUS
<1>5. y \in TryRow /\ y.step = row.step /\ y.cost \in Nat
  <2>1. y \in TryRow /\ y.step = row.step BY <1>1, <1>3
  <2> QED BY <2>1 DEF TryRow
<1>6. z \in TryRow /\ z.step = row.step /\ z.status = status /\ z.cost = y.cost
  <2>1. /\ Closed(y, status, code) \in TryRow /\ Closed(y, status, code).step = y.step
        /\ Closed(y, status, code).status = status /\ Closed(y, status, code).cost = y.cost
    BY <1>5, TryIsClosed
  <2> QED BY <1>4, <1>5, <2>1
<1>7. /\ tries' \in Seq(TryRow) /\ Len(tries') = Len(tries) /\ tries'[Len(tries)] = z
      /\ Grows(tries, tries') /\ Beside(tries, tries', row.step)
  <2>1. tries' = LastSet(tries, z) BY <1>1, <1>2, <1>3, <1>4, ClosedIsLast
  <2>2. z.step = tries[Len(tries)].step /\ tries[Len(tries)].cost <= z.cost
    <3>1. y.cost <= z.cost BY <1>5, <1>6
    <3> QED BY <1>3, <1>5, <1>6, <3>1
  <2>3. tries \in Seq(TryRow) /\ Len(tries) > 0 /\ z \in TryRow BY <1>1, <1>2, <1>6
  <2>4. /\ LastSet(tries, z) \in Seq(TryRow) /\ Len(LastSet(tries, z)) = Len(tries)
        /\ LastSet(tries, z)[Len(LastSet(tries, z))] = z
        /\ Grows(tries, LastSet(tries, z)) /\ Beside(tries, LastSet(tries, z), z.step)
    BY <2>2, <2>3, LastTryChanged
  <2> QED BY <1>6, <2>1, <2>4
<1>8. AtLast(phase', row', tries') BY <1>1, <1>6, <1>7 DEF AtLast
<1>9. StepsDone(row', phase', tries', latest')
  <2>1. ASSUME NEW k \in Index, k < row.step PROVE DoneStep(k, tries', latest')
    <3>1. DoneStep(k, tries, latest) BY <1>1, <2>1
    <3>2. k # row.step
      <4>1. k \in Int /\ k < row.step BY <2>1 DEF Index
      <4> QED BY <4>1
    <3>3. latest'[k] = latest[k] BY <2>1
    <3> QED BY <1>2, <1>7, <3>1, <3>2, <3>3, StaysDone
  <2>2. phase' = "accept" => tries'[Len(tries')].status = "COMPLETED" /\ latest'[row'.step] # 0 BY <1>6, <1>7
  <2> QED BY <2>1, <2>2 DEF StepsDone
<1>10. UsedIsCovered(row', phase', tries')
  <2>1. CostOf(tries)[Len(tries) - 1] <= CostOf(tries')[Len(tries) - 1] BY <1>1, <1>2, <1>7, CostGrows
  <2>2. /\ CostOf(tries)[Len(tries) - 1] \in Nat /\ CostOf(tries')[Len(tries) - 1] \in Nat
        /\ CostOf(tries')[Len(tries)] = CostOf(tries')[Len(tries) - 1] + tries'[Len(tries)].cost
    BY <1>1, <1>2, <1>7, CostSteps
  <2>3. row.used \in Nat BY <1>2 DEF TaskRow
  <2>4. row'.used = row.used + y.cost /\ tries'[Len(tries)].cost = y.cost BY <1>3, <1>6, <1>7
  <2>5. row.used <= CostOf(tries)[Len(tries) - 1] BY <1>1
  <2>6. row'.used <= CostOf(tries')[Len(tries)] BY <1>5, <2>1, <2>2, <2>3, <2>4, <2>5
  <2> QED BY <1>7, <2>6 DEF UsedIsCovered, Covered
<1>11. StepInv(row', phase', tries', latest') BY <1>1, <1>8, <1>9, <1>10 DEF StepInv, SucceededRests
<1>12. SameTurn(phase, phase', tries, tries') BY DEF SameTurn, AtTry
<1>13. LogStep BY <1>7, <1>12, Silent
<1> QED BY <1>1, <1>2, <1>7, <1>11, <1>13, Together

\* The attempt is closed and charged, once.
LEMMA KeepsSettle ==
  ASSUME DeskAssumption, WriterInv, Settle
  PROVE  WriterInv' /\ KeepsPages
<1>1. /\ phase \in Results /\ deaths' = deaths /\ log' = log /\ page' = page
  BY DEF Settle, OnlyChanged
<1>2. /\ row \in TaskRow /\ tries \in Seq(TryRow) /\ ask \in AskRow /\ latest \in [Index -> Nat]
      /\ asks \in Nat /\ deaths \in Nat /\ (ask.kind = "resource" => row.limit # NoCap)
  BY WhereItIs
<1>3. tries[Len(tries)] \in TryRow /\ row.step \in Index
  <2>1. phase \in AtTry BY <1>1 DEF AtTry
  <2> QED BY <2>1, AtTheTry
<1>4. PICK n : n = tries[Len(tries)].cost OBVIOUS
<1>5. n \in Nat BY <1>3, <1>4 DEF TryRow
<1>6. PICK r : r = Charged(row, n) OBVIOUS
<1>7. RowCharged = r BY <1>4, <1>6 DEF RowCharged, Charged, Present
<1>8. /\ r \in TaskRow /\ r.state = row.state /\ r.step = row.step /\ r.used = row.used + n
      /\ r.active = 0 /\ r.limit = row.limit
  BY <1>2, <1>5, <1>6, RowCharges
<1>9. "" \in Codes BY DEF Codes
\* The attempt ends, the row stays in its state, the deliverables are the same.
<1>10. ASSUME NEW status, status \in {"FAILED", "CANCELLED"},
              NEW code, code \in {"acceptance", "cancelled", "stopped", "error", "lost"},
              tries' = TryClosed(status, code), row' = RowCharged, OnlyChanged({"row", "tries"}),
              phase' \in Phases, phase' \notin AtTry \cup {"finish", "accept"}
       PROVE  WriterInv' /\ KeepsPages
  <2>1. row' = r /\ latest' = latest /\ ask' = ask /\ asks' = asks BY <1>7, <1>10 DEF OnlyChanged
  <2>2. phase' \notin AtTry /\ phase' # "finish" /\ phase' # "accept" BY <1>10
  <2>3. code \in Codes BY <1>10 DEF Codes
  <2> QED BY <1>1, <1>2, <1>4, <1>8, <1>10, <2>1, <2>2, <2>3, SettlesTry
<1>11. CASE /\ tries' = TryClosed("CANCELLED", "cancelled") /\ row' = RowCharged
            /\ Now(IF row.state \in Ended THEN "off" ELSE "cancel") /\ OnlyChanged({"row", "tries"})
  <2>1. phase' \in Phases /\ phase' \notin AtTry \cup {"finish", "accept"}
    BY <1>11 DEF Now, Phases, AtTry, Results
  <2> QED BY <1>10, <1>11, <2>1
<1>12. CASE /\ phase \in {"stopped", "error", "lost"}
            /\ tries' = TryClosed("FAILED", phase) /\ row' = RowCharged
            /\ Now(AfterFailure[phase]) /\ OnlyChanged({"row", "tries"})
  <2>1. AfterFailure[phase] \in {"after stopped", "after error", "after lost"}
    <3>1. CASE phase = "stopped" BY <3>1 DEF AfterFailure
    <3>2. CASE phase = "error" BY <3>2 DEF AfterFailure
    <3>3. CASE phase = "lost" BY <3>3 DEF AfterFailure
    <3> QED BY <1>12, <3>1, <3>2, <3>3
  <2>2. phase' \in Phases /\ phase' \notin AtTry \cup {"finish", "accept"}
    BY <1>12, <2>1 DEF Now, Phases, AtTry, Results
  <2> QED BY <1>10, <1>12, <2>2
\* A task that waits already cannot be stopped for its budget: nothing is written.
<1>16. CASE Now("off") /\ OnlyChanged({})
  <2>1. /\ row' = row /\ tries' = tries /\ latest' = latest /\ ask' = ask /\ asks' = asks
        /\ phase' = "off"
    BY <1>16 DEF OnlyChanged, Now
  <2>2. DrivenOn(phase, phase', row) BY <2>1 DEF DrivenOn, Phases, AtTry, Results
  <2> QED BY <1>1, <1>2, <2>1, <2>2, WhereItIs, Unwritten
<1>13. CASE /\ OverBudget /\ tries' = TryClosed("BUDGET_EXCEEDED", "")
            /\ OpenQuestion(RowCharged, "resource", FALSE) /\ Now("off") /\ OnlyChanged({"row", "tries", "ask"})
  <2>1. latest' = latest /\ phase' = "off" BY <1>13 DEF Now, OnlyChanged
  <2>2. OpenQuestion(r, "resource", FALSE) BY <1>7, <1>13
  <2>3. /\ row' \in TaskRow /\ SameWork(r, row') /\ row'.state = "WAITING" /\ row'.limit = r.limit
        /\ ask' \in AskRow /\ asks' \in Nat
    BY <1>8, <2>2, Opens
  <2>4. row'.step = row.step /\ row'.used = row.used + n /\ row'.active = 0 BY <1>8, <2>3 DEF SameWork
  <2>5. row'.limit # NoCap BY <1>8, <1>13, <2>3 DEF OverBudget
  <2>6. phase' \in Phases /\ phase' \notin AtTry /\ phase' # "finish" /\ phase' # "accept"
    BY <2>1 DEF Phases, AtTry, Results
  <2>7. tries' = TryClosed("BUDGET_EXCEEDED", "") BY <1>13
  <2> QED BY <1>1, <1>2, <1>4, <2>1, <2>3, <2>4, <2>5, <2>6, <2>7, <1>9, SettlesTry
<1>14. CASE /\ latest' = [latest EXCEPT ![row.step] = @ + 1]
            /\ tries' = TryClosed("COMPLETED", "") /\ row' = RowCharged
            /\ Now("accept") /\ OnlyChanged({"row", "tries", "latest"})
  <2>1. row' = r /\ ask' = ask /\ asks' = asks /\ phase' = "accept" /\ tries' = TryClosed("COMPLETED", "")
    BY <1>7, <1>14 DEF Now, OnlyChanged
  <2>2. latest[row.step] \in Nat BY <1>2, <1>3
  <2>3. latest' \in [Index -> Nat] /\ latest'[row.step] = latest[row.step] + 1
    <3>1. latest[row.step] + 1 \in Nat BY <2>2
    <3>2. latest' \in [Index -> Nat] BY <1>2, <1>14, <3>1
    <3> QED BY <1>2, <1>3, <1>14, <3>2
  <2>4. latest'[row.step] # 0 BY <2>2, <2>3
  <2>5. \A k \in Index : k < row.step => latest'[k] = latest[k]
    <3> SUFFICES ASSUME NEW k \in Index, k < row.step PROVE latest'[k] = latest[k] OBVIOUS
    <3>1. k # row.step BY <1>3 DEF Index
    <3> QED BY <1>2, <1>14, <3>1
  <2>6. phase' \in Phases /\ phase' \notin AtTry /\ phase' # "finish" BY <2>1 DEF Phases, AtTry, Results
  <2> QED BY <1>1, <1>2, <1>4, <1>8, <2>1, <2>3, <2>4, <2>5, <2>6, <1>9, SettlesTry
<1>15. CASE /\ phase \in {"bad", "no_data"} /\ tries' = TryClosed("FAILED", "acceptance") /\ row' = RowCharged
            /\ Now(AfterVerdict[phase]) /\ OnlyChanged({"row", "tries"})
  <2>1. AfterVerdict[phase] \in {"reject bad", "reject no_data"}
    <3>1. CASE phase = "bad" BY <3>1 DEF AfterVerdict
    <3>2. CASE phase = "no_data" BY <3>2 DEF AfterVerdict
    <3> QED BY <1>15, <3>1, <3>2
  <2>2. phase' \in Phases /\ phase' \notin AtTry \cup {"finish", "accept"}
    BY <1>15, <2>1 DEF Now, Phases, AtTry, Results
  <2> QED BY <1>10, <1>15, <2>2
<1> QED BY <1>11, <1>12, <1>13, <1>14, <1>15, <1>16 DEF Settle

\* The step that is accepted is the one its last attempt was made for.
LEMMA KeepsAccept ==
  ASSUME DeskAssumption, WriterInv, Accept
  PROVE  WriterInv' /\ KeepsPages
<1>1. /\ phase = "accept" /\ row' = [row EXCEPT !.step = @ + 1]
      /\ log' = Append(log, Event("step/accepted", Present, row.step))
      /\ phase' = (IF row.step + 1 = Steps THEN "finish" ELSE "requeue")
      /\ tries' = tries /\ latest' = latest /\ ask' = ask /\ asks' = asks /\ deaths' = deaths /\ page' = page
  BY DEF Accept, Now, OnlyChanged
<1>2. /\ row \in TaskRow /\ tries \in Seq(TryRow) /\ ask \in AskRow /\ latest \in [Index -> Nat]
      /\ asks \in Nat /\ deaths \in Nat /\ (ask.kind = "resource" => row.limit # NoCap)
      /\ row.state # "SUCCEEDED"
  BY <1>1, WhereItIs
<1>3. /\ Len(tries) > 0 /\ row.step \in Index /\ tries[Len(tries)].step = row.step
      /\ tries[Len(tries)].status = "COMPLETED" /\ latest[row.step] # 0
      /\ \A k \in Index : k < row.step => DoneStep(k, tries, latest)
  BY <1>1 DEF WriterInv, StepInv, AtLast, StepsDone
<1>4. row.step + 1 \in 0..Steps /\ row.step \in Nat BY <1>3 DEF Index, DeskAssumption
<1>5. PICK m : m = row.step + 1 OBVIOUS
<1>6. row' = [row EXCEPT !.step = m] BY <1>1, <1>5
<1>7. row' \in TaskRow BY <1>2, <1>4, <1>5, <1>6 DEF TaskRow
<1>8. /\ row'.step = m /\ row'.state = row.state /\ row'.used = row.used /\ row'.active = row.active
      /\ row'.limit = row.limit
  BY <1>2, <1>6 DEF TaskRow
<1>9. AtLast(phase', row', tries')
  <2>1. phase' \notin AtTry \cup {"accept"} BY <1>1 DEF AtTry, Results
  <2>2. phase' = "finish" => row'.step = Steps BY <1>1, <1>5, <1>8
  <2> QED BY <2>1, <2>2 DEF AtLast
<1>10. StepsDone(row', phase', tries', latest')
  <2>1. ASSUME NEW k \in Index, k < row'.step PROVE DoneStep(k, tries, latest)
    <3>1. k < row.step \/ k = row.step BY <1>4, <1>5, <1>8, <2>1 DEF Index
    <3>2. CASE k < row.step BY <1>3, <3>2
    <3>3. CASE k = row.step
      <4>1. Len(tries) \in 1..Len(tries) /\ \A j \in 1..Len(tries) : j <= Len(tries) BY <1>2, <1>3
      <4> QED BY <1>3, <3>3, <4>1 DEF DoneStep
    <3> QED BY <3>1, <3>2, <3>3
  <2>2. phase' # "accept" BY <1>1
  <2> QED BY <1>1, <2>1, <2>2 DEF StepsDone
<1>11. UsedIsCovered(row', phase', tries')
  <2>1. phase' \notin AtTry BY <1>1 DEF AtTry, Results
  <2>2. UsedIsCovered(row, phase, tries) BY DEF WriterInv, StepInv
  <2> QED BY <1>1, <1>8, <2>1, <2>2 DEF UsedIsCovered, Covered
<1>12. StepInv(row', phase', tries', latest') BY <1>2, <1>8, <1>9, <1>10, <1>11 DEF StepInv, SucceededRests
<1>13. PICK e : e = Event("step/accepted", Present, row.step) OBVIOUS
<1>14. "step/accepted" \in EventTypes BY DEF EventTypes
<1>15. e \in LogRow /\ e.type = "step/accepted" /\ ReasonGiven(e) BY <1>13, <1>14, Numbers, OtherEvent
<1>16. log' = Append(log, e) /\ e.type \notin {"step/started", "usage"} BY <1>1, <1>13, <1>15
<1>17. tries' \in Seq(TryRow) /\ Grows(tries, tries') BY <1>1, <1>2, GrowsNot
<1>18. SameTurn(phase, phase', tries, tries') BY <1>1 DEF SameTurn
<1>19. LogStep BY <1>8, <1>15, <1>16, <1>17, <1>18, Told
<1>20. phase' \in Phases BY <1>1 DEF Phases
<1> QED BY <1>1, <1>2, <1>7, <1>8, <1>12, <1>17, <1>19, <1>20, Together

\* Back to the first step: no step before the cursor has to be done.
LEMMA KeepsJudge ==
  ASSUME DeskAssumption, WriterInv, Judge
  PROVE  WriterInv' /\ KeepsPages
<1>1. phase = "judge" /\ phase' \in {"requeue", "question"} BY DEF Judge, Now
<1>2. DrivenOn(phase, phase', row) BY <1>1 DEF DrivenOn, Phases, AtTry, Results
<1>3. CASE OnlyChanged({})
  <2>1. /\ row' = row /\ tries' = tries /\ latest' = latest /\ log' = log /\ page' = page
        /\ asks' = asks /\ deaths' = deaths /\ ask' = ask
    BY <1>3 DEF OnlyChanged
  <2> QED BY <1>1, <1>2, <2>1, WhereItIs, Unwritten
<1>4. CASE /\ row' = [row EXCEPT !.step = 0]
           /\ log' = Append(log, Event("step/went_back", Present, row.step)) /\ OnlyChanged({"row", "log"})
  <2>1. /\ tries' = tries /\ latest' = latest /\ page' = page
        /\ asks' = asks /\ deaths' = deaths /\ ask' = ask
    BY <1>4 DEF OnlyChanged
  <2>2. /\ row \in TaskRow /\ tries \in Seq(TryRow) /\ ask \in AskRow /\ latest \in [Index -> Nat]
        /\ asks \in Nat /\ deaths \in Nat /\ (ask.kind = "resource" => row.limit # NoCap)
        /\ row.state # "SUCCEEDED"
    BY <1>1, WhereItIs
  <2>3. PICK z : z = 0 OBVIOUS
  <2>4. z \in 0..Steps BY <2>3 DEF DeskAssumption
  <2>5. row' = [row EXCEPT !.step = z] BY <1>4, <2>3
  <2>6. row' \in TaskRow BY <2>2, <2>4, <2>5 DEF TaskRow
  <2>7. /\ row'.step = z /\ row'.state = row.state /\ row'.used = row.used /\ row'.active = row.active
        /\ row'.limit = row.limit
    BY <2>2, <2>5 DEF TaskRow
  <2>8. phase' \notin AtTry /\ phase' # "accept" /\ phase' # "finish" BY <1>1 DEF AtTry, Results
  <2>9. AtLast(phase', row', tries') BY <2>8 DEF AtLast
  <2>10. StepsDone(row', phase', tries', latest')
    <3>1. ~\E k \in Index : k < row'.step BY <2>3, <2>7 DEF Index
    <3> QED BY <2>8, <3>1 DEF StepsDone
  <2>11. UsedIsCovered(row', phase', tries')
    <3>1. UsedIsCovered(row, phase, tries) BY DEF WriterInv, StepInv
    <3> QED BY <2>1, <2>7, <2>8, <3>1 DEF UsedIsCovered, Covered
  <2>12. StepInv(row', phase', tries', latest') BY <2>2, <2>7, <2>9, <2>10, <2>11 DEF StepInv, SucceededRests
  <2>13. PICK e : e = Event("step/went_back", Present, row.step) OBVIOUS
  <2>14. "step/went_back" \in EventTypes BY DEF EventTypes
  <2>15. e \in LogRow /\ e.type = "step/went_back" /\ ReasonGiven(e) BY <2>13, <2>14, Numbers, OtherEvent
  <2>16. log' = Append(log, e) /\ e.type \notin {"step/started", "usage"} BY <1>4, <2>13, <2>15
  <2>17. tries' \in Seq(TryRow) /\ Grows(tries, tries') BY <2>1, <2>2, GrowsNot
  <2>18. SameTurn(phase, phase', tries, tries') BY <1>1 DEF SameTurn
  <2>19. LogStep BY <2>7, <2>15, <2>16, <2>17, <2>18, Told
  <2>20. phase' \in Phases BY <1>1 DEF Phases
  <2> QED BY <2>1, <2>2, <2>6, <2>7, <2>12, <2>17, <2>19, <2>20, Together
<1> QED BY <1>3, <1>4 DEF Judge

\* The steps of the writers.
WriterMoves ==
  \/ Drive \/ NextStep \/ Announce \/ TurnStarted \/ TurnReports \/ TurnAsks \/ TurnEnds \/ TurnGivenUp
  \/ Settle \/ Accept \/ Requeue \/ Finish \/ Reject \/ NoDataEvent \/ Judge \/ Question \/ GiveUp
  \/ (\E choice \in {"go", "stop"} : AnswerTo(choice)) \/ CancelIt \/ BackOnline \/ Expires \/ Dies

\* Every commit keeps what is said of the rows, and what a page relies on.
LEMMA WriterKeeps ==
  ASSUME DeskAssumption, WriterInv, WriterMoves
  PROVE  WriterInv' /\ KeepsPages
BY KeepsDrive, KeepsNextStep, KeepsAnnounce, KeepsTurnStarted, KeepsTurnReports, KeepsTurnAsks, KeepsTurnEnds,
   KeepsTurnGivenUp,
   KeepsSettle, KeepsAccept, KeepsRequeue, KeepsFinish, KeepsReject, KeepsNoDataEvent, KeepsJudge, KeepsQuestion,
   KeepsGiveUp, KeepsAnswer, KeepsCancelIt, KeepsBackOnline, KeepsExpires, KeepsDies, Zenon
   DEF WriterMoves

-----------------------------------------------------------------------------
(* The pages: what was read stays true enough, whatever is written meanwhile. *)

\* An index that no other of the set exceeds is its maximum.
LEMMA MaxIsLast ==
  ASSUME NEW n \in Nat, NEW T, T \subseteq 1..n, NEW m \in T, \A y \in T : y <= m
  PROVE  Max(T) = m
<1>1. \A y \in T : m >= y OBVIOUS
<1>2. Max(T) \in T /\ \A y \in T : Max(T) >= y BY <1>1 DEF Max
<1>3. Max(T) >= m /\ m >= Max(T) BY <1>1, <1>2
<1>4. Max(T) \in Nat /\ m \in Nat
  <2>1. \A x \in T : x \in Nat OBVIOUS
  <2> QED BY <1>2, <2>1
<1> QED BY <1>3, <1>4

\* The last index of a set of indices is its maximum.
LEMMA LastIsMax ==
  ASSUME NEW n \in Nat, NEW T, T \subseteq 1..n, T # {}
  PROVE  Max(T) \in T /\ \A y \in T : y <= Max(T)
<1> DEFINE D == {n - x : x \in T}
<1>1. D \in SUBSET Nat /\ D # {}
  <2>1. \A x \in T : x \in Nat /\ x <= n OBVIOUS
  <2>2. \A x \in T : n - x \in Nat BY <2>1
  <2> QED BY <2>2
<1>2. PICK d \in D : \A x \in D : d <= x BY <1>1, LeastOf
<1>3. PICK m \in T : d = n - m BY <1>2
<1>4. ASSUME NEW y \in T PROVE y <= m
  <2>1. n - y \in D OBVIOUS
  <2>2. n - m <= n - y BY <1>2, <1>3, <2>1
  <2> QED BY <2>2
<1>5. Max(T) = m BY <1>4, MaxIsLast
<1> QED BY <1>4, <1>5

\* What an attempt that is charged has used, and what it reports, was spent.
LEMMA RunningIsSpent ==
  ASSUME WriterInv, NEW t, t \in TaskRow, Covered(t, tries)
  PROVE  RunningCost(t, log) \in Nat /\ t.used + RunningCost(t, log) <= CostUpToNow
<1> DEFINE begun == {i \in DOMAIN log : log[i].type = "step/started"}
           said == {i \in DOMAIN log : log[i].type = "usage" /\ \A j \in begun : j < i}
<1>1. log \in Seq(LogRow) /\ tries \in Seq(TryRow) /\ Len(log) \in Nat /\ Len(tries) \in Nat BY WhereItIs
<1>2. begun \subseteq 1..Len(log) /\ said \subseteq 1..Len(log) BY <1>1
<1>3. RunningCost(t, log) = IF t.state # "RUNNING" \/ t.active = 0 \/ begun = {} \/ said = {} THEN 0
                            ELSE IF log[Max(begun)].try # t.active THEN 0 ELSE log[Max(said)].n
  BY DEF RunningCost
<1>4. t.used \in Nat /\ t.active \in Nat /\ t.used <= CostOf(tries)[Len(tries)] BY DEF TaskRow, Covered
<1>5. CASE RunningCost(t, log) = 0 BY <1>4, <1>5 DEF CostUpToNow
<1>6. CASE RunningCost(t, log) # 0
  <2>1. /\ t.active # 0 /\ begun # {} /\ said # {} /\ log[Max(begun)].try = t.active
        /\ RunningCost(t, log) = log[Max(said)].n
    BY <1>3, <1>6
  <2>2. Max(begun) \in begun /\ \A y \in begun : y <= Max(begun) BY <1>1, <1>2, <2>1, LastIsMax
  <2>3. Max(said) \in said BY <1>1, <1>2, <2>1, LastIsMax
  <2> DEFINE b == Max(begun)  s == Max(said)
  <2>4. b \in 1..Len(log) /\ log[b].type = "step/started" BY <1>2, <2>2
  <2>5. \A i \in 1..Len(log) : log[i].type = "step/started" => i <= b BY <1>1, <2>2
  <2>6. s \in 1..Len(log) /\ log[s].type = "usage" /\ s > b BY <1>2, <2>2, <2>3
  <2>7. log[b].try = t.active /\ RunningCost(t, log) = log[s].n BY <2>1
  <2> HIDE DEF b, s, begun, said
  <2>8. LastStart(b, log) BY <2>4, <2>5 DEF LastStart
  <2>9. ReportsFit(log, tries) BY DEF WriterInv, LogInv
  <2>10. t.active \in 1..Len(tries) /\ log[s].n \in Nat /\ log[s].n <= tries[t.active].cost
    BY <2>4, <2>6, <2>7, <2>8, <2>9 DEF ReportsFit
  <2>11. t.used <= CostOf(tries)[t.active - 1] BY <2>1 DEF Covered
  <2>12. t.active - 1 \in 0..Len(tries) /\ t.active \in 0..Len(tries) /\ Len(tries) \in 0..Len(tries)
         /\ t.active <= Len(tries)
    BY <1>1, <2>10
  <2>13. /\ CostOf(tries)[t.active] = CostOf(tries)[t.active - 1] + tries[t.active].cost
         /\ tries[t.active].cost \in Nat /\ CostOf(tries)[t.active - 1] \in Nat
         /\ CostOf(tries)[t.active] \in Nat /\ CostOf(tries)[Len(tries)] \in Nat
    BY <1>1, <2>10, <2>12, CostSteps
  <2>14. CostOf(tries)[t.active] <= CostOf(tries)[Len(tries)] BY <1>1, <2>12, CostRises
  <2>15. RunningCost(t, log) \in Nat /\ RunningCost(t, log) <= tries[t.active].cost BY <2>7, <2>10
  <2> QED BY <1>4, <2>11, <2>13, <2>14, <2>15 DEF CostUpToNow
<1> QED BY <1>5, <1>6

\* The reason of an end is in the log.
HasReason(t, events) == Reason(t, events) # ""

\* The end a row tells of has a reason in the log.
LEMMA ReasonIsThere ==
  ASSUME WriterInv, NEW t, EndTold(t.state, log)
  PROVE  t.state \in {"FAILED", "CANCELLED"} => HasReason(t, log)
<1> SUFFICES ASSUME t.state \in {"FAILED", "CANCELLED"} PROVE HasReason(t, log) OBVIOUS
<1> DEFINE to == {i \in DOMAIN log : log[i].type = "task/state" /\ log[i].n[1] = t.state}
<1>1. log \in Seq(LogRow) /\ Len(log) \in Nat BY WhereItIs
<1>2. to \subseteq 1..Len(log) BY <1>1
<1>3. to # {} BY <1>1 DEF EndTold
<1>4. Max(to) \in to BY <1>1, <1>2, <1>3, LastIsMax
<1>5. Max(to) \in 1..Len(log) /\ log[Max(to)].type = "task/state" /\ log[Max(to)].n[1] = t.state BY <1>2, <1>4
<1>6. ReasonsGiven(log) BY DEF WriterInv, LogInv
<1>7. Reason(t, log) = log[Max(to)].n[2] BY <1>3 DEF Reason
<1> HIDE DEF to
<1>8. log[Max(to)].n[2] # "" BY <1>5, <1>6 DEF ReasonsGiven
<1> QED BY <1>7, <1>8 DEF HasReason

\* A writer's commit: the page is read as before.
LEMMA PageStays ==
  ASSUME WriterInv, PageInv, WriterInv', KeepsPages
  PROVE  PageInv'
<1>1. page' = page /\ Grows(tries, tries') /\ Longer(log, log') BY DEF KeepsPages
<1>2. /\ tries \in Seq(TryRow) /\ tries' \in Seq(TryRow) /\ log \in Seq(LogRow) /\ log' \in Seq(LogRow)
  BY DEF WriterInv, DeskShape
<1>3. PageShape' BY <1>1 DEF PageInv, PageShape
<1>4. ASSUME page.kind \in {"steps", "dossier"} PROVE ReadsFit(page.kind, page.left, page.got) /\ PageFits(page.got)'
  <2>1. ReadsFit(page.kind, page.left, page.got) /\ PageFits(page.got) BY <1>4 DEF PageInv
  <2> DEFINE seen == page.got  t == seen["task"]
  <2>2. t \in TaskRow /\ seen' = seen BY <1>1, <2>1 DEF ReadsFit
  <2>3. Covered(t, tries') BY <1>1, <1>2, <2>1, <2>2, StaysCovered DEF PageFits
  <2>4. ASSUME "running" \in DOMAIN seen PROVE seen["running"] \in Nat /\ t.used + seen["running"] <= CostUpToNow'
    <3>1. seen["running"] \in Nat /\ t.used + seen["running"] <= CostUpToNow BY <2>1, <2>4 DEF PageFits
    <3>2. Len(tries) \in Nat /\ Len(tries') \in Nat /\ Len(tries) <= Len(tries') BY <1>1, <1>2 DEF Grows
    <3>3. Len(tries) \in 0..Len(tries) /\ Len(tries) \in 0..Len(tries') /\ Len(tries') \in 0..Len(tries') BY <3>2
    <3>4. CostOf(tries)[Len(tries)] <= CostOf(tries')[Len(tries)] BY <1>1, <1>2, <3>3, CostGrows
    <3>5. CostOf(tries')[Len(tries)] <= CostOf(tries')[Len(tries')] BY <1>2, <3>2, <3>3, CostRises
    <3>6. /\ CostOf(tries)[Len(tries)] \in Nat /\ CostOf(tries')[Len(tries)] \in Nat
          /\ CostOf(tries')[Len(tries')] \in Nat
      BY <1>2, <3>3, CostSteps
    <3>7. t.used \in Nat BY <2>2 DEF TaskRow
    <3> QED BY <3>1, <3>4, <3>5, <3>6, <3>7 DEF CostUpToNow
  <2>5. EndTold(t.state, log') BY <1>1, <1>2, <2>1, StaysTold DEF PageFits
  <2>6. "reason" \in DOMAIN seen /\ t.state \in {"FAILED", "CANCELLED"} => seen["reason"] # "" BY <2>1 DEF PageFits
  <2>7. ASSUME t.state = "SUCCEEDED"
        PROVE  /\ row' = t
               /\ "attempts" \in DOMAIN seen => seen["attempts"] = tries'
               /\ "artifacts" \in DOMAIN seen => seen["artifacts"] = latest'
    <3>1. /\ row = t
          /\ "attempts" \in DOMAIN seen => seen["attempts"] = tries
          /\ "artifacts" \in DOMAIN seen => seen["artifacts"] = latest
      BY <2>1, <2>7 DEF PageFits
    <3>2. row' = row /\ tries' = tries /\ latest' = latest BY <2>7, <3>1 DEF KeepsPages
    <3> QED BY <3>1, <3>2
  <2> HIDE DEF seen
  <2>8. PageFits(seen)' BY <2>2, <2>3, <2>4, <2>5, <2>6, <2>7 DEF PageFits
  <2> QED BY <2>1, <2>8 DEF seen
<1> QED BY <1>1, <1>3, <1>4 DEF PageInv

-----------------------------------------------------------------------------
(* A read of a page. *)

\* What has been read so far, and r.
GotWith(g, r, v) == [x \in DOMAIN g \cup {r} |-> IF x = r THEN v ELSE g[x]]

PageOf(k, s, l, g) == [kind |-> k, since |-> s, left |-> l, got |-> g]

\* With adds a read to the page and takes it off those that are left.
LEMMA WithMeans ==
  ASSUME NEW k, NEW s, NEW l, NEW g, NEW r
  PROVE  With(PageOf(k, s, l, g), r) = PageOf(k, s, Tail(l), GotWith(g, r, ReadOf(r, PageOf(k, s, l, g))))
<1> PICK p : p = PageOf(k, s, l, g) OBVIOUS
<1>0. p = [kind |-> k, since |-> s, left |-> l, got |-> g] BY DEF PageOf
<1>1. p.kind = k /\ p.since = s /\ p.left = l /\ p.got = g BY <1>0
<1>2. PICK v : v = GotWith(p.got, r, ReadOf(r, p)) OBVIOUS
<1>3. With(p, r) = [p EXCEPT !.left = Tail(p.left), !.got = v] BY <1>2 DEF With, GotWith
<1>4. PICK w : w = Tail(l) OBVIOUS
<1>5. PICK p1 : p1 = [p EXCEPT !.left = w] OBVIOUS
<1>6. p1 = [kind |-> k, since |-> s, left |-> w, got |-> g] BY <1>0, <1>5
<1>7. With(p, r) = [p1 EXCEPT !.got = v] BY <1>1, <1>3, <1>4, <1>5
<1>8. With(p, r) = [kind |-> k, since |-> s, left |-> w, got |-> v] BY <1>6, <1>7
<1>9. With(p, r) = PageOf(k, s, w, v) BY <1>8 DEF PageOf
<1> QED BY <1>1, <1>2, <1>4, <1>9

\* Taking the first of a sequence of reads.
LEMMA RestOf ==
  ASSUME NEW S, NEW T, NEW s \in Seq(T), s # <<>>, \A i \in 2..Len(s) : s[i] \in S
  PROVE  /\ Tail(s) \in Seq(S) /\ \A i \in 2..Len(s) : s[i] \in Elems(Tail(s))
         /\ s[1] \in T /\ Elems(s) \subseteq {s[1]} \cup Elems(Tail(s))
<1>1. Len(s) \in Nat /\ Len(s) >= 1 /\ s[1] \in T OBVIOUS
<1>2. Len(Tail(s)) = Len(s) - 1 /\ \A i \in 1..(Len(s) - 1) : Tail(s)[i] = s[i + 1] OBVIOUS
<1>3. \A i \in 2..Len(s) : i - 1 \in 1..(Len(s) - 1) /\ (i - 1) + 1 = i BY <1>1
<1>4. \A i \in 2..Len(s) : s[i] \in Elems(Tail(s))
  <2> SUFFICES ASSUME NEW i \in 2..Len(s) PROVE s[i] \in Elems(Tail(s)) OBVIOUS
  <2>1. i - 1 \in 1..Len(Tail(s)) /\ Tail(s)[i - 1] = s[i] BY <1>2, <1>3
  <2> QED BY <2>1 DEF Elems
<1>5. Tail(s) \in Seq(S)
  <2>1. Tail(s) \in Seq(T) BY <1>1
  <2>2. \A i \in 1..Len(Tail(s)) : Tail(s)[i] \in S
    <3> SUFFICES ASSUME NEW i \in 1..Len(Tail(s)) PROVE Tail(s)[i] \in S OBVIOUS
    <3>1. i \in 1..(Len(s) - 1) /\ i + 1 \in 2..Len(s) BY <1>1, <1>2
    <3> QED BY <1>2, <3>1
  <2>3. PICK q : q = Tail(s) OBVIOUS
  <2>4. q \in Seq(S)
    <3>1. q \in Seq(T) /\ \A i \in 1..Len(q) : q[i] \in S BY <2>1, <2>2, <2>3
    <3>2. PICK n \in Nat : n = Len(q) BY <3>1
    <3>3. q = [i \in 1..n |-> q[i]] BY <3>1, <3>2
    <3>4. \A i \in 1..n : q[i] \in S BY <3>1, <3>2
    <3>5. q \in [1..n -> S] BY <3>3, <3>4
    <3> QED BY <3>5, SeqDef
  <2> QED BY <2>3, <2>4
<1>6. Elems(s) \subseteq {s[1]} \cup Elems(Tail(s))
  <2> SUFFICES ASSUME NEW i \in 1..Len(s) PROVE s[i] \in {s[1]} \cup Elems(Tail(s)) BY DEF Elems
  <2>1. i = 1 \/ i \in 2..Len(s) BY <1>1
  <2>2. CASE i = 1 BY <2>2
  <2>3. CASE i # 1 BY <1>4, <2>1, <2>3
  <2> QED BY <2>2, <2>3
<1> QED BY <1>1, <1>4, <1>5, <1>6

\* What a read adds is so when it is made.
LEMMA ReadIsTrue ==
  ASSUME WriterInv, NEW p, NEW g, p.got = g, "task" \in DOMAIN g, g["task"] \in TaskRow, PageFits(g),
         NEW r \in Later, NEW h, h = GotWith(g, r, ReadOf(r, p))
  PROVE  PageFits(h)
<1> PICK t : t = g["task"] OBVIOUS
<1>1. r # "task" BY DEF Later
<1>2. DOMAIN h = DOMAIN g \cup {r} /\ h[r] = ReadOf(r, p) /\ \A x \in DOMAIN g : x # r => h[x] = g[x]
  <2>1. PICK v : v = ReadOf(r, p) OBVIOUS
  <2>2. h = GotWith(g, r, v) BY <2>1
  <2>3. DOMAIN h = DOMAIN g \cup {r} /\ h[r] = v /\ \A x \in DOMAIN g : x # r => h[x] = g[x]
    BY <2>2 DEF GotWith
  <2> QED BY <2>1, <2>3
<1>3. h["task"] = t BY <1>1, <1>2
<1>4. Covered(t, tries) /\ EndTold(t.state, log) BY DEF PageFits
<1>5. "running" \in DOMAIN h => h["running"] \in Nat /\ t.used + h["running"] <= CostUpToNow
  <2>1. CASE r = "running"
    <3>1. h["running"] = RunningCost(t, log) BY <1>2, <2>1 DEF ReadOf
    <3> QED BY <1>4, <3>1, RunningIsSpent
  <2>2. CASE r # "running"
    <3>1. "running" \in DOMAIN h => "running" \in DOMAIN g /\ h["running"] = g["running"] BY <1>2, <2>2
    <3> QED BY <3>1 DEF PageFits
  <2> QED BY <2>1, <2>2
<1>6. "reason" \in DOMAIN h /\ t.state \in {"FAILED", "CANCELLED"} => h["reason"] # ""
  <2>1. CASE r = "reason"
    <3>1. h["reason"] = Reason(t, log) BY <1>2, <2>1 DEF ReadOf
    <3>2. t.state \in {"FAILED", "CANCELLED"} => HasReason(t, log) BY <1>4, ReasonIsThere
    <3> QED BY <3>1, <3>2 DEF HasReason
  <2>2. CASE r # "reason"
    <3>1. "reason" \in DOMAIN h => "reason" \in DOMAIN g /\ h["reason"] = g["reason"] BY <1>2, <2>2
    <3> QED BY <3>1 DEF PageFits
  <2> QED BY <2>1, <2>2
<1>7. ASSUME t.state = "SUCCEEDED"
      PROVE  /\ row = t
             /\ "attempts" \in DOMAIN h => h["attempts"] = tries
             /\ "artifacts" \in DOMAIN h => h["artifacts"] = latest
  <2>1. /\ row = t
        /\ "attempts" \in DOMAIN g => g["attempts"] = tries
        /\ "artifacts" \in DOMAIN g => g["artifacts"] = latest
    BY <1>7 DEF PageFits
  <2>2. "attempts" \in DOMAIN h => h["attempts"] = tries
    <3>1. CASE r = "attempts" BY <1>2, <3>1 DEF ReadOf
    <3>2. CASE r # "attempts"
      <4>1. "attempts" \in DOMAIN h => "attempts" \in DOMAIN g /\ h["attempts"] = g["attempts"] BY <1>2, <3>2
      <4> QED BY <2>1, <4>1
    <3> QED BY <3>1, <3>2
  <2>3. "artifacts" \in DOMAIN h => h["artifacts"] = latest
    <3>1. CASE r = "artifacts" BY <1>2, <3>1 DEF ReadOf
    <3>2. CASE r # "artifacts"
      <4>1. "artifacts" \in DOMAIN h => "artifacts" \in DOMAIN g /\ h["artifacts"] = g["artifacts"] BY <1>2, <3>2
      <4> QED BY <2>1, <4>1
    <3> QED BY <3>1, <3>2
  <2> QED BY <2>1, <2>2, <2>3
<1> QED BY <1>3, <1>4, <1>5, <1>6, <1>7 DEF PageFits

\* A later read of a page.
LEMMA ReadsOn ==
  ASSUME WriterInv, PageInv, ReadOn
  PROVE  PageInv'
<1> DEFINE k == page.kind  l == page.left  g == page.got  r == page.left[1]
<1>1. page = PageOf(k, page.since, l, g) BY DEF PageInv, PageShape, PageOf
<1>2. page.left # <<>> /\ page' = With(page, r) BY DEF ReadOn
<1>3. PICK h : h = GotWith(g, r, ReadOf(r, page)) OBVIOUS
<1>4. page' = PageOf(k, page.since, Tail(l), h)
  <2> HIDE DEF k, l, g, r
  <2>1. PICK u : u = page.since OBVIOUS
  <2>2. page = PageOf(k, u, l, g) BY <1>1, <2>1
  <2>3. With(PageOf(k, u, l, g), r) = PageOf(k, u, Tail(l), GotWith(g, r, ReadOf(r, PageOf(k, u, l, g)))) BY WithMeans
  <2> QED BY <1>2, <1>3, <2>1, <2>2, <2>3
<1>5. page'.kind = k /\ page'.since = page.since /\ page'.left = Tail(l) /\ page'.got = h BY <1>4 DEF PageOf
<1>6. PageShape' BY <1>4, <1>5 DEF PageInv, PageShape, PageOf
<1>7. ASSUME k \in {"steps", "dossier"} PROVE ReadsFit(k, Tail(l), h) /\ PageFits(h)'
  <2>1. ReadsFit(k, l, g) /\ PageFits(g) BY <1>7 DEF PageInv
  <2>2. /\ l \in Seq(Later) /\ Needs(k) \subseteq DOMAIN g \cup Elems(l)
        /\ "task" \in DOMAIN g /\ g["task"] \in TaskRow
    BY <2>1 DEF ReadsFit
  <2>3. l # <<>> /\ r = l[1] BY <1>2
  <2> HIDE DEF k, l, g, r
  <2>4. \A i \in 2..Len(l) : l[i] \in Later
    <3>1. Len(l) \in Nat BY <2>2
    <3>2. \A i \in 2..Len(l) : i \in 1..Len(l) BY <3>1
    <3> QED BY <2>2, <3>2
  <2>5. Tail(l) \in Seq(Later) /\ r \in Later /\ Elems(l) \subseteq {r} \cup Elems(Tail(l))
    BY <2>2, <2>3, <2>4, RestOf
  <2>6. DOMAIN h = DOMAIN g \cup {r} /\ \A x \in DOMAIN g : x # r => h[x] = g[x]
    <3>1. PICK v : v = ReadOf(r, page) OBVIOUS
    <3>2. h = GotWith(g, r, v) BY <1>3, <3>1
    <3> QED BY <3>2 DEF GotWith
  <2>7. Needs(k) \subseteq DOMAIN h \cup Elems(Tail(l)) BY <2>2, <2>5, <2>6
  <2>8. "task" \in DOMAIN h /\ h["task"] \in TaskRow
    <3>1. r # "task" BY <2>5 DEF Later
    <3> QED BY <2>2, <2>6, <3>1
  <2>9. ReadsFit(k, Tail(l), h) BY <2>5, <2>7, <2>8 DEF ReadsFit
  <2>10. page.got = g BY DEF g
  <2>11. PageFits(h) BY <1>3, <2>1, <2>2, <2>5, <2>10, ReadIsTrue
  <2>12. row' = row /\ tries' = tries /\ log' = log /\ latest' = latest BY DEF ReadOn, writer
  <2>13. CostUpToNow' = CostUpToNow BY <2>12 DEF CostUpToNow
  <2>14. PageFits(h)' BY <2>11, <2>12, <2>13 DEF PageFits
  <2> QED BY <2>9, <2>14
<1> QED BY <1>5, <1>6, <1>7 DEF PageInv

\* The first read: the task.
LEMMA FirstRead ==
  ASSUME WriterInv, PageInv, NEW kind \in Pages, DeskAssumption, AskFor(kind)
  PROVE  PageInv'
<1> PICK reads : reads = Reads(kind) OBVIOUS
<1> PICK none : none = [x \in {} |-> 0] OBVIOUS
<1>1. kind \in {"steps", "dossier", "review", "overview"} BY DEF DeskAssumption
<1>2. PICK n : n = Len(log) OBVIOUS
<1> PICK p : p = PageOf(kind, n, reads, none) OBVIOUS
<1>3. page' = With(p, reads[1])
  <2>1. NoPage = [kind |-> "none", since |-> 0, left |-> <<>>, got |-> none] BY DEF NoPage
  <2>2. PICK p1 : p1 = [NoPage EXCEPT !.kind = kind] OBVIOUS
  <2>3. p1 = [kind |-> kind, since |-> 0, left |-> <<>>, got |-> none] BY <2>1, <2>2
  <2>4. PICK p2 : p2 = [p1 EXCEPT !.since = n] OBVIOUS
  <2>5. p2 = [kind |-> kind, since |-> n, left |-> <<>>, got |-> none] BY <2>3, <2>4
  <2>6. PICK p3 : p3 = [p2 EXCEPT !.left = reads] OBVIOUS
  <2>7. p3 = [kind |-> kind, since |-> n, left |-> reads, got |-> none] BY <2>5, <2>6
  <2>8. p3 = p BY <2>7 DEF PageOf
  <2>9. p = [NoPage EXCEPT !.kind = kind, !.since = Len(log), !.left = Reads(kind)]
    BY <1>2, <2>2, <2>4, <2>6, <2>8
  <2> QED BY <2>9 DEF AskFor
<1>4. PICK h : h = GotWith(none, reads[1], ReadOf(reads[1], p)) OBVIOUS
<1>5. page' = PageOf(kind, n, Tail(reads), h)
  <2>1. PICK r : r = reads[1] OBVIOUS
  <2>2. With(PageOf(kind, n, reads, none), r)
        = PageOf(kind, n, Tail(reads), GotWith(none, r, ReadOf(r, PageOf(kind, n, reads, none))))
    BY WithMeans
  <2> QED BY <1>3, <1>4, <2>1, <2>2
<1>6. page'.kind = kind /\ page'.since = Len(log) /\ page'.left = Tail(reads) /\ page'.got = h BY <1>2, <1>5 DEF PageOf
<1>7. PageShape' BY <1>1, <1>5, <1>6 DEF PageShape, PageOf
<1>8. ASSUME kind \in {"steps", "dossier"} PROVE ReadsFit(kind, Tail(reads), h) /\ PageFits(h)'
  <2>1. /\ reads \in Seq(Later \cup {"task"}) /\ reads # <<>> /\ reads[1] = "task"
        /\ \A i \in 2..Len(reads) : reads[i] \in Later
        /\ \A x \in Needs(kind) : \E i \in 2..Len(reads) : reads[i] = x
    <3>1. CASE kind = "steps"
      <4>1. reads = StepsReads BY <3>1 DEF Reads
      <4>2. /\ StepsReads \in Seq(Later \cup {"task"}) /\ Len(StepsReads) = 6 /\ StepsReads[1] = "task"
            /\ StepsReads[2] = "attempts" /\ StepsReads[3] = "verdicts" /\ StepsReads[4] = "reason"
            /\ StepsReads[5] = "running" /\ StepsReads[6] = "now"
        BY DEF StepsReads, Later
      <4>3. Needs(kind) = {"attempts", "reason", "running"} BY <3>1 DEF Needs
      <4>4. 2..6 = {2, 3, 4, 5, 6} OBVIOUS
      <4>5. \A i \in 2..Len(reads) : reads[i] \in Later BY <4>1, <4>2, <4>4 DEF Later
      <4>6. reads # <<>>
        <5>1. Len(reads) # 0 BY <4>1, <4>2
        <5> QED BY <5>1
      <4>7. \A x \in Needs(kind) : \E i \in 2..Len(reads) : reads[i] = x BY <4>1, <4>2, <4>3, <4>4
      <4> QED BY <4>1, <4>2, <4>5, <4>6, <4>7
    <3>2. CASE kind = "dossier"
      <4>1. reads = DossierReads BY <3>2 DEF Reads
      <4>2. /\ DossierReads \in Seq(Later \cup {"task"}) /\ Len(DossierReads) = 7 /\ DossierReads[1] = "task"
            /\ DossierReads[2] = "attempts" /\ DossierReads[3] = "verdicts" /\ DossierReads[4] = "artifacts"
            /\ DossierReads[5] = "missing" /\ DossierReads[6] = "reason" /\ DossierReads[7] = "running"
        BY DEF DossierReads, Later
      <4>3. Needs(kind) = {"attempts", "reason", "running", "artifacts"} BY <3>2 DEF Needs
      <4>4. 2..7 = {2, 3, 4, 5, 6, 7} OBVIOUS
      <4>5. \A i \in 2..Len(reads) : reads[i] \in Later BY <4>1, <4>2, <4>4 DEF Later
      <4>6. reads # <<>>
        <5>1. Len(reads) # 0 BY <4>1, <4>2
        <5> QED BY <5>1
      <4>7. \A x \in Needs(kind) : \E i \in 2..Len(reads) : reads[i] = x BY <4>1, <4>2, <4>3, <4>4
      <4> QED BY <4>1, <4>2, <4>5, <4>6, <4>7
    <3> QED BY <1>8, <3>1, <3>2
  <2>2. Tail(reads) \in Seq(Later) /\ \A i \in 2..Len(reads) : reads[i] \in Elems(Tail(reads)) BY <2>1, RestOf
  <2>3. DOMAIN h = DOMAIN none \cup {"task"} /\ h["task"] = ReadOf("task", p)
    <3>1. PICK v : v = ReadOf("task", p) OBVIOUS
    <3>2. h = GotWith(none, "task", v) BY <1>4, <2>1, <3>1
    <3>3. DOMAIN h = DOMAIN none \cup {"task"} /\ h["task"] = v BY <3>2 DEF GotWith
    <3> QED BY <3>1, <3>3
  <2>4. DOMAIN h = {"task"} /\ h["task"] = row BY <2>3 DEF ReadOf
  <2>5. row \in TaskRow BY WhereItIs
  <2>6. Needs(kind) \subseteq DOMAIN h \cup Elems(Tail(reads)) BY <2>1, <2>2
  <2>7. ReadsFit(kind, Tail(reads), h) BY <2>2, <2>4, <2>5, <2>6 DEF ReadsFit
  <2>8. row' = row /\ tries' = tries /\ log' = log /\ latest' = latest BY DEF AskFor, writer
  <2>9. Covered(row, tries) /\ EndTold(row.state, log) BY DEF WriterInv, StepInv, UsedIsCovered
  <2>10. PageFits(h)'
    <3>1. h["task"] = row' /\ Covered(row', tries') /\ EndTold(row'.state, log') BY <2>4, <2>8, <2>9
    <3>2. "running" \notin DOMAIN h /\ "reason" \notin DOMAIN h /\ "attempts" \notin DOMAIN h
          /\ "artifacts" \notin DOMAIN h
      BY <2>4
    <3> QED BY <3>1, <3>2 DEF PageFits
  <2> QED BY <2>7, <2>10
<1> QED BY <1>6, <1>7, <1>8 DEF PageInv

-----------------------------------------------------------------------------
(* The theorems about the pages of a task. *)

\* The first state of a task, its log and the page.
LEMMA DeskStarts ==
  ASSUME DeskAssumption, DeskInit
  PROVE  DeskInv
<1>1. PICK cap \in Caps : row = [state |-> "QUEUED", why |-> "", step |-> 0, active |-> 0, used |-> 0,
                                 limit |-> cap, cancel |-> FALSE]
  BY DEF DeskInit
<1>2. /\ tries = <<>> /\ log = <<>> /\ latest = [k \in Index |-> 0]
      /\ ask = NoQuestion /\ phase = "off" /\ asks = 0 /\ deaths = 0 /\ page = NoPage
  BY DEF DeskInit
<1>3. cap \in Nat \cup {NoCap} /\ 0 \in 0..Steps BY DEF DeskAssumption
<1>4. row \in TaskRow
  <2>1. "QUEUED" \in TaskState BY DEF TaskState
  <2> QED BY <1>1, <1>3, <2>1 DEF TaskRow
<1>5. row.state = "QUEUED" /\ row.step = 0 /\ row.active = 0 /\ row.used = 0 BY <1>1
<1>6. tries \in Seq(TryRow) /\ Len(tries) = 0 /\ log \in Seq(LogRow) /\ Len(log) = 0 BY <1>2
<1>7. ask \in AskRow /\ ask.kind = "" BY <1>2 DEF NoQuestion, AskRow
<1>8. latest \in [Index -> Nat] BY <1>2
<1>9. DeskShape BY <1>2, <1>4, <1>6, <1>7, <1>8 DEF DeskShape, Phases
<1>10. phase \notin AtTry /\ phase # "accept" /\ phase # "finish" BY <1>2 DEF AtTry, Results
<1>11. AtLast(phase, row, tries) BY <1>10 DEF AtLast
<1>12. StepsDone(row, phase, tries, latest)
  <2>1. ~\E k \in Index : k < row.step BY <1>5 DEF Index
  <2> QED BY <1>10, <2>1 DEF StepsDone
<1>13. UsedIsCovered(row, phase, tries)
  <2>1. CostOf(tries)[0] = 0 BY <1>6, CostSteps
  <2>2. row.used <= CostOf(tries)[Len(tries)] BY <1>5, <1>6, <2>1
  <2> QED BY <1>5, <1>10, <2>2 DEF UsedIsCovered, Covered
<1>14. StepInv(row, phase, tries, latest) BY <1>5, <1>11, <1>12, <1>13 DEF StepInv, SucceededRests
<1>15. LogInv(log, phase, tries)
  <2>1. ~\E j : j \in 1..Len(log) BY <1>6
  <2> QED BY <2>1 DEF LogInv, ReportsFit, StartIsOfLast, ReasonsGiven
<1>16. EndTold(row.state, log) BY <1>5 DEF EndTold
<1>17. WriterInv BY <1>9, <1>14, <1>15, <1>16 DEF WriterInv
<1>18. PageInv BY <1>2 DEF PageInv, PageShape, NoPage
<1> QED BY <1>17, <1>18 DEF DeskInv

\* A read leaves all rows as they are.
LEMMA WriterSame ==
  ASSUME WriterInv, UNCHANGED writer
  PROVE  WriterInv'
<1>1. /\ row' = row /\ tries' = tries /\ log' = log /\ latest' = latest /\ ask' = ask /\ phase' = phase
      /\ asks' = asks /\ deaths' = deaths
  BY DEF writer
<1> QED BY <1>1 DEF WriterInv, DeskShape

\* Every step keeps the invariant.
LEMMA DeskSteps ==
  ASSUME DeskAssumption, DeskInv, [DeskNext]_deskVars
  PROVE  DeskInv'
<1>1. CASE WriterMoves
  <2>1. WriterInv' /\ KeepsPages BY <1>1, WriterKeeps DEF DeskInv
  <2>2. PageInv' BY <2>1, PageStays DEF DeskInv
  <2> QED BY <2>1, <2>2 DEF DeskInv
<1>2. CASE \E kind \in Pages : AskFor(kind)
  <2>1. PICK kind \in Pages : AskFor(kind) BY <1>2
  <2>2. WriterInv' BY <2>1, WriterSame DEF AskFor, DeskInv
  <2>3. PageInv' BY <2>1, FirstRead DEF DeskInv
  <2> QED BY <2>2, <2>3 DEF DeskInv
<1>3. CASE ReadOn
  <2>1. WriterInv' BY <1>3, WriterSame DEF ReadOn, DeskInv
  <2>2. PageInv' BY <1>3, ReadsOn DEF DeskInv
  <2> QED BY <2>1, <2>2 DEF DeskInv
<1>4. CASE UNCHANGED deskVars
  <2>1. UNCHANGED writer /\ page' = page BY <1>4 DEF deskVars
  <2>2. WriterInv' BY <2>1, WriterSame DEF DeskInv
  <2>3. KeepsPages
    <3>1. row' = row /\ tries' = tries /\ log' = log /\ latest' = latest BY <2>1 DEF writer
    <3>2. tries \in Seq(TryRow) /\ log \in Seq(LogRow) BY WhereItIs DEF DeskInv
    <3>3. Grows(tries, tries') BY <3>1, <3>2, GrowsNot
    <3>4. Len(log) \in Nat BY <3>2
    <3> QED BY <2>1, <3>1, <3>3, <3>4 DEF KeepsPages, Longer
  <2>4. PageInv' BY <2>2, <2>3, PageStays DEF DeskInv
  <2> QED BY <2>2, <2>4 DEF DeskInv
<1> QED BY <1>1, <1>2, <1>3, <1>4 DEF DeskNext, WriterMoves

\* The rows of a task, its attempts, its events and the pages that are read of them
\* fit together in every state (advisor.py, repository.py, expert_desk.py).
THEOREM DeskInvariant == DeskSpec => []DeskInv
<1>1. DeskInit => DeskInv BY DeskAssumption, DeskStarts
<1>2. DeskInv /\ [DeskNext]_deskVars => DeskInv' BY DeskAssumption, DeskSteps
<1> QED BY <1>1, <1>2, PTL DEF DeskSpec

\* A page that is complete has what it needs.
LEMMA PageIsRead ==
  ASSUME PageInv, NEW kind \in {"steps", "dossier"}, Shown(kind)
  PROVE  /\ page.kind = kind /\ PageFits(page.got) /\ page.got["task"] \in TaskRow
         /\ Needs(kind) \subseteq DOMAIN page.got
<1>1. page.kind = kind /\ page.left = <<>> BY DEF Shown
<1>2. ReadsFit(kind, page.left, page.got) /\ PageFits(page.got) BY <1>1 DEF PageInv
<1>3. Elems(page.left) = {}
  <2>1. Len(page.left) = 0 BY <1>1
  <2> QED BY <2>1 DEF Elems
<1> QED BY <1>1, <1>2, <1>3 DEF ReadsFit

\* A step that is done is shown as accepted by a page of a task that has succeeded.
LEMMA ShownAsAccepted ==
  ASSUME WriterInv, page.got["task"].state = "SUCCEEDED", page.got["attempts"] = tries,
         NEW k \in Index, DoneStep(k, tries, latest)
  PROVE  StepView(k, page).status = "accepted"
<1> DEFINE of == Of(k, page)
<1>1. tries \in Seq(TryRow) /\ Len(tries) \in Nat BY WhereItIs
<1>2. PICK i \in 1..Len(tries) : /\ tries[i].step = k /\ tries[i].status = "COMPLETED"
                                 /\ \A j \in 1..Len(tries) : tries[j].step = k => j <= i
  BY DEF DoneStep
<1>3. of = {j \in 1..Len(tries) : tries[j].step = k} BY <1>1 DEF Of
<1>4. of \subseteq 1..Len(tries) /\ i \in of /\ \A j \in of : j <= i BY <1>2, <1>3
<1> HIDE DEF of
<1>5. Max(of) = i BY <1>1, <1>4, MaxIsLast
<1>6. Outcome(tries[i]) = "accepted" BY <1>2 DEF Outcome
<1>7. StepStatus(k, page) = "accepted"
  <2>1. of # {} BY <1>4
  <2> DEFINE last == IF Of(k, page) = {} THEN "" ELSE Outcome(page.got["attempts"][Max(Of(k, page))])
  <2>2. last = "accepted" BY <1>5, <1>6, <2>1 DEF of
  <2> HIDE DEF last
  <2>3. StepStatus(k, page) =
          CASE last = "accepted" /\ (page.got["task"].state = "SUCCEEDED" \/ k < page.got["task"].step) -> "accepted"
            [] k = page.got["task"].step /\ page.got["task"].state = "FAILED" -> "failed"
            [] k = page.got["task"].step /\ page.got["task"].state = "CANCELLED" -> "cancelled"
            [] last = "rejected" /\ k > page.got["task"].step -> "went_back"
            [] OTHER -> "not_reached"
    BY DEF StepStatus, Ended, last
  <2> QED BY <2>2, <2>3
<1> QED BY <1>7 DEF StepView

\* A page that says a task is done shows every step accepted.
LEMMA DoneIsShown ==
  ASSUME DeskAssumption, DeskInv
  PROVE  DoneMeansDone
<1> SUFFICES ASSUME NEW kind \in {"steps", "dossier"}, Shown(kind), page.got["task"].state = "SUCCEEDED"
    PROVE  /\ \A k \in Index : StepView(k, page).status = "accepted"
           /\ Left(page) = 0 /\ ~Redo(page)
           /\ kind = "dossier" => /\ Dossier(page).head = "done"
                                  /\ \A k \in Index : Dossier(page).blocks[k] = "done"
  BY DEF DoneMeansDone
<1>1. WriterInv /\ PageInv BY DEF DeskInv
<1>2. /\ page.kind = kind /\ PageFits(page.got) /\ page.got["task"] \in TaskRow
      /\ Needs(kind) \subseteq DOMAIN page.got
  BY <1>1, PageIsRead
<1>3. /\ row = page.got["task"]
      /\ page.got["attempts"] = tries
      /\ kind = "dossier" => page.got["artifacts"] = latest
  BY <1>2 DEF PageFits, Needs
<1>4. row.step = Steps BY <1>1, <1>3, WhereItIs
<1>5. ASSUME NEW k \in Index PROVE DoneStep(k, tries, latest)
  <2>1. k < row.step BY <1>4 DEF Index, DeskAssumption
  <2> QED BY <1>1, <2>1 DEF WriterInv, StepInv, StepsDone
<1>6. \A k \in Index : StepView(k, page).status = "accepted" BY <1>1, <1>3, <1>5, ShownAsAccepted
<1>7. Left(page) = 0 BY <1>3, <1>4 DEF Left, DeskAssumption
<1>8. ~Redo(page) BY DEF Redo
<1>9. ASSUME kind = "dossier"
      PROVE  Dossier(page).head = "done" /\ \A k \in Index : Dossier(page).blocks[k] = "done"
  <2>1. HeadOf(page) = "done" BY DEF HeadOf
  <2>2. \A k \in Index : Block(k, page) = "done"
    <3> SUFFICES ASSUME NEW k \in Index PROVE Block(k, page) = "done" OBVIOUS
    <3>1. page.got["artifacts"][k] # 0 BY <1>3, <1>5, <1>9 DEF DoneStep
    <3> QED BY <3>1 DEF Block
  <2>3. Dossier(page).head = HeadOf(page) BY DEF Dossier
  <2>4. Dossier(page).blocks = [k \in Index |-> Block(k, page)] BY DEF Dossier
  <2> QED BY <2>1, <2>2, <2>3, <2>4
<1> QED BY <1>6, <1>7, <1>8, <1>9

\* What the invariant says of a page that is complete.
LEMMA ShownIsTrue ==
  ASSUME DeskAssumption, DeskInv
  PROVE  PageIsTrue
<1>1. DoneMeansDone BY DoneIsShown
<1>2. NeverMoreThanSpent
  <2> SUFFICES ASSUME NEW kind \in {"steps", "dossier"}, Shown(kind) PROVE Spent(page) <= CostUpToNow
    BY DEF NeverMoreThanSpent
  <2>1. PageFits(page.got) /\ Needs(kind) \subseteq DOMAIN page.got BY PageIsRead DEF DeskInv
  <2>2. "running" \in DOMAIN page.got BY <2>1 DEF Needs
  <2> QED BY <2>1, <2>2 DEF PageFits, Spent
<1>3. EndHasItsReason
  <2> SUFFICES ASSUME NEW kind \in {"steps", "dossier"}, Shown(kind),
                      page.got["task"].state \in {"FAILED", "CANCELLED"}
      PROVE  page.got["reason"] # ""
    BY DEF EndHasItsReason
  <2>1. PageFits(page.got) /\ Needs(kind) \subseteq DOMAIN page.got BY PageIsRead DEF DeskInv
  <2>2. "reason" \in DOMAIN page.got BY <2>1 DEF Needs
  <2> QED BY <2>1, <2>2 DEF PageFits
<1> QED BY <1>1, <1>2, <1>3 DEF PageIsTrue

\* Whatever is committed between the reads of a page, a page that says that a task is
\* done shows every step accepted and all of its dossier; the money it shows was spent;
\* a task that failed or was cancelled is shown with its reason (expert_desk.py: steps,
\* dossier; step_view.py: step_status, budget_view).
THEOREM PagesAreTrue == DeskSpec => []PageIsTrue
<1>1. DeskInv => PageIsTrue BY DeskAssumption, ShownIsTrue
<1> QED BY <1>1, DeskInvariant, PTL

=============================================================================
