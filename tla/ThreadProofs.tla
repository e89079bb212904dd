----------------------------- MODULE ThreadProofs -----------------------------
(***************************************************************************)
(* Theorems about one conversation: the log with its readers, what is      *)
(* charged and which reports are booked (Events.tla), and the requests of  *)
(* its turns for a decision (Approvals.tla).                               *)
(***************************************************************************)
EXTENDS Events, Approvals, FiniteSetTheorems, SequenceTheorems, WellFoundedInduction, TLAPS

-----------------------------------------------------------------------------
(* Least and greatest numbers, and sets in a row. *)

LEMMA LeastNat ==
  ASSUME NEW T, T \subseteq Nat, T # {}
  PROVE  \E x \in T : \A y \in T : x <= y
<1>1. PICK x \in T : \A y \in T : ~(<<y, x>> \in OpToRel(<, Nat))
  BY NatLessThanWellFounded, WFMin
<1>2. ASSUME NEW y \in T PROVE x <= y
  <2>1. y \in Nat /\ x \in Nat OBVIOUS
  <2>2. ~(y < x) BY <1>1, <2>1 DEF OpToRel
  <2> QED BY <2>1, <2>2
<1> QED BY <1>2

LEMMA LeastIsMin ==
  ASSUME NEW T, T \subseteq Nat, T # {}
  PROVE  Min(T) \in T /\ \A y \in T : Min(T) <= y
BY LeastNat DEF Min

LEMMA GreatestIsMax ==
  ASSUME NEW n \in Nat, NEW T, T \subseteq 1..n, T # {}
  PROVE  Max(T) \in T /\ \A y \in T : y <= Max(T)
<1> DEFINE D == {n - x : x \in T}
<1>0. \A y \in T : y \in Nat /\ y <= n OBVIOUS
<1>1. D \subseteq Nat /\ D # {}
  <2>1. \A x \in T : n - x \in Nat BY <1>0
  <2> QED BY <2>1
<1>2. PICK d \in D : \A y \in D : d <= y BY <1>1, LeastNat
<1>3. PICK x \in T : d = n - x OBVIOUS
<1>4. ASSUME NEW y \in T PROVE x >= y
  <2>1. x \in Nat /\ y \in Nat BY <1>0
  <2>2. n - x <= n - y BY <1>2, <1>3
  <2> QED BY <2>1, <2>2
<1>5. Max(T) \in T /\ \A y \in T : Max(T) >= y BY <1>4 DEF Max
<1>6. \A y \in T : y \in Nat /\ Max(T) \in Nat
  <2> HIDE DEF D
  <2> QED BY <1>0, <1>5
<1> QED BY <1>5, <1>6

\* A set in a row: each element of it once.
LEMMA SetInARow ==
  ASSUME NEW S, IsFiniteSet(S)
  PROVE  /\ SetToSeq(S) \in Seq(S)
         /\ \A i, j \in 1..Len(SetToSeq(S)) : SetToSeq(S)[i] = SetToSeq(S)[j] => i = j
<1> DEFINE n == Cardinality(S)
<1>1. n \in Nat /\ ExistsBijection(1..n, S) BY FS_CardinalityType
<1>2. PICK f \in Bijection(1..n, S) : TRUE BY <1>1 DEF ExistsBijection
<1>3. f \in [1..n -> S] /\ IsInjective(f)
  BY <1>2 DEF Bijection, Injection, Surjection, IsInjective
<1>4. SetToSeq(S) \in [1..n -> S] /\ IsInjective(SetToSeq(S)) BY <1>3 DEF SetToSeq
<1>5. SetToSeq(S) \in Seq(S) /\ Len(SetToSeq(S)) = n
  <2> HIDE DEF n
  <2> QED BY <1>1, <1>4
<1>6. \A i, j \in 1..n : SetToSeq(S)[i] = SetToSeq(S)[j] => i = j
  <2> HIDE DEF n
  <2> QED BY <1>4 DEF IsInjective
<1> QED BY <1>5, <1>6

LEMMA PrefixOfLonger ==
  ASSUME NEW S, NEW a \in Seq(S), NEW b \in Seq(S), NEW n \in 0..Len(a)
  PROVE  SubSeq(a \o b, 1, n) = SubSeq(a, 1, n)
<1>1. CASE n = 0 BY <1>1
<1>2. CASE n # 0
  <2>1. 1 \in 1..Len(a) /\ n \in 1..Len(a) BY <1>2
  <2> QED BY <2>1, SubSeqOfConcat1
<1> QED BY <1>1, <1>2

-----------------------------------------------------------------------------
(* Events: types. *)

UsageRow == [type : {"usage"}, total : Nat, tokens : Nat]
PermissionRow == [type : {"permission"}, id : {e.id : e \in Reports}, scope : {e.scope : e \in Reports}]
Entry == UsageRow \cup PermissionRow
WireRow == [total : Nat, last : Nat]

ReadersShape == reader \in [Readers -> [on : BOOLEAN, last : Nat, sent : Seq(Entry)]]
LinkShape ==
  /\ spent \in Nat /\ call \in Nat /\ wire \in Seq(WireRow)
  /\ total \in Nat \cup {Unseen, NoTotal} /\ taken \in UsageRow \cup {Nothing}

(* The inductive invariant, in parts. *)

\* What a page was given is a prefix of the log.
PagesFit ==
  \A r \in Readers :
    /\ reader[r].last <= Len(log)
    /\ reader[r].sent = SubSeq(log, 1, reader[r].last)
    /\ ~reader[r].on => reader[r].last = 0

\* A sync holds reports there are, and books one of each id.
SyncFields == {"at", "agent", "reports", "row", "off", "record", "asks"}
SyncFine(x) ==
  /\ x = [f \in SyncFields |-> x[f]]
  /\ x.reports \subseteq Reports /\ IsFiniteSet(x.reports)
  /\ x.record \subseteq x.reports
  /\ \A e, f \in x.record : e.id = f.id => e = f

SyncsFine ==
  /\ queued \subseteq Reports /\ IsFiniteSet(queued)
  /\ sync = [y \in Syncs |-> sync[y]]
  /\ \A y \in Syncs : SyncFine(sync[y])

LogInv ==
  /\ log \in Seq(Entry)
  /\ ReadersShape
  /\ LinkShape
  /\ PagesFit
  /\ SyncsFine
  /\ OneEventPerReport

-----------------------------------------------------------------------------
(* Pages. *)

\* The end of what one query gives.
LEMMA PageEnds ==
  ASSUME NEW m \in Nat, NEW l \in Nat, l <= m
  PROVE  Min({m, l + Limit}) \in l..m
<1>1. Limit \in Nat BY SessionLogAssumption
<1>2. {m, l + Limit} \subseteq Nat /\ {m, l + Limit} # {} BY <1>1
<1> DEFINE k == Min({m, l + Limit})
<1>3. k \in {m, l + Limit} /\ \A y \in {m, l + Limit} : k <= y BY <1>2, LeastIsMin
<1>4. k \in Nat BY <1>2, <1>3
<1> HIDE DEF k
<1>5. k <= m BY <1>3
<1>6. l <= k BY <1>1, <1>3
<1>7. k \in l..m BY <1>4, <1>5, <1>6
<1> QED BY <1>7 DEF k

LEMMA GivenStep ==
  ASSUME LogInv, NEW r \in Readers, Given(r, After(reader[r].last)), log' = log
  PROVE  (ReadersShape /\ PagesFit)'
<1> DEFINE l == reader[r].last
           n == Min({Len(log), l + Limit})
           T == Entry
           y == [on |-> TRUE, last |-> reader[r].last + Len(After(l)), sent |-> reader[r].sent \o After(l)]
<1>1. reader \in [Readers -> [on : BOOLEAN, last : Nat, sent : Seq(T)]] /\ log \in Seq(T)
  BY DEF LogInv, ReadersShape
<1>2. l \in Nat /\ l <= Len(log) /\ reader[r].sent = SubSeq(log, 1, l) /\ reader[r].sent \in Seq(T)
  BY <1>1 DEF LogInv, PagesFit
<1>3. n \in l..Len(log)
  <2>1. Len(log) \in Nat
    <3> HIDE DEF T
    <3> QED BY <1>1
  <2> HIDE DEF l, T
  <2> QED BY <1>2, <2>1, PageEnds
<1>4. After(l) = SubSeq(log, l + 1, n) BY DEF After
<1> HIDE DEF n, l, T
<1>5. After(l) \in Seq(T) /\ Len(After(l)) = n - l
  <2>1. l + 1 \in Int /\ n \in Int /\ \A i \in l + 1 .. n : log[i] \in T BY <1>1, <1>2, <1>3
  <2>2. /\ SubSeq(log, l + 1, n) \in Seq(T)
        /\ Len(SubSeq(log, l + 1, n)) = IF l + 1 <= n THEN n - (l + 1) + 1 ELSE 0
    BY <2>1, SubSeqProperties
  <2>3. (IF l + 1 <= n THEN n - (l + 1) + 1 ELSE 0) = n - l BY <1>2, <1>3
  <2> QED BY <1>4, <2>2, <2>3
<1>6. SubSeq(log, 1, l) \o SubSeq(log, l + 1, n) = SubSeq(log, 1, n)
  <2>1. 1 \in 1..Len(log) + 1 /\ l \in 1 - 1 .. Len(log) /\ n \in l .. Len(log) BY <1>1, <1>2, <1>3
  <2> QED BY <1>1, <2>1, ConcatAdjacentSubSeq
<1>7. y.on = TRUE /\ y.last = n /\ y.sent = SubSeq(log, 1, n)
  <2>1. reader[r].last + Len(After(l)) = n BY <1>2, <1>3, <1>5 DEF l
  <2> QED BY <2>1, <1>2, <1>4, <1>6
<1>8. y \in [on : BOOLEAN, last : Nat, sent : Seq(T)]
  <2>1. reader[r].last + Len(After(l)) \in Nat BY <1>2, <1>3, <1>5 DEF l
  <2>2. reader[r].sent \o After(l) \in Seq(T) BY <1>2, <1>5
  <2> QED BY <2>1, <2>2
<1>9. reader' = [reader EXCEPT ![r] = y]
  BY DEF Given, LastOf, l
<1> HIDE DEF y
<1>10. reader' \in [Readers -> [on : BOOLEAN, last : Nat, sent : Seq(T)]] BY <1>1, <1>8, <1>9
<1>11. ASSUME NEW q \in Readers
       PROVE  /\ reader'[q].last <= Len(log)
              /\ reader'[q].sent = SubSeq(log, 1, reader'[q].last)
              /\ ~reader'[q].on => reader'[q].last = 0
  <2>1. CASE q = r
    <3>1. reader'[q] = y BY <1>1, <1>9, <2>1
    <3> QED BY <3>1, <1>7, <1>3
  <2>2. CASE q # r
    <3>1. reader'[q] = reader[q] BY <1>1, <1>9, <2>2
    <3> QED BY <3>1 DEF LogInv, PagesFit
  <2> QED BY <2>1, <2>2
<1> QED BY <1>10, <1>11 DEF ReadersShape, PagesFit, T

\* What is appended leaves the pages what they are.
LEMMA AppendedStep ==
  ASSUME LogInv, NEW s \in Seq(Entry), log' = log \o s, reader' = reader
  PROVE  (ReadersShape /\ PagesFit)' /\ log' \in Seq(Entry)
<1> DEFINE T == Entry
<1>1. log \in Seq(T) /\ s \in Seq(T) BY DEF LogInv
<1> HIDE DEF T
<1>2. log \o s \in Seq(T) /\ Len(log \o s) = Len(log) + Len(s) BY <1>1
<1>3. ASSUME NEW r \in Readers
      PROVE  /\ reader[r].last <= Len(log \o s)
             /\ reader[r].sent = SubSeq(log \o s, 1, reader[r].last)
             /\ ~reader[r].on => reader[r].last = 0
  <2>1. /\ reader[r].last <= Len(log)
        /\ reader[r].sent = SubSeq(log, 1, reader[r].last)
        /\ ~reader[r].on => reader[r].last = 0
    BY DEF LogInv, PagesFit
  <2>2. reader[r].last \in Nat BY DEF LogInv, ReadersShape
  <2> DEFINE l == reader[r].last
  <2>3. l \in 0..Len(log) BY <2>1, <2>2, <1>1
  <2> HIDE DEF l
  <2>4. SubSeq(log \o s, 1, l) = SubSeq(log, 1, l) BY <1>1, <2>3, PrefixOfLonger
  <2>5. l <= Len(log \o s) BY <1>1, <1>2, <2>3
  <2> QED BY <2>1, <2>4, <2>5 DEF l
<1> QED BY <1>2, <1>3 DEF PagesFit, ReadersShape, LogInv, T

-----------------------------------------------------------------------------
(* Reports that are booked. *)

OneEach(a) ==
  \A i, j \in DOMAIN a :
    a[i].type = "permission" /\ a[j].type = "permission" /\ a[i].id = a[j].id => i = j

LEMMA OneEachOfLog == OneEventPerReport <=> OneEach(log)
BY DEF OneEventPerReport, OneEach, Permissions

LEMMA OneEachGrows ==
  ASSUME NEW S, NEW a \in Seq(S), NEW b \in Seq(S), OneEach(a), OneEach(b),
         \A i \in 1..Len(a), j \in 1..Len(b) :
           a[i].type = "permission" /\ b[j].type = "permission" => a[i].id # b[j].id
  PROVE  OneEach(a \o b)
<1> DEFINE c == a \o b
<1>1. c \in Seq(S) /\ Len(c) = Len(a) + Len(b)
  OBVIOUS
<1>2. \A i \in 1..Len(a) + Len(b) : c[i] = IF i <= Len(a) THEN a[i] ELSE b[i - Len(a)]
  BY ConcatProperties
<1>3. DOMAIN c = 1..Len(a) + Len(b) /\ DOMAIN a = 1..Len(a) /\ DOMAIN b = 1..Len(b)
  BY <1>1
<1>4. Len(a) \in Nat /\ Len(b) \in Nat OBVIOUS
<1> HIDE DEF c
<1>5. ASSUME NEW i \in 1..Len(a) + Len(b), NEW j \in 1..Len(a) + Len(b),
             c[i].type = "permission", c[j].type = "permission", c[i].id = c[j].id
      PROVE  i = j
  <2>1. CASE i <= Len(a) /\ j <= Len(a)
    <3>1. c[i] = a[i] /\ c[j] = a[j] /\ i \in DOMAIN a /\ j \in DOMAIN a
      BY <1>2, <1>3, <1>4, <2>1
    <3> QED BY <3>1, <1>5 DEF OneEach
  <2>2. CASE i <= Len(a) /\ ~(j <= Len(a))
    <3>1. c[i] = a[i] /\ c[j] = b[j - Len(a)] /\ i \in 1..Len(a) /\ j - Len(a) \in 1..Len(b)
      BY <1>2, <1>3, <1>4, <2>2
    <3> QED BY <3>1, <1>5
  <2>3. CASE ~(i <= Len(a)) /\ j <= Len(a)
    <3>1. c[j] = a[j] /\ c[i] = b[i - Len(a)] /\ j \in 1..Len(a) /\ i - Len(a) \in 1..Len(b)
      BY <1>2, <1>3, <1>4, <2>3
    <3> QED BY <3>1, <1>5
  <2>4. CASE ~(i <= Len(a)) /\ ~(j <= Len(a))
    <3>1. c[i] = b[i - Len(a)] /\ c[j] = b[j - Len(a)] /\ i - Len(a) \in DOMAIN b /\ j - Len(a) \in DOMAIN b
      BY <1>2, <1>3, <1>4, <2>4
    <3>2. i - Len(a) = j - Len(a) BY <3>1, <1>5 DEF OneEach
    <3> QED BY <3>2, <1>4
  <2> QED BY <2>1, <2>2, <2>3, <2>4
<1>6. OneEach(c) BY <1>3, <1>5 DEF OneEach
<1> QED BY <1>6 DEF c

LEMMA EntriesAreNew ==
  ASSUME NEW R, R \subseteq Reports, IsFiniteSet(R), \A e, f \in R : e.id = f.id => e = f
  PROVE  /\ NewEntries(R) \in Seq(Entry)
         /\ OneEach(NewEntries(R))
         /\ \A j \in 1..Len(NewEntries(R)) :
              NewEntries(R)[j].type = "permission" /\ \A g \in Logged : g.id # NewEntries(R)[j].id
<1> DEFINE N == {f \in R : \A g \in Logged : g.id # f.id}
           row(e) == [type |-> "permission", id |-> e.id, scope |-> e.scope]
           S == {row(e) : e \in N}
           h == [e \in N |-> row(e)]
           s == SetToSeq(S)
<1>1. NewEntries(R) = s BY DEF NewEntries
<1>2. IsFiniteSet(N) BY FS_Subset
<1>3. h \in Surjection(N, S) BY DEF Surjection
<1>4. IsFiniteSet(S)
  <2> HIDE DEF N, S, h
  <2> QED BY <1>2, <1>3, FS_Surjection
<1>5. s \in Seq(S) /\ \A i, j \in 1..Len(s) : s[i] = s[j] => i = j
  <2> HIDE DEF S
  <2> QED BY <1>4, SetInARow
<1>6. ASSUME NEW x \in S
      PROVE  x \in Entry /\ \E e \in N : x = row(e)
  <2>1. PICK e \in N : x = row(e) OBVIOUS
  <2>2. e \in Reports OBVIOUS
  <2>3. x \in PermissionRow BY <2>1, <2>2 DEF PermissionRow
  <2> QED BY <2>1, <2>3 DEF Entry
<1>7. S \subseteq Entry BY <1>6
<1> HIDE DEF s, S
<1>8. s \in Seq(Entry) BY <1>5, <1>7
<1>9. ASSUME NEW j \in 1..Len(s)
      PROVE  \E e \in N : s[j] = row(e)
  <2>1. s[j] \in S BY <1>5
  <2> QED BY <2>1, <1>6
<1>10. DOMAIN s = 1..Len(s) BY <1>5
<1>11. OneEach(s)
  <2> SUFFICES ASSUME NEW i \in 1..Len(s), NEW j \in 1..Len(s), s[i].id = s[j].id
               PROVE  i = j
    BY <1>10 DEF OneEach
  <2>1. PICK e \in N : s[i] = row(e) BY <1>9
  <2>2. PICK f \in N : s[j] = row(f) BY <1>9
  <2>3. e.id = f.id BY <2>1, <2>2
  <2>4. e = f BY <2>3
  <2> QED BY <2>1, <2>2, <2>4, <1>5
<1>12. ASSUME NEW j \in 1..Len(s)
       PROVE  s[j].type = "permission" /\ \A g \in Logged : g.id # s[j].id
  <2>1. PICK e \in N : s[j] = row(e) BY <1>9
  <2> QED BY <2>1
<1> QED BY <1>1, <1>8, <1>11, <1>12

\* What a commit books.
LEMMA BookedStep ==
  ASSUME LogInv, NEW R, R \subseteq Reports, IsFiniteSet(R), \A e, f \in R : e.id = f.id => e = f,
         log' = log \o NewEntries(R)
  PROVE  OneEventPerReport'
<1> DEFINE T == Entry
           s == NewEntries(R)
<1>1. log \in Seq(T) /\ OneEach(log) BY OneEachOfLog DEF LogInv
<1>2. /\ s \in Seq(T) /\ OneEach(s)
      /\ \A j \in 1..Len(s) : s[j].type = "permission" /\ \A g \in Logged : g.id # s[j].id
  BY EntriesAreNew
<1> HIDE DEF T, s
<1>3. ASSUME NEW i \in 1..Len(log), NEW j \in 1..Len(s), log[i].type = "permission"
      PROVE  log[i].id # s[j].id
  <2>1. i \in Permissions BY <1>1, <1>3 DEF Permissions
  <2>2. [id |-> log[i].id, scope |-> log[i].scope] \in Logged BY <2>1 DEF Logged
  <2> QED BY <1>2, <2>2
<1>4. OneEach(log \o s) BY <1>1, <1>2, <1>3, OneEachGrows
<1>5. OneEach(log') BY <1>4 DEF s
<1> QED BY <1>5 DEF OneEach, OneEventPerReport, Permissions

LEMMA UsageStep ==
  ASSUME LogInv, taken \in UsageRow, log' = Append(log, taken)
  PROVE  OneEventPerReport' /\ log' = log \o <<taken>> /\ <<taken>> \in Seq(Entry)
<1> DEFINE T == Entry
<1>1. log \in Seq(T) /\ OneEach(log) BY OneEachOfLog DEF LogInv
<1>2. taken \in T /\ taken.type # "permission" BY DEF Entry, UsageRow
<1> HIDE DEF T
<1>3. log' = log \o <<taken>> /\ <<taken>> \in Seq(T) BY <1>1, <1>2
<1>4. OneEach(<<taken>>) BY DEF OneEach
<1>5. OneEach(log \o <<taken>>)
  <2>1. \A j \in 1..Len(<<taken>>) : <<taken>>[j] = taken OBVIOUS
  <2>2. \A i \in 1..Len(log), j \in 1..Len(<<taken>>) :
          log[i].type = "permission" /\ <<taken>>[j].type = "permission" => log[i].id # <<taken>>[j].id
    BY <2>1, <1>2
  <2> QED BY <1>1, <1>3, <1>4, <2>2, OneEachGrows
<1>6. OneEach(log') BY <1>5, <1>3
<1>7. OneEventPerReport' BY <1>6 DEF OneEach, OneEventPerReport, Permissions
<1> QED BY <1>3, <1>7 DEF T

-----------------------------------------------------------------------------
(* The steps of the link. *)

\* What recall_total knows is a total, or unknown.
LEMMA RecalledType ==
  ASSUME LogInv
  PROVE  Recalled \in Nat \cup {NoTotal}
<1>1. CASE total # Unseen BY <1>1 DEF Recalled, LogInv, LinkShape
<1>2. CASE total = Unseen /\ Usages = {} BY <1>2 DEF Recalled
<1>3. CASE total = Unseen /\ Usages # {}
  <2> DEFINE T == Entry
  <2>1. log \in Seq(T) BY DEF LogInv
  <2>2. Len(log) \in Nat /\ DOMAIN log = 1..Len(log)
    <3> HIDE DEF T
    <3> QED BY <2>1
  <2>3. Usages \subseteq 1..Len(log) BY <2>2 DEF Usages
  <2>4. Max(Usages) \in Usages BY <2>2, <2>3, <1>3, GreatestIsMax
  <2>5. \A i \in 1..Len(log) : log[i] \in T
    <3> HIDE DEF T
    <3> QED BY <2>1
  <2>6. log[Max(Usages)] \in Entry /\ log[Max(Usages)].type = "usage"
    BY <2>3, <2>4, <2>5 DEF Usages
  <2>7. log[Max(Usages)].total \in Nat BY <2>6 DEF Entry, UsageRow, PermissionRow
  <2> QED BY <1>3, <2>7 DEF Recalled
<1> QED BY <1>1, <1>2, <1>3

LEMMA NewTokensType ==
  ASSUME LogInv, NEW x \in WireRow
  PROVE  NewTokens(x) \in Nat
<1>1. x.total \in Nat /\ x.last \in Nat BY DEF WireRow
<1>2. CASE Recalled # NoTotal /\ x.total >= Recalled
  <2>1. Recalled \in Nat BY <1>2, RecalledType
  <2>2. NewTokens(x) = x.total - Recalled BY <1>2 DEF NewTokens
  <2> QED BY <2>1, <2>2, <1>1, <1>2
<1>3. CASE ~(Recalled # NoTotal /\ x.total >= Recalled)
  BY <1>1, <1>3 DEF NewTokens
<1> QED BY <1>2, <1>3

LEMMA LinkTypes ==
  ASSUME LogInv, LinkNext \/ Store
  PROVE  LinkShape'
<1> DEFINE W == WireRow
<1>0. /\ spent \in Nat /\ call \in Nat /\ wire \in Seq(W)
      /\ total \in Nat \cup {Unseen, NoTotal} /\ taken \in UsageRow \cup {Nothing}
  BY DEF LogInv, LinkShape
<1>r. \A a, b \in Nat : [total |-> a, last |-> b] \in W BY DEF WireRow
<1>h. wire # <<>> => Head(wire) \in W /\ Tail(wire) \in Seq(W)
  <2> HIDE DEF W
  <2> QED BY <1>0
<1>1. ASSUME NEW n \in Costs, ModelCall(n) PROVE LinkShape'
  <2>1. n \in Nat BY LinkUsageAssumption
  <2>2. spent' \in Nat /\ call' \in Nat BY <1>0, <1>1, <2>1 DEF ModelCall
  <2>3. Report' \in W BY <2>2, <1>r DEF Report
  <2>4. wire' \in Seq(W)
    <3> HIDE DEF W
    <3> QED BY <1>0, <1>1, <2>3 DEF ModelCall
  <2> QED BY <1>0, <1>1, <2>2, <2>4 DEF ModelCall, LinkShape
<1>2. CASE LinkDown
  <2>1. PICK n \in 0..Len(wire) : wire' = SubSeq(wire, 1, n) BY <1>2 DEF LinkDown
  <2>2. wire' \in Seq(W)
    <3> HIDE DEF W
    <3> QED BY <1>0, <2>1
  <2> QED BY <1>0, <1>2, <2>2 DEF LinkDown, LinkShape
<1>3. CASE LinkUp
  <2>1. Report \in W BY <1>0, <1>r DEF Report
  <2>2. wire' \in Seq(W)
    <3> HIDE DEF W
    <3> QED BY <1>3, <2>1 DEF LinkUp
  <2> QED BY <1>0, <1>3, <2>2 DEF LinkUp, LinkShape
<1>4. CASE LinkRestart
  <2>1. wire' \in Seq(W) BY <1>4 DEF LinkRestart
  <2> QED BY <1>0, <1>4, <2>1 DEF LinkRestart, LinkShape
<1>5. CASE TakeReport
  <2>1. Head(wire) \in W /\ wire' \in Seq(W) BY <1>5, <1>h DEF TakeReport
  <2>2. NewTokens(Head(wire)) \in Nat BY <2>1, NewTokensType
  <2>3. Head(wire).total \in Nat BY <2>1 DEF WireRow
  <2>4. [type |-> "usage", total |-> Head(wire).total, tokens |-> NewTokens(Head(wire))] \in UsageRow
    BY <2>2, <2>3 DEF UsageRow
  <2>5. total' = Head(wire).total /\ taken' \in UsageRow \cup {Nothing}
    BY <1>5, <2>4 DEF TakeReport
  <2> QED BY <1>0, <1>5, <2>1, <2>3, <2>5 DEF TakeReport, LinkShape
<1>6. CASE RecallFails
  <2>1. wire' \in Seq(W) BY <1>6, <1>h DEF RecallFails
  <2> QED BY <1>0, <1>6, <2>1 DEF RecallFails, LinkShape
<1>7. CASE StoreFails BY <1>0, <1>7 DEF StoreFails, LinkShape
<1>8. CASE Store BY <1>0, <1>8 DEF Store, LinkShape
<1> QED BY <1>1, <1>2, <1>3, <1>4, <1>5, <1>6, <1>7, <1>8 DEF LinkNext

-----------------------------------------------------------------------------
(* The steps of the syncs. *)

\* A row of a sync that changes; queued stays.
LEMMA SyncRowStep ==
  ASSUME SyncsFine, NEW y \in Syncs, NEW x, SyncFine(x), sync' = [sync EXCEPT ![y] = x],
         queued' \subseteq Reports, IsFiniteSet(queued')
  PROVE  SyncsFine'
<1>1. sync' = [z \in Syncs |-> sync'[z]] BY DEF SyncsFine
<1>2. \A z \in Syncs : sync'[z] = IF z = y THEN x ELSE sync[z] BY DEF SyncsFine
<1>3. \A z \in Syncs : SyncFine(sync'[z]) BY <1>2 DEF SyncsFine
<1> QED BY <1>1, <1>3 DEF SyncsFine, SyncFine

LEMMA RestingFine == SyncFine(Resting)
BY FS_EmptySet DEF Resting, SyncFine, SyncFields

LEMMA RoundStep ==
  ASSUME LogInv, NEW y \in Syncs, Round(y)
  PROVE  SyncsFine'
<1>0. SyncsFine /\ SyncFine(sync[y]) BY DEF LogInv, SyncsFine
<1> DEFINE x == sync[y]
<1>1. CASE Begin(y)
  <2> DEFINE z == [Resting EXCEPT !.at = "asked", !.agent = agent, !.reports = queued]
  <2>1. SyncFine(z)
    <3>1. z = [f \in SyncFields |-> z[f]] /\ z.reports = queued /\ z.record = {}
      BY DEF Resting, SyncFields
    <3> HIDE DEF z
    <3>2. queued \subseteq Reports /\ IsFiniteSet(queued) BY <1>0 DEF SyncsFine
    <3> QED BY <3>1, <3>2 DEF SyncFine
  <2> HIDE DEF z
  <2>2. sync' = [sync EXCEPT ![y] = z] /\ queued' = queued BY <1>1 DEF Begin, z
  <2>3. queued' \subseteq Reports /\ IsFiniteSet(queued') BY <2>2, <1>0 DEF SyncsFine
  <2> QED BY <1>0, <2>1, <2>2, <2>3, SyncRowStep
<1>2. CASE LookUp(y)
  <2> DEFINE z == [x EXCEPT !.at = "found", !.row = RowOf(sync[y].agent)]
  <2>1. SyncFine(z)
    <3>1. z = [f \in SyncFields |-> z[f]] /\ z.reports = x.reports /\ z.record = x.record
      BY <1>0 DEF SyncFine, SyncFields
    <3> HIDE DEF z
    <3> QED BY <3>1, <1>0 DEF SyncFine
  <2>2. sync' = [sync EXCEPT ![y] = z] /\ queued' = queued BY <1>2 DEF LookUp
  <2> HIDE DEF z
  <2>3. queued' \subseteq Reports /\ IsFiniteSet(queued') BY <2>2, <1>0 DEF SyncsFine
  <2> QED BY <1>0, <2>1, <2>2, <2>3, SyncRowStep
<1>3. CASE Skip(y)
  <2>2. sync' = [sync EXCEPT ![y] = Resting] /\ queued' = queued BY <1>3 DEF Skip
  <2>3. queued' \subseteq Reports /\ IsFiniteSet(queued') BY <2>2, <1>0 DEF SyncsFine
  <2> QED BY <1>0, <2>2, <2>3, RestingFine, SyncRowStep
<1>4. CASE Write(y)
  <2>1. PICK R \in Recordings(Batch(y)) :
          sync' = [sync EXCEPT ![y].at = "written", ![y].off = Others(y), ![y].record = R,
                               ![y].asks = AsksRecovery(y)]
    BY <1>4 DEF Write
  <2> DEFINE z == [x EXCEPT !.at = "written", !.off = Others(y), !.record = R, !.asks = AsksRecovery(y)]
  <2>2. R \subseteq x.reports /\ \A e, f \in R : e.id = f.id => e = f
    BY DEF Recordings, Batch, Acceptable
  <2>3. SyncFine(z)
    <3>1. z = [f \in SyncFields |-> z[f]] /\ z.reports = x.reports /\ z.record = R
      BY <1>0 DEF SyncFine, SyncFields
    <3> HIDE DEF z
    <3> QED BY <3>1, <1>0, <2>2 DEF SyncFine
  <2>4. sync' = [sync EXCEPT ![y] = z] /\ queued' = queued BY <1>4, <2>1 DEF Write
  <2> HIDE DEF z
  <2>5. queued' \subseteq Reports /\ IsFiniteSet(queued') BY <2>4, <1>0 DEF SyncsFine
  <2> QED BY <1>0, <2>3, <2>4, <2>5, SyncRowStep
<1>5. CASE Commit(y)
  <2> DEFINE a == IF x.agent \in Names /\ x.reports # {} THEN "receipts" ELSE "idle"
             z == [x EXCEPT !.at = a, !.off = {}, !.asks = FALSE]
  <2>1. SyncFine(z)
    <3>1. z = [f \in SyncFields |-> z[f]] /\ z.reports = x.reports /\ z.record = x.record
      BY <1>0 DEF SyncFine, SyncFields
    <3> HIDE DEF z
    <3> QED BY <3>1, <1>0 DEF SyncFine
  <2>2. sync' = [sync EXCEPT ![y] = z] /\ queued' = queued BY <1>5 DEF Commit
  <2> HIDE DEF z
  <2>3. queued' \subseteq Reports /\ IsFiniteSet(queued') BY <2>2, <1>0 DEF SyncsFine
  <2> QED BY <1>0, <2>1, <2>2, <2>3, SyncRowStep
<1>6. CASE Abort(y)
  <2>2. sync' = [sync EXCEPT ![y] = Resting] /\ queued' = queued BY <1>6 DEF Abort
  <2>3. queued' \subseteq Reports /\ IsFiniteSet(queued') BY <2>2, <1>0 DEF SyncsFine
  <2> QED BY <1>0, <2>2, <2>3, RestingFine, SyncRowStep
<1>7. CASE SendReceipts(y)
  <2>1. sync' = [sync EXCEPT ![y] = Resting] BY <1>7 DEF SendReceipts
  <2>2. queued' = queued \ x.reports \/ queued' = queued BY <1>7 DEF SendReceipts
  <2>3. queued' \subseteq Reports /\ IsFiniteSet(queued') BY <2>2, <1>0, FS_Difference DEF SyncsFine
  <2> QED BY <1>0, <2>1, <2>3, RestingFine, SyncRowStep
<1> QED BY <1>1, <1>2, <1>3, <1>4, <1>5, <1>6, <1>7 DEF Round

LEMMA RelayStep ==
  ASSUME LogInv, sync' = sync, queued' = queued \/ \E e \in Reports : queued' = queued \cup {e}
  PROVE  SyncsFine'
<1>1. queued' \subseteq Reports /\ IsFiniteSet(queued') BY FS_AddElement DEF LogInv, SyncsFine
<1> QED BY <1>1 DEF LogInv, SyncsFine, SyncFine

-----------------------------------------------------------------------------
(* The invariant. *)

LEMMA InitLog == Init => LogInv
<1> SUFFICES ASSUME Init PROVE LogInv OBVIOUS
<1>1. log = <<>> /\ log \in Seq(Entry) BY DEF Init, LogInit
<1>2. ReadersShape
  <2>1. reader = [r \in Readers |-> Away] BY DEF Init, LogInit
  <2>2. Away \in [on : BOOLEAN, last : Nat, sent : Seq(Entry)] BY DEF Away
  <2> QED BY <2>1, <2>2 DEF ReadersShape
<1>3. LinkShape
  <2>1. wire = <<>> /\ wire \in Seq(WireRow) BY DEF Init, LinkInit
  <2> QED BY <2>1 DEF Init, LinkInit, LinkShape
<1>4. PagesFit
  <2>1. SubSeq(log, 1, 0) = <<>> /\ 0 <= Len(log) BY <1>1
  <2>2. \A r \in Readers : reader[r] = Away BY DEF Init, LogInit
  <2>3. Away.on = FALSE /\ Away.last = 0 /\ Away.sent = <<>> BY DEF Away
  <2>4. ASSUME NEW r \in Readers
        PROVE  /\ reader[r].last <= Len(log)
               /\ reader[r].sent = SubSeq(log, 1, reader[r].last)
               /\ ~reader[r].on => reader[r].last = 0
    <3>1. reader[r].on = FALSE /\ reader[r].last = 0 /\ reader[r].sent = <<>> BY <2>2, <2>3
    <3>2. reader[r].last <= Len(log) BY <3>1, <2>1, Zenon
    <3>3. reader[r].sent = SubSeq(log, 1, reader[r].last) BY <3>1, <2>1, Zenon
    <3> QED BY <3>1, <3>2, <3>3, Zenon
  <2> QED BY <2>4 DEF PagesFit
<1>5. SyncsFine
  <2>1. sync = [y \in Syncs |-> Resting] /\ queued = {} BY DEF Init, MachineInit
  <2>2. sync = [y \in Syncs |-> sync[y]] /\ \A y \in Syncs : sync[y] = Resting BY <2>1
  <2> QED BY <2>1, <2>2, RestingFine, FS_EmptySet DEF SyncsFine
<1>6. OneEventPerReport BY <1>1 DEF OneEventPerReport, Permissions
<1> QED BY <1>1, <1>2, <1>3, <1>4, <1>5, <1>6 DEF LogInv

LEMMA NextLog == LogInv /\ [Next]_vars => LogInv'
<1> SUFFICES ASSUME LogInv, [Next]_vars PROVE LogInv' OBVIOUS
<1> USE DEF LogInv
<1>s. SyncsFine /\ UNCHANGED <<sync, queued>> => SyncsFine'
  BY DEF SyncsFine, SyncFine
<1>l. LinkShape /\ UNCHANGED linkVars => LinkShape' BY DEF LinkShape, linkVars
<1>o. OneEventPerReport /\ UNCHANGED log => OneEventPerReport' BY DEF OneEventPerReport, Permissions
<1>p. PagesFit /\ ReadersShape /\ UNCHANGED <<log, reader>> => (PagesFit /\ ReadersShape)'
  BY DEF PagesFit, ReadersShape
<1>1. CASE LogNext /\ UNCHANGED <<linkVars, machineVars>>
  <2>1. log' = log BY <1>1 DEF LogNext, OpenPage, Fetch
  <2>2. PICK r \in Readers : OpenPage(r) \/ Fetch(r) BY <1>1 DEF LogNext
  <2>3. Given(r, After(reader[r].last))
    BY <2>2 DEF OpenPage, Fetch, PagesFit
  <2>4. (ReadersShape /\ PagesFit)' BY <2>1, <2>3, GivenStep
  <2>5. UNCHANGED <<sync, queued>> BY <1>1 DEF machineVars
  <2> QED BY <1>1, <2>1, <2>4, <2>5, <1>s, <1>l, <1>o
<1>2. CASE LinkNext /\ UNCHANGED machineVars
  <2>1. UNCHANGED <<log, reader>>
    BY <1>2 DEF LinkNext, ModelCall, LinkDown, LinkUp, LinkRestart, TakeReport, RecallFails, StoreFails
  <2>2. LinkShape' BY <1>2, LinkTypes
  <2>3. UNCHANGED <<sync, queued>> BY <1>2 DEF machineVars
  <2> QED BY <2>1, <2>2, <2>3, <1>s, <1>o, <1>p
<1>3. CASE LogFree /\ Store /\ UNCHANGED machineVars
  <2>1. LinkShape' BY <1>3, LinkTypes
  <2>2. taken \in UsageRow /\ log' = Append(log, taken) /\ reader' = reader
    BY <1>3 DEF Store, LinkShape
  <2>3. OneEventPerReport' /\ log' = log \o <<taken>> /\ <<taken>> \in Seq(Entry) BY <2>2, UsageStep
  <2>4. (ReadersShape /\ PagesFit)' /\ log' \in Seq(Entry) BY <2>2, <2>3, AppendedStep
  <2>5. UNCHANGED <<sync, queued>> BY <1>3 DEF machineVars
  <2> QED BY <2>1, <2>3, <2>4, <2>5, <1>s
<1>4. CASE MachineNext /\ UNCHANGED linkVars
  <2>0. LinkShape' BY <1>4, <1>l
  <2>1. ASSUME NEW y \in Syncs, Commit(y) PROVE LogInv'
    <3> DEFINE R == sync[y].record
    <3>1. R \subseteq Reports /\ IsFiniteSet(R) /\ \A e, f \in R : e.id = f.id => e = f
      BY FS_Subset DEF SyncsFine, SyncFine
    <3>2. log' = log \o NewEntries(R) /\ reader' = reader BY <2>1 DEF Commit
    <3> HIDE DEF R
    <3>3. NewEntries(R) \in Seq(Entry) BY <3>1, EntriesAreNew
    <3>4. OneEventPerReport' BY <3>1, <3>2, BookedStep
    <3>5. (ReadersShape /\ PagesFit)' /\ log' \in Seq(Entry) BY <3>2, <3>3, AppendedStep
    <3>6. SyncsFine' BY <2>1, RoundStep DEF Round
    <3> QED BY <2>0, <3>4, <3>5, <3>6
  <2>2. ASSUME NEW y \in Syncs, Round(y), ~Commit(y) PROVE LogInv'
    <3>1. UNCHANGED <<log, reader>>
      BY <2>2 DEF Round, Begin, LookUp, Skip, Write, Abort, SendReceipts
    <3>2. SyncsFine' BY <2>2, RoundStep
    <3> QED BY <2>0, <3>1, <3>2, <1>o, <1>p
  <2>3. ASSUME NEW n \in Names \cup {NoMachine, Unnamed}, AgentChanges(n) PROVE LogInv'
    <3>1. UNCHANGED <<log, reader, sync, queued>> BY <2>3 DEF AgentChanges
    <3> QED BY <2>0, <3>1, <1>o, <1>p, <1>s
  <2>4. ASSUME NEW e \in Reports, AgentReports(e) \/ ReportExpires(e) PROVE LogInv'
    <3>1. UNCHANGED <<log, reader, sync>> /\ (queued' = queued \/ queued' = queued \cup {e})
      BY <2>4 DEF AgentReports, ReportExpires
    <3>2. SyncsFine' BY <3>1, RelayStep
    <3> QED BY <2>0, <3>1, <3>2, <1>o, <1>p
  <2>5. CASE Reconnect
    <3>1. UNCHANGED <<log, reader, sync, queued>> BY <2>5 DEF Reconnect
    <3> QED BY <2>0, <3>1, <1>o, <1>p, <1>s
  <2> QED BY <1>4, <2>1, <2>2, <2>3, <2>4, <2>5, Zenon DEF MachineNext
<1>5. CASE UNCHANGED vars
  <2>1. UNCHANGED <<log, reader, sync, queued>> /\ UNCHANGED linkVars BY <1>5 DEF vars, machineVars
  <2> QED BY <2>1, <1>s, <1>l, <1>o, <1>p
<1> QED BY <1>1, <1>2, <1>3, <1>4, <1>5, Zenon DEF Next

\* The log, its pages and its syncs are in order in every reachable state.
THEOREM LogInvariant == Spec => []LogInv
<1> QED BY InitLog, NextLog, PTL DEF Spec

\* What a page of a conversation has been given is a prefix of its log
\* (workbench_routes.py:616), for any number of pages, writers and events, and any
\* limit of one query.
THEOREM PagesMissNothing == Spec => []ReaderMissesNothing
<1>1. LogInv => ReaderMissesNothing BY DEF LogInv, PagesFit, ReaderMissesNothing
<1> QED BY <1>1, LogInvariant, PTL

\* A report of an agent is booked once, and its id with one scope, whoever of the
\* runners takes it and however often the relay offers it (agent_reports.py:75-90).
THEOREM ReportsAreBookedOnce == Spec => []OneEventPerReport
<1>1. LogInv => OneEventPerReport BY DEF LogInv
<1> QED BY <1>1, LogInvariant, PTL

-----------------------------------------------------------------------------
(* What the log charges. *)

\* Two rows of numbers that begin alike and go on alike are alike.
LEMMA GoOnAlike ==
  ASSUME NEW m \in Nat, NEW f, NEW g, f[0] = g[0],
         \A i \in 1..m : f[i - 1] = g[i - 1] => f[i] = g[i]
  PROVE  \A i \in 0..m : f[i] = g[i]
<1> DEFINE T == {i \in 0..m : f[i] # g[i]}
<1>1. ASSUME T # {} PROVE FALSE
  <2>1. PICK i \in T : \A j \in T : i <= j
    <3>1. T \subseteq Nat OBVIOUS
    <3> HIDE DEF T
    <3> QED BY <1>1, <3>1, LeastNat
  <2>2. i \in 0..m /\ f[i] # g[i] OBVIOUS
  <2>3. i # 0 BY <2>2
  <2>4. i \in 1..m /\ i - 1 \in 0..m /\ ~(i <= i - 1) BY <2>2, <2>3
  <2>5. i - 1 \notin T
    <3> HIDE DEF T
    <3> QED BY <2>1, <2>4
  <2>6. f[i - 1] = g[i - 1] BY <2>4, <2>5
  <2> QED BY <2>2, <2>4, <2>6
<1> QED BY <1>1

TokensAt(a, i) == IF a[i].type = "usage" THEN a[i].tokens ELSE 0
Counts(a, m, f) ==
  /\ f \in [0..m -> Nat]
  /\ f[0] = 0 /\ \A i \in 1..m : f[i] = f[i - 1] + TokensAt(a, i)

LEMMA CountExists ==
  ASSUME NEW a, NEW n \in Nat, \A i \in 1..n : TokensAt(a, i) \in Nat
  PROVE  \E f : Counts(a, n, f)
<1> DEFINE T == {m \in 0..n : ~ \E f : Counts(a, m, f)}
<1>1. ASSUME T # {} PROVE FALSE
  <2>1. PICK m \in T : \A j \in T : m <= j
    <3>1. T \subseteq Nat OBVIOUS
    <3> HIDE DEF T
    <3> QED BY <1>1, <3>1, LeastNat
  <2>2. m \in 0..n /\ ~ \E f : Counts(a, m, f) OBVIOUS
  <2>3. m # 0
    <3>1. Counts(a, 0, [i \in 0..0 |-> 0])
      <4>1. [i \in 0..0 |-> 0] \in [0..0 -> Nat] OBVIOUS
      <4>2. [i \in 0..0 |-> 0][0] = 0 OBVIOUS
      <4>3. 1..0 = {} OBVIOUS
      <4> QED BY <4>1, <4>2, <4>3 DEF Counts
    <3> QED BY <2>2, <3>1
  <2>4. m \in 1..n /\ m - 1 \in 0..n /\ ~(m <= m - 1) BY <2>2, <2>3
  <2>5. m - 1 \notin T
    <3> HIDE DEF T
    <3> QED BY <2>1, <2>4
  <2>6. PICK f : Counts(a, m - 1, f) BY <2>4, <2>5
  <2> DEFINE g == [i \in 0..m |-> IF i = m THEN f[m - 1] + TokensAt(a, m) ELSE f[i]]
  <2>7. f \in [0..m - 1 -> Nat] /\ f[0] = 0 /\ \A i \in 1..m - 1 : f[i] = f[i - 1] + TokensAt(a, i)
    BY <2>6 DEF Counts
  <2>8. f[m - 1] + TokensAt(a, m) \in Nat
    <3>1. f[m - 1] \in Nat BY <2>4, <2>7
    <3>2. TokensAt(a, m) \in Nat BY <2>4
    <3> QED BY <3>1, <3>2
  <2>9. g \in [0..m -> Nat]
    <3>1. \A i \in 0..m : i # m => i \in 0..m - 1 BY <2>4
    <3> QED BY <2>7, <2>8, <3>1
  <2>10. g[0] = 0 BY <2>4, <2>7
  <2>11. ASSUME NEW i \in 1..m PROVE g[i] = g[i - 1] + TokensAt(a, i)
    <3>1. i - 1 \in 0..m /\ i \in 0..m /\ i - 1 # m BY <2>4
    <3>2. g[i - 1] = f[i - 1] BY <3>1
    <3>3. CASE i = m BY <3>1, <3>2, <3>3
    <3>4. CASE i # m
      <4>1. i \in 1..m - 1 BY <2>4, <3>4
      <4>2. g[i] = f[i] BY <3>1, <3>4
      <4> QED BY <4>1, <4>2, <3>2, <2>7
    <3> QED BY <3>3, <3>4
  <2> HIDE DEF g
  <2>12. Counts(a, m, g) BY <2>9, <2>10, <2>11 DEF Counts
  <2> QED BY <2>2, <2>12
<1>2. n \in 0..n OBVIOUS
<1> QED BY <1>1, <1>2

\* What the tokens of some events are, by the row that counts them.
LEMMA TokensAreCounted ==
  ASSUME NEW a, Len(a) \in Nat, \A i \in 1..Len(a) : TokensAt(a, i) \in Nat
  PROVE  \E f : Counts(a, Len(a), f) /\ TokensIn(a) = f[Len(a)]
<1> DEFINE n == Len(a)
           Rec(f) == [i \in 0..n |-> IF i = 0 THEN 0
                                     ELSE f[i - 1] + (IF a[i].type = "usage" THEN a[i].tokens ELSE 0)]
           h == CHOOSE f : f = Rec(f)
<1>1. PICK f : Counts(a, n, f) BY CountExists
<1>2. f = Rec(f)
  <2>1. ASSUME NEW i \in 0..n
        PROVE  f[i] = IF i = 0 THEN 0 ELSE f[i - 1] + (IF a[i].type = "usage" THEN a[i].tokens ELSE 0)
    <3>1. CASE i = 0 BY <1>1, <3>1 DEF Counts
    <3>2. CASE i # 0
      <4>1. i \in 1..n BY <3>2
      <4> QED BY <1>1, <3>2, <4>1 DEF Counts, TokensAt
    <3> QED BY <3>1, <3>2
  <2>2. f \in [0..n -> Nat] BY <1>1 DEF Counts
  <2> HIDE DEF n
  <2> QED BY <2>1, <2>2
<1>3. h = Rec(h)
  <2> HIDE DEF Rec
  <2> QED BY <1>2
<1>4. TokensIn(a) = h[n] BY DEF TokensIn
<1> HIDE DEF h
<1>5. h[0] = f[0]
  <2>1. 0 \in 0..n OBVIOUS
  <2> QED BY <1>2, <1>3, <2>1
<1>6. ASSUME NEW i \in 1..n, h[i - 1] = f[i - 1] PROVE h[i] = f[i]
  <2>1. i \in 0..n /\ i # 0 OBVIOUS
  <2>2. h[i] = h[i - 1] + (IF a[i].type = "usage" THEN a[i].tokens ELSE 0) BY <1>3, <2>1
  <2>3. f[i] = f[i - 1] + (IF a[i].type = "usage" THEN a[i].tokens ELSE 0) BY <1>2, <2>1
  <2> QED BY <2>2, <2>3, <1>6
<1>7. \A i \in 0..n : h[i] = f[i]
  <2>1. n \in Nat OBVIOUS
  <2>2. \A i \in 1..n : h[i - 1] = f[i - 1] => h[i] = f[i] BY <1>6
  <2> HIDE DEF n, Rec
  <2> QED BY ZenonT(40), <1>5, <2>1, <2>2, GoOnAlike
<1>8. h[n] = f[n] BY <1>7
<1> QED BY <1>1, <1>4, <1>8

LEMMA TokensAtType ==
  ASSUME NEW a \in Seq(Entry)
  PROVE  Len(a) \in Nat /\ \A i \in 1..Len(a) : TokensAt(a, i) \in Nat
<1>1. Len(a) \in Nat /\ \A i \in 1..Len(a) : a[i] \in Entry
  <2> QED OBVIOUS
<1>2. \A e \in Entry : e.type = "usage" => e.tokens \in Nat BY DEF Entry, UsageRow, PermissionRow
<1> QED BY <1>1, <1>2 DEF TokensAt

LEMMA TokensType ==
  ASSUME NEW a \in Seq(Entry)
  PROVE  TokensIn(a) \in Nat
<1>1. Len(a) \in Nat /\ \A i \in 1..Len(a) : TokensAt(a, i) \in Nat BY TokensAtType
<1>2. PICK f : Counts(a, Len(a), f) /\ TokensIn(a) = f[Len(a)] BY <1>1, TokensAreCounted
<1> DEFINE n == Len(a)
<1>3. n \in 0..n BY <1>1
<1> HIDE DEF n
<1>4. f[n] \in Nat BY <1>2, <1>3 DEF Counts, n
<1> QED BY <1>2, <1>4 DEF n

LEMMA TokensOfLonger ==
  ASSUME NEW a \in Seq(Entry), NEW b \in Seq(Entry), \A j \in 1..Len(b) : b[j].type # "usage"
  PROVE  TokensIn(a \o b) = TokensIn(a)
<1> DEFINE c == a \o b
           n == Len(a)
           m == Len(b)
<1>1. c \in Seq(Entry) /\ n \in Nat /\ m \in Nat /\ Len(c) = n + m
  <2> QED OBVIOUS
<1>2. \A i \in 1..n + m : c[i] = IF i <= n THEN a[i] ELSE b[i - n]
  <2> QED BY ConcatProperties
<1>3. PICK f : Counts(a, n, f) /\ TokensIn(a) = f[n] BY TokensAtType, TokensAreCounted
<1>4. PICK g : Counts(c, n + m, g) /\ TokensIn(c) = g[n + m]
  <2> HIDE DEF c
  <2> QED BY <1>1, TokensAtType, TokensAreCounted
<1> HIDE DEF c, n
<1>5. \A i \in 0..n : g[i] = f[i]
  <2>1. g[0] = f[0] BY <1>3, <1>4 DEF Counts
  <2>2. ASSUME NEW i \in 1..n, g[i - 1] = f[i - 1] PROVE g[i] = f[i]
    <3>1. i \in 1..n + m /\ c[i] = a[i] BY <1>1, <1>2
    <3>2. TokensAt(c, i) = TokensAt(a, i) BY <3>1 DEF TokensAt
    <3> QED BY <3>1, <3>2, <2>2, <1>3, <1>4 DEF Counts
  <2>3. \A i \in 1..n : g[i - 1] = f[i - 1] => g[i] = f[i] BY <2>2
  <2>4. n \in Nat BY <1>1
  <2> QED BY ZenonT(40), <2>1, <2>3, <2>4, GoOnAlike
<1>6. g[n] = f[n] BY <1>1, <1>5
<1> DEFINE u == [k \in 0..m |-> g[n + k]]
           v == [k \in 0..m |-> g[n]]
<1> HIDE DEF m
<1>7. \A k \in 0..m : u[k] = v[k]
  <2>1. 0 \in 0..m /\ u[0] = v[0] BY <1>1
  <2>2. ASSUME NEW k \in 1..m, u[k - 1] = v[k - 1] PROVE u[k] = v[k]
    <3>1. k \in 0..m /\ k - 1 \in 0..m /\ n + k \in 1..n + m /\ (n + k) - 1 = n + (k - 1) /\ (n + k) - n = k
          /\ ~(n + k <= n)
      BY <1>1
    <3>2. c[n + k] = b[k] BY <3>1, <1>2
    <3>3. TokensAt(c, n + k) = 0 BY <3>2 DEF TokensAt, m
    <3>4. g[n + k] = g[(n + k) - 1] + TokensAt(c, n + k) BY <3>1, <1>4 DEF Counts
    <3>5. g[n + (k - 1)] \in Nat
      <4>1. n + (k - 1) \in 0..n + m BY <1>1
      <4> QED BY <4>1, <1>4 DEF Counts
    <3>6. g[n + k] = g[n + (k - 1)] BY <3>1, <3>3, <3>4, <3>5
    <3>7. u[k] = u[k - 1] /\ v[k] = v[k - 1] BY <3>1, <3>6
    <3> QED BY <3>7, <2>2
  <2>3. \A k \in 1..m : u[k - 1] = v[k - 1] => u[k] = v[k] BY <2>2
  <2>4. u[0] = v[0] /\ m \in Nat BY <1>1, <2>1
  <2> HIDE DEF u, v
  <2> QED BY ZenonT(40), <2>3, <2>4, GoOnAlike
<1>8. g[n + m] = g[n]
  <2>1. m \in 0..m BY <1>1
  <2>2. u[m] = g[n + m] /\ v[m] = g[n] BY <2>1
  <2> QED BY <2>1, <2>2, <1>7
<1> QED BY <1>3, <1>4, <1>6, <1>8 DEF c

LEMMA TokensOfAppend ==
  ASSUME NEW a \in Seq(Entry), NEW e \in UsageRow
  PROVE  TokensIn(Append(a, e)) = TokensIn(a) + e.tokens
<1> DEFINE c == Append(a, e)
           n == Len(a)
<1>0. e \in Entry /\ e.type = "usage" /\ e.tokens \in Nat BY DEF Entry, UsageRow
<1>1. c \in Seq(Entry) /\ n \in Nat /\ Len(c) = n + 1 /\ c[n + 1] = e /\ \A i \in 1..n : c[i] = a[i]
  <2> QED BY <1>0, AppendProperties
<1>3. PICK f : Counts(a, n, f) /\ TokensIn(a) = f[n] BY TokensAtType, TokensAreCounted
<1>4. PICK g : Counts(c, n + 1, g) /\ TokensIn(c) = g[n + 1]
  <2> HIDE DEF c
  <2> QED BY <1>1, TokensAtType, TokensAreCounted
<1> HIDE DEF c, n
<1>5. \A i \in 0..n : g[i] = f[i]
  <2>1. g[0] = f[0] BY <1>3, <1>4 DEF Counts
  <2>2. ASSUME NEW i \in 1..n, g[i - 1] = f[i - 1] PROVE g[i] = f[i]
    <3>1. i \in 1..n + 1 /\ c[i] = a[i] BY <1>1
    <3>2. TokensAt(c, i) = TokensAt(a, i) BY <3>1 DEF TokensAt
    <3> QED BY <3>1, <3>2, <2>2, <1>3, <1>4 DEF Counts
  <2>3. \A i \in 1..n : g[i - 1] = f[i - 1] => g[i] = f[i] BY <2>2
  <2>4. n \in Nat BY <1>1
  <2> QED BY SMTT(30), <2>1, <2>3, <2>4, GoOnAlike
<1>6. g[n] = f[n] BY <1>1, <1>5
<1>7. g[n + 1] = g[n] + e.tokens
  <2>1. n + 1 \in 1..n + 1 /\ (n + 1) - 1 = n BY <1>1
  <2>2. TokensAt(c, n + 1) = e.tokens BY <1>0, <1>1 DEF TokensAt
  <2> QED BY <2>1, <2>2, <1>4 DEF Counts
<1> QED BY <1>3, <1>4, <1>6, <1>7 DEF c

\* The total the log has, and what was spent before the first of its entries.
UsagesOf(a) == {i \in DOMAIN a : a[i].type = "usage"}
LoggedTotal(a) == IF UsagesOf(a) = {} THEN 0 ELSE a[Max(UsagesOf(a))].total
StartOf(a) == {a[i].total - a[i].tokens : i \in UsagesOf(a)}
BeforeIn(a) == IF UsagesOf(a) = {} THEN 0 ELSE Min(StartOf(a))
\* No entry is for more than its total, and no total is more than what was spent.
Sound(e, top) == e.tokens <= e.total /\ e.total <= top
AllSound(a, top) == \A i \in UsagesOf(a) : Sound(a[i], top)

LEMMA UsagesFit ==
  ASSUME NEW a \in Seq(Entry)
  PROVE  /\ UsagesOf(a) \subseteq 1..Len(a) /\ Len(a) \in Nat
         /\ \A i \in UsagesOf(a) : a[i] \in UsageRow
<1>1. DOMAIN a = 1..Len(a) /\ Len(a) \in Nat /\ \A i \in 1..Len(a) : a[i] \in Entry OBVIOUS
<1>2. \A e \in Entry : e.type = "usage" => e \in UsageRow BY DEF Entry, UsageRow, PermissionRow
<1> QED BY <1>1, <1>2 DEF UsagesOf

LEMMA LoggedTotalFits ==
  ASSUME NEW a \in Seq(Entry), NEW top \in Nat, AllSound(a, top)
  PROVE  LoggedTotal(a) \in 0..top
<1>1. CASE UsagesOf(a) = {} BY <1>1 DEF LoggedTotal
<1>2. CASE UsagesOf(a) # {}
  <2>1. Max(UsagesOf(a)) \in UsagesOf(a) BY <1>2, UsagesFit, GreatestIsMax
  <2>2. a[Max(UsagesOf(a))] \in UsageRow BY <2>1, UsagesFit
  <2>3. LoggedTotal(a) = a[Max(UsagesOf(a))].total BY <1>2 DEF LoggedTotal
  <2>4. LoggedTotal(a) \in Nat BY <2>2, <2>3 DEF UsageRow
  <2>5. LoggedTotal(a) <= top BY <2>1, <2>3 DEF AllSound, Sound
  <2> QED BY <2>4, <2>5
<1> QED BY <1>1, <1>2

LEMMA StartFits ==
  ASSUME NEW a \in Seq(Entry), NEW top \in Nat, AllSound(a, top), UsagesOf(a) # {}
  PROVE  /\ StartOf(a) \subseteq Nat
         /\ BeforeIn(a) \in StartOf(a) /\ BeforeIn(a) \in Nat
         /\ \A x \in StartOf(a) : BeforeIn(a) <= x
<1>1. ASSUME NEW i \in UsagesOf(a) PROVE a[i].total - a[i].tokens \in Nat
  <2>1. a[i] \in UsageRow BY UsagesFit
  <2>2. a[i].total \in Nat /\ a[i].tokens \in Nat BY <2>1 DEF UsageRow
  <2>3. a[i].tokens <= a[i].total BY DEF AllSound, Sound
  <2> QED BY <2>2, <2>3
<1>2. StartOf(a) \subseteq Nat /\ StartOf(a) # {} BY <1>1 DEF StartOf
<1>3. BeforeIn(a) = Min(StartOf(a)) BY DEF BeforeIn
<1>4. Min(StartOf(a)) \in StartOf(a) /\ \A x \in StartOf(a) : Min(StartOf(a)) <= x BY <1>2, LeastIsMin
<1> QED BY <1>2, <1>3, <1>4

\* Entries of other types change nothing of it.
LEMMA UsagesOfLonger ==
  ASSUME NEW a \in Seq(Entry), NEW b \in Seq(Entry), \A j \in 1..Len(b) : b[j].type # "usage"
  PROVE  /\ UsagesOf(a \o b) = UsagesOf(a)
         /\ \A i \in UsagesOf(a) : (a \o b)[i] = a[i]
<1> DEFINE c == a \o b
           n == Len(a)
           m == Len(b)
<1>1. c \in Seq(Entry) /\ n \in Nat /\ m \in Nat /\ Len(c) = n + m OBVIOUS
<1>2. \A i \in 1..n + m : c[i] = IF i <= n THEN a[i] ELSE b[i - n] BY ConcatProperties
<1>3. DOMAIN c = 1..n + m /\ DOMAIN a = 1..n BY <1>1
<1> HIDE DEF c, n
<1>4. ASSUME NEW i \in 1..n + m, ~(i <= n) PROVE c[i].type # "usage"
  <2>1. i - n \in 1..m BY <1>1, <1>4
  <2> QED BY <2>1, <1>2, <1>4
<1>5. \A i \in 1..n : i \in 1..n + m /\ c[i] = a[i] BY <1>1, <1>2
<1>6. \A i \in 1..n + m : i <= n => i \in 1..n BY <1>1
<1>7. UsagesOf(c) = UsagesOf(a) BY <1>3, <1>4, <1>5, <1>6 DEF UsagesOf
<1>8. \A i \in UsagesOf(a) : c[i] = a[i] BY <1>3, <1>5 DEF UsagesOf
<1> QED BY <1>7, <1>8 DEF c

LEMMA ChargedOfLonger ==
  ASSUME NEW a \in Seq(Entry), NEW b \in Seq(Entry), \A j \in 1..Len(b) : b[j].type # "usage"
  PROVE  /\ TokensIn(a \o b) = TokensIn(a)
         /\ UsagesOf(a \o b) = UsagesOf(a)
         /\ LoggedTotal(a \o b) = LoggedTotal(a)
         /\ BeforeIn(a \o b) = BeforeIn(a)
         /\ \A top : AllSound(a, top) => AllSound(a \o b, top)
<1> DEFINE c == a \o b
<1>1. UsagesOf(c) = UsagesOf(a) /\ \A i \in UsagesOf(a) : c[i] = a[i] BY UsagesOfLonger
<1>2. TokensIn(c) = TokensIn(a) BY TokensOfLonger
<1> HIDE DEF c
<1>3. LoggedTotal(c) = LoggedTotal(a)
  <2>1. CASE UsagesOf(a) = {} BY <1>1, <2>1 DEF LoggedTotal
  <2>2. CASE UsagesOf(a) # {}
    <3>1. Max(UsagesOf(a)) \in UsagesOf(a) BY <2>2, UsagesFit, GreatestIsMax
    <3> QED BY <1>1, <3>1 DEF LoggedTotal
  <2> QED BY <2>1, <2>2
<1>4. StartOf(c) = StartOf(a) BY <1>1 DEF StartOf
<1>5. BeforeIn(c) = BeforeIn(a) BY <1>1, <1>4 DEF BeforeIn
<1>6. \A top : AllSound(a, top) => AllSound(c, top) BY <1>1 DEF AllSound
<1> QED BY <1>1, <1>2, <1>3, <1>5, <1>6 DEF c

\* A usage entry is the last one, and its total the one the log has.
LEMMA ChargedOfAppend ==
  ASSUME NEW a \in Seq(Entry), NEW e \in UsageRow, NEW top \in Nat, AllSound(a, top), Sound(e, top)
  PROVE  /\ TokensIn(Append(a, e)) = TokensIn(a) + e.tokens
         /\ UsagesOf(Append(a, e)) # {}
         /\ LoggedTotal(Append(a, e)) = e.total
         /\ UsagesOf(a) = {} => BeforeIn(Append(a, e)) = e.total - e.tokens
         /\ UsagesOf(a) # {} /\ BeforeIn(a) <= e.total - e.tokens => BeforeIn(Append(a, e)) = BeforeIn(a)
         /\ AllSound(Append(a, e), top)
<1> DEFINE c == Append(a, e)
           n == Len(a)
<1>0. e \in Entry /\ e.type = "usage" /\ e.tokens \in Nat /\ e.total \in Nat BY DEF Entry, UsageRow
<1>1. c \in Seq(Entry) /\ n \in Nat /\ Len(c) = n + 1 /\ c[n + 1] = e /\ \A i \in 1..n : c[i] = a[i]
  BY <1>0, AppendProperties
<1>2. TokensIn(c) = TokensIn(a) + e.tokens BY TokensOfAppend
<1>3. DOMAIN c = 1..n + 1 /\ DOMAIN a = 1..n BY <1>1
<1> HIDE DEF c, n
<1>4. UsagesOf(c) = UsagesOf(a) \cup {n + 1}
  <2>1. 1..n + 1 = 1..n \cup {n + 1} BY <1>1
  <2>2. n + 1 \in UsagesOf(c) BY <1>0, <1>1, <1>3, <2>1 DEF UsagesOf
  <2>3. \A i \in 1..n : i \in UsagesOf(c) <=> i \in UsagesOf(a) BY <1>1, <1>3, <2>1 DEF UsagesOf
  <2>4. UsagesOf(c) \subseteq 1..n \cup {n + 1} /\ UsagesOf(a) \subseteq 1..n BY <1>3, <2>1 DEF UsagesOf
  <2> QED BY <2>2, <2>3, <2>4
<1>5. UsagesOf(a) \subseteq 1..n /\ \A i \in UsagesOf(a) : c[i] = a[i]
  <2>1. UsagesOf(a) \subseteq 1..n BY <1>3 DEF UsagesOf
  <2> QED BY <2>1, <1>1
<1>6. Max(UsagesOf(c)) = n + 1
  <2>1. UsagesOf(c) \subseteq 1..n + 1 /\ n + 1 \in UsagesOf(c) /\ n + 1 \in Nat BY <1>1, <1>3, <1>4 DEF UsagesOf
  <2>2. Max(UsagesOf(c)) \in UsagesOf(c) /\ \A y \in UsagesOf(c) : y <= Max(UsagesOf(c)) BY <2>1, GreatestIsMax
  <2>3. Max(UsagesOf(c)) \in 1..n + 1 /\ n + 1 <= Max(UsagesOf(c)) BY <2>1, <2>2
  <2> QED BY <1>1, <2>3
<1>7. LoggedTotal(c) = e.total BY <1>1, <1>4, <1>6 DEF LoggedTotal
<1>8. AllSound(c, top) BY <1>1, <1>4, <1>5 DEF AllSound
<1>9. StartOf(c) = StartOf(a) \cup {e.total - e.tokens} BY <1>1, <1>4, <1>5 DEF StartOf
<1>10. UsagesOf(c) # {} BY <1>4
<1>11. /\ StartOf(c) \subseteq Nat
       /\ BeforeIn(c) \in StartOf(c) /\ BeforeIn(c) \in Nat
       /\ \A x \in StartOf(c) : BeforeIn(c) <= x
  BY <1>1, <1>8, <1>10, StartFits
<1>12. ASSUME UsagesOf(a) = {} PROVE BeforeIn(c) = e.total - e.tokens
  <2>1. StartOf(a) = {} BY <1>12 DEF StartOf
  <2> QED BY <2>1, <1>9, <1>11
<1>13. ASSUME UsagesOf(a) # {}, BeforeIn(a) <= e.total - e.tokens PROVE BeforeIn(c) = BeforeIn(a)
  <2>1. /\ BeforeIn(a) \in StartOf(a) /\ BeforeIn(a) \in Nat
        /\ \A x \in StartOf(a) : BeforeIn(a) <= x
    BY <1>13, StartFits
  <2>2. BeforeIn(c) <= BeforeIn(a) BY <2>1, <1>9, <1>11
  <2>3. BeforeIn(a) <= BeforeIn(c)
    <3>1. CASE BeforeIn(c) \in StartOf(a) BY <2>1, <3>1
    <3>2. CASE BeforeIn(c) = e.total - e.tokens BY <1>13, <3>2
    <3> QED BY <1>9, <1>11, <3>1, <3>2
  <2> QED BY <2>1, <2>2, <2>3, <1>11
<1> QED BY <1>2, <1>7, <1>8, <1>10, <1>12, <1>13 DEF c

-----------------------------------------------------------------------------
(* What a conversation is charged. *)

\* The reports on their way are ever higher, and none is more than what was spent.
ReportFine(x, top) == 1 <= x.last /\ x.last <= x.total /\ x.total <= top
WireOK(w, top) ==
  /\ \A k \in 1..Len(w) : ReportFine(w[k], top)
  /\ \A j, k \in 1..Len(w) : j <= k => w[j].total <= w[k].total
AtLeast(v, w) == \A k \in 1..Len(w) : v <= w[k].total

CallFine == call <= spent /\ (spent # 0 => 1 <= call)
TakenFine == taken # Nothing => Sound(taken, spent) /\ total = taken.total

\* What is charged is at most the total the link knows, or will recall.
Charged ==
  ~forgot =>
    /\ total # NoTotal
    /\ Recorded <= LoggedTotal(log)
    /\ total = Unseen => taken = Nothing /\ AtLeast(LoggedTotal(log), wire)
    /\ total # Unseen => total <= spent /\ Known <= total /\ AtLeast(total, wire)

\* And it is all of it, but for what was spent before the first entry.
Complete ==
  ~forgot /\ ~dropped =>
    /\ UsagesOf(log) # {} => Recorded = LoggedTotal(log) - BeforeIn(log)
    /\ total # Unseen /\ taken = Nothing => UsagesOf(log) # {} /\ total = LoggedTotal(log)
    /\ taken # Nothing /\ UsagesOf(log) # {} => taken.total = LoggedTotal(log) + taken.tokens

ChargeParts ==
  /\ WireOK(wire, spent) /\ CallFine /\ AllSound(log, spent) /\ TakenFine
  /\ Charged /\ Complete
ChargeInv == LogInv /\ ChargeParts

(* The wire. *)

LEMMA WireAppend ==
  ASSUME NEW w \in Seq(WireRow), NEW x \in WireRow, NEW top \in Nat, WireOK(w, top),
         1 <= x.last, x.last <= x.total, top <= x.total
  PROVE  /\ WireOK(Append(w, x), x.total)
         /\ \A v \in Nat : v <= x.total /\ AtLeast(v, w) => AtLeast(v, Append(w, x))
<1> DEFINE c == Append(w, x)
           n == Len(w)
<1>1. n \in Nat /\ Len(c) = n + 1 /\ c[n + 1] = x /\ \A i \in 1..n : c[i] = w[i] /\ w[i] \in WireRow
  BY AppendProperties
<1>2. x.total \in Nat /\ x.last \in Nat /\ \A i \in 1..n : w[i].total \in Nat /\ w[i].last \in Nat
  BY <1>1 DEF WireRow
<1>3. \A i \in 1..n : ReportFine(w[i], top) BY DEF WireOK
<1>4. \A j, k \in 1..n : j <= k => w[j].total <= w[k].total BY DEF WireOK
<1>5. \A i \in 1..n + 1 : i \in 1..n \/ i = n + 1 BY <1>1
<1> HIDE DEF c, n
<1>6. ASSUME NEW k \in 1..n + 1 PROVE ReportFine(c[k], x.total)
  <2>1. CASE k \in 1..n
    <3>1. ReportFine(w[k], top) /\ c[k] = w[k] BY <2>1, <1>1, <1>3
    <3> QED BY <3>1, <2>1, <1>2 DEF ReportFine
  <2>2. CASE k = n + 1 BY <2>2, <1>1, <1>2 DEF ReportFine
  <2> QED BY <1>5, <2>1, <2>2
<1>7. ASSUME NEW j \in 1..n + 1, NEW k \in 1..n + 1, j <= k PROVE c[j].total <= c[k].total
  <2>1. CASE k \in 1..n
    <3>1. j \in 1..n BY <2>1, <1>1, <1>7
    <3> QED BY <3>1, <2>1, <1>1, <1>4, <1>7
  <2>2. CASE k = n + 1 /\ j \in 1..n
    <3>1. w[j].total <= top BY <2>2, <1>3 DEF ReportFine
    <3> QED BY <3>1, <2>2, <1>1, <1>2
  <2>3. CASE k = n + 1 /\ j = n + 1 BY <2>3, <1>1, <1>2
  <2> QED BY <1>5, <2>1, <2>2, <2>3
<1>8. WireOK(c, x.total) BY <1>1, <1>6, <1>7 DEF WireOK
<1>9. ASSUME NEW v \in Nat, v <= x.total, AtLeast(v, w) PROVE AtLeast(v, c)
  BY <1>9, <1>1, <1>5 DEF AtLeast, n
<1> QED BY <1>8, <1>9 DEF c

LEMMA WireRaise ==
  ASSUME NEW w \in Seq(WireRow), NEW top \in Nat, NEW more \in Nat, WireOK(w, top), top <= more
  PROVE  WireOK(w, more)
<1>1. \A k \in 1..Len(w) : w[k].total \in Nat
  <2>1. \A k \in 1..Len(w) : w[k] \in WireRow OBVIOUS
  <2> QED BY <2>1 DEF WireRow
<1> QED BY SMTT(30), <1>1 DEF WireOK, ReportFine

LEMMA WireCut ==
  ASSUME NEW w \in Seq(WireRow), NEW top \in Nat, WireOK(w, top), NEW n \in 0..Len(w)
  PROVE  /\ WireOK(SubSeq(w, 1, n), top)
         /\ \A v : AtLeast(v, w) => AtLeast(v, SubSeq(w, 1, n))
<1> DEFINE c == SubSeq(w, 1, n)
<1>1. Len(w) \in Nat /\ n \in Nat /\ Len(c) = n /\ \A i \in 1..n : c[i] = w[i] OBVIOUS
<1>2. \A i \in 1..n : i \in 1..Len(w) BY <1>1
<1> HIDE DEF c
<1>3. WireOK(c, top) BY <1>1, <1>2 DEF WireOK
<1>4. \A v : AtLeast(v, w) => AtLeast(v, c) BY <1>1, <1>2 DEF AtLeast
<1> QED BY <1>3, <1>4 DEF c

LEMMA WireTake ==
  ASSUME NEW w \in Seq(WireRow), NEW top \in Nat, WireOK(w, top), w # <<>>
  PROVE  /\ Head(w) \in WireRow /\ Tail(w) \in Seq(WireRow)
         /\ ReportFine(Head(w), top) /\ WireOK(Tail(w), top)
         /\ AtLeast(Head(w).total, Tail(w))
         /\ \A v : AtLeast(v, w) => v <= Head(w).total /\ AtLeast(v, Tail(w))
<1> DEFINE c == Tail(w)
           n == Len(w)
<1>1. /\ Head(w) \in WireRow /\ c \in Seq(WireRow) /\ Len(c) = n - 1
      /\ \A i \in 1..n - 1 : c[i] = w[i + 1]
  BY HeadTailProperties
<1>2. n \in Nat /\ n # 0 /\ Head(w) = w[1] OBVIOUS
<1>3. 1 \in 1..n /\ \A i \in 1..n - 1 : i + 1 \in 1..n /\ 1 <= i + 1 BY <1>2
<1>4. \A i, j \in 1..n - 1 : i <= j => i + 1 <= j + 1 BY <1>2
<1>5. /\ \A k \in 1..n : ReportFine(w[k], top)
      /\ \A j, k \in 1..n : j <= k => w[j].total <= w[k].total
  BY DEF WireOK
<1>6. \A v : AtLeast(v, w) => \A k \in 1..n : v <= w[k].total BY DEF AtLeast
<1> HIDE DEF c, n
<1>7. ReportFine(Head(w), top) BY <1>2, <1>3, <1>5
<1>8. WireOK(c, top) BY <1>1, <1>3, <1>4, <1>5 DEF WireOK
<1>9. AtLeast(Head(w).total, c) BY <1>1, <1>2, <1>3, <1>5 DEF AtLeast
<1>10. \A v : AtLeast(v, w) => v <= Head(w).total /\ AtLeast(v, c) BY <1>1, <1>2, <1>3, <1>6 DEF AtLeast
<1> QED BY <1>1, <1>7, <1>8, <1>9, <1>10 DEF c

LEMMA WireNone ==
  ASSUME NEW top
  PROVE  WireOK(<<>>, top) /\ \A v : AtLeast(v, <<>>)
BY DEF WireOK, AtLeast

LEMMA WireOne ==
  ASSUME NEW x \in WireRow, NEW top \in Nat, ReportFine(x, top)
  PROVE  WireOK(<<x>>, top) /\ \A v : v <= x.total => AtLeast(v, <<x>>)
<1>1. Len(<<x>>) = 1 /\ <<x>>[1] = x /\ 1..1 = {1} OBVIOUS
<1>2. x.total <= x.total BY DEF WireRow
<1>3. WireOK(<<x>>, top) BY <1>1, <1>2 DEF WireOK
<1>4. \A v : v <= x.total => AtLeast(v, <<x>>) BY <1>1 DEF AtLeast
<1> QED BY <1>3, <1>4

(* The steps. *)

LEMMA ChargeTypes ==
  ASSUME ChargeInv
  PROVE  /\ spent \in Nat /\ call \in Nat /\ wire \in Seq(WireRow) /\ log \in Seq(Entry)
         /\ total \in Nat \cup {Unseen, NoTotal} /\ taken \in UsageRow \cup {Nothing}
         /\ taken # Nothing => taken \in UsageRow /\ taken.total \in Nat /\ taken.tokens \in Nat
         /\ Unseen \notin Nat /\ NoTotal \notin Nat /\ Unseen # NoTotal /\ Nothing \notin UsageRow
         /\ Recorded \in Nat /\ LoggedTotal(log) \in Nat /\ LoggedTotal(log) <= spent
         /\ Usages = UsagesOf(log)
<1>1. LinkShape /\ log \in Seq(Entry) BY DEF ChargeInv, LogInv
<1>2. taken \in UsageRow => taken.total \in Nat /\ taken.tokens \in Nat BY DEF UsageRow
<1>3. Recorded \in Nat BY <1>1, TokensType DEF Recorded
<1>4. LoggedTotal(log) \in 0..spent BY <1>1, LoggedTotalFits DEF ChargeInv, ChargeParts, LinkShape
<1>5. LoggedTotal(log) \in Nat /\ LoggedTotal(log) <= spent BY <1>1, <1>4 DEF LinkShape
<1>6. Usages = UsagesOf(log) BY DEF Usages, UsagesOf
<1>7. Unseen \notin Nat /\ NoTotal \notin Nat /\ Unseen # NoTotal /\ Nothing \notin UsageRow
  BY LinkUsageAssumption DEF UsageRow
<1> QED BY <1>1, <1>2, <1>3, <1>5, <1>6, <1>7 DEF LinkShape

\* More was spent, or other reports are on their way, and nothing else changed.
LEMMA WireStep ==
  ASSUME ChargeInv, UNCHANGED <<log, total, taken, dropped, forgot>>,
         spent' \in Nat, spent <= spent', WireOK(wire', spent'), CallFine',
         \A v \in Nat : v <= spent /\ AtLeast(v, wire) => AtLeast(v, wire')
  PROVE  ChargeParts'
<1>0. ChargeParts /\ log \in Seq(Entry) /\ spent \in Nat BY ChargeTypes DEF ChargeInv
<1>1. AllSound(log', spent')
  <2>1. ASSUME NEW i \in UsagesOf(log) PROVE Sound(log[i], spent')
    <3>1. Sound(log[i], spent) BY <1>0 DEF ChargeParts, AllSound
    <3>2. log[i] \in UsageRow BY <1>0, UsagesFit
    <3>3. log[i].total \in Nat BY <3>2 DEF UsageRow
    <3> QED BY <1>0, <3>1, <3>3 DEF Sound
  <2> QED BY <2>1 DEF AllSound
<1>2. TakenFine'
  <2>1. taken # Nothing => Sound(taken, spent) /\ total = taken.total /\ taken.total \in Nat
    BY <1>0, ChargeTypes DEF ChargeParts, TakenFine
  <2> QED BY <1>0, <2>1 DEF TakenFine, Sound
<1>3. Recorded' = Recorded /\ Known' = Known BY DEF Recorded, Known
<1>4. Charged'
  <2> SUFFICES ASSUME ~forgot'
               PROVE  /\ total # NoTotal /\ Recorded <= LoggedTotal(log)
                      /\ total = Unseen => taken = Nothing /\ AtLeast(LoggedTotal(log), wire')
                      /\ total # Unseen => total <= spent' /\ Known <= total /\ AtLeast(total, wire')
    BY <1>3 DEF Charged
  <2>1. /\ total # NoTotal /\ Recorded <= LoggedTotal(log)
        /\ total = Unseen => taken = Nothing /\ AtLeast(LoggedTotal(log), wire)
        /\ total # Unseen => total <= spent /\ Known <= total /\ AtLeast(total, wire)
    BY <1>0 DEF ChargeParts, Charged
  <2>2. LoggedTotal(log) \in Nat /\ LoggedTotal(log) <= spent BY ChargeTypes
  <2>3. total # Unseen => total \in Nat BY <2>1, ChargeTypes
  <2>4. total # Unseen => total <= spent' BY <1>0, <2>1, <2>3
  <2> QED BY <2>1, <2>2, <2>3, <2>4
<1>5. Complete' BY <1>0, <1>3 DEF ChargeParts, Complete
<1> QED BY <1>1, <1>2, <1>4, <1>5 DEF ChargeParts

LEMMA CallStep ==
  ASSUME ChargeInv, NEW n \in Costs, ModelCall(n)
  PROVE  ChargeParts'
<1>1. n \in Nat /\ 1 <= n BY LinkUsageAssumption
<1>2. spent \in Nat /\ wire \in Seq(WireRow) /\ WireOK(wire, spent) BY ChargeTypes DEF ChargeInv, ChargeParts
<1>3. spent' = spent + n /\ call' = n BY DEF ModelCall
<1>4. spent' \in Nat /\ spent <= spent' /\ 1 <= call' /\ call' <= spent' BY <1>1, <1>2, <1>3
<1>5. CallFine' BY <1>4 DEF CallFine
<1> DEFINE x == [total |-> spent', last |-> call']
<1>6. x \in WireRow /\ x.last = call' /\ x.total = spent' BY <1>1, <1>3, <1>4 DEF WireRow
<1>7. wire' = (IF up THEN Append(wire, x) ELSE wire) BY DEF ModelCall, Report
<1> HIDE DEF x
<1>8. WireOK(Append(wire, x), spent') /\ \A v \in Nat : v <= spent' /\ AtLeast(v, wire) => AtLeast(v, Append(wire, x))
  BY <1>2, <1>4, <1>6, WireAppend
<1>9. WireOK(wire, spent') BY <1>2, <1>4, WireRaise
<1>10. WireOK(wire', spent') BY <1>7, <1>8, <1>9
<1>11. ASSUME NEW v \in Nat, v <= spent, AtLeast(v, wire) PROVE AtLeast(v, wire')
  <2>1. v <= spent' BY <1>2, <1>4, <1>11
  <2> QED BY <2>1, <1>7, <1>8, <1>11
<1>12. UNCHANGED <<log, total, taken, dropped, forgot>> BY DEF ModelCall
<1> QED BY <1>4, <1>5, <1>10, <1>11, <1>12, WireStep

LEMMA DownStep ==
  ASSUME ChargeInv, LinkDown
  PROVE  ChargeParts'
<1>1. spent \in Nat /\ wire \in Seq(WireRow) /\ WireOK(wire, spent) /\ CallFine
  BY ChargeTypes DEF ChargeInv, ChargeParts
<1>2. PICK n \in 0..Len(wire) : wire' = SubSeq(wire, 1, n) BY DEF LinkDown
<1>3. WireOK(wire', spent) /\ \A v : AtLeast(v, wire) => AtLeast(v, wire') BY <1>1, <1>2, WireCut
<1>4. UNCHANGED <<spent, call, log, total, taken, dropped, forgot>> BY DEF LinkDown
<1>5. CallFine' BY <1>1, <1>4 DEF CallFine
<1>6. spent' \in Nat /\ spent <= spent' /\ WireOK(wire', spent') BY <1>1, <1>3, <1>4
<1> QED BY <1>3, <1>4, <1>5, <1>6, WireStep

LEMMA UpStep ==
  ASSUME ChargeInv, LinkUp
  PROVE  ChargeParts'
<1>1. spent \in Nat /\ call \in Nat /\ CallFine BY ChargeTypes DEF ChargeInv, ChargeParts
<1>2. UNCHANGED <<spent, call, log, total, taken, dropped, forgot>> BY DEF LinkUp
<1>3. WireOK(wire', spent) /\ \A v \in Nat : v <= spent => AtLeast(v, wire')
  <2>1. CASE spent = 0
    <3>1. wire' = <<>> BY <2>1 DEF LinkUp
    <3> QED BY <3>1, WireNone
  <2>2. CASE spent # 0
    <3>1. wire' = <<Report>> BY <2>2 DEF LinkUp
    <3>2. Report \in WireRow /\ Report.total = spent /\ Report.last = call BY <1>1 DEF Report, WireRow
    <3>3. ReportFine(Report, spent) BY <1>1, <2>2, <3>2 DEF ReportFine, CallFine
    <3> QED BY <1>1, <3>1, <3>2, <3>3, WireOne
  <2> QED BY <2>1, <2>2
<1>4. CallFine' BY <1>1, <1>2 DEF CallFine
<1>5. spent' \in Nat /\ spent <= spent' /\ WireOK(wire', spent') BY <1>1, <1>2, <1>3
<1> QED BY <1>2, <1>3, <1>4, <1>5, WireStep

LEMMA RestartStep ==
  ASSUME ChargeInv, LinkRestart
  PROVE  ChargeParts'
<1>1. /\ wire' = <<>> /\ taken' = Nothing /\ total' = Unseen
      /\ UNCHANGED <<spent, call, log, dropped, forgot>>
  BY DEF LinkRestart
<1>2. WireOK(wire', spent') /\ AtLeast(LoggedTotal(log), wire') BY <1>1, WireNone
<1>3. ChargeParts /\ Unseen # NoTotal BY ChargeTypes DEF ChargeInv
<1>4. Recorded' = Recorded BY <1>1 DEF Recorded
<1>5. CallFine' /\ AllSound(log', spent') BY <1>1, <1>3 DEF ChargeParts, CallFine
<1>6. TakenFine' BY <1>1 DEF TakenFine
<1>7. Charged' BY <1>1, <1>2, <1>3, <1>4 DEF ChargeParts, Charged
<1>8. Complete' BY <1>1, <1>3, <1>4 DEF ChargeParts, Complete
<1> QED BY <1>2, <1>5, <1>6, <1>7, <1>8 DEF ChargeParts

LEMMA RecallFailsStep ==
  ASSUME ChargeInv, RecallFails
  PROVE  ChargeParts'
<1>1. /\ wire' = Tail(wire) /\ wire # <<>> /\ taken = Nothing /\ forgot' = TRUE
      /\ UNCHANGED <<spent, call, taken, log, dropped>>
  BY DEF RecallFails
<1>2. spent \in Nat /\ wire \in Seq(WireRow) /\ ChargeParts BY ChargeTypes DEF ChargeInv
<1>3. WireOK(wire', spent') BY <1>1, <1>2, WireTake DEF ChargeParts
<1>4. CallFine' /\ AllSound(log', spent') BY <1>1, <1>2 DEF ChargeParts, CallFine
<1>5. TakenFine' /\ Charged' /\ Complete' BY <1>1 DEF TakenFine, Charged, Complete
<1> QED BY <1>3, <1>4, <1>5 DEF ChargeParts

LEMMA StoreFailsStep ==
  ASSUME ChargeInv, StoreFails
  PROVE  ChargeParts'
<1>1. /\ taken # Nothing /\ taken' = Nothing /\ dropped' = TRUE
      /\ UNCHANGED <<spent, call, wire, total, forgot, log>>
  BY DEF StoreFails
<1>2. ChargeParts BY DEF ChargeInv
<1>3. Recorded' = Recorded /\ Known' = Recorded BY <1>1, ChargeTypes DEF Recorded, Known
<1>4. Known = Recorded + taken.tokens BY <1>1 DEF Known
<1>5. WireOK(wire', spent') /\ CallFine' /\ AllSound(log', spent') BY <1>1, <1>2 DEF ChargeParts, CallFine
<1>6. TakenFine' /\ Complete' BY <1>1 DEF TakenFine, Complete
<1>7. Charged'
  <2> SUFFICES ASSUME ~forgot
               PROVE  /\ total # NoTotal /\ Recorded <= LoggedTotal(log)
                      /\ total = Unseen => AtLeast(LoggedTotal(log), wire)
                      /\ total # Unseen => total <= spent /\ Recorded <= total /\ AtLeast(total, wire)
    BY <1>1, <1>3 DEF Charged
  <2>1. /\ total # NoTotal /\ Recorded <= LoggedTotal(log)
        /\ total = Unseen => taken = Nothing /\ AtLeast(LoggedTotal(log), wire)
        /\ total # Unseen => total <= spent /\ Known <= total /\ AtLeast(total, wire)
    BY <1>2 DEF ChargeParts, Charged
  <2>2. total # Unseen => total \in Nat BY <2>1, ChargeTypes
  <2>3. taken.tokens \in Nat /\ Recorded \in Nat BY <1>1, ChargeTypes
  <2>4. total # Unseen => Recorded <= total BY <1>4, <2>1, <2>2, <2>3
  <2> QED BY <2>1, <2>4
<1> QED BY <1>5, <1>6, <1>7 DEF ChargeParts

\* What the link works out of a report: what is above the total it knows or recalls,
\* or all of the call when the log has nothing.
LEMMA NewTokensFit ==
  ASSUME ChargeInv, wire # <<>>, taken = Nothing
  PROVE  LET x == Head(wire)
             n == NewTokens(x)
             F == LoggedTotal(log)
         IN /\ n \in Nat /\ n <= x.total
            /\ ~forgot => Recorded + n <= x.total
            /\ ~forgot /\ ~dropped /\ n = 0 => UsagesOf(log) # {} /\ x.total = F
            /\ ~forgot /\ ~dropped /\ UsagesOf(log) # {} => x.total = F + n
<1> DEFINE x == Head(wire)
           n == NewTokens(x)
           F == LoggedTotal(log)
           r == Recalled
           l == x.last
           t == x.total
           c == Recorded
<1>1. /\ c \in Nat /\ F \in Nat /\ Unseen \notin Nat /\ NoTotal \notin Nat
      /\ total \in Nat \cup {Unseen, NoTotal} /\ Usages = UsagesOf(log)
  BY ChargeTypes
<1>2. spent \in Nat /\ wire \in Seq(WireRow) /\ WireOK(wire, spent) BY ChargeTypes DEF ChargeInv, ChargeParts
<1>3. x \in WireRow /\ ReportFine(x, spent) /\ \A v : AtLeast(v, wire) => v <= x.total
  BY <1>2, WireTake
<1>4. t \in Nat /\ l \in Nat /\ 1 <= l /\ l <= t BY <1>3 DEF WireRow, ReportFine
<1>5. r \in Nat \cup {NoTotal} BY RecalledType DEF ChargeInv
<1>6. n = IF r # NoTotal /\ t >= r THEN t - r ELSE l BY DEF NewTokens
<1>7. Known = c BY <1>1 DEF Known
<1>8. ~forgot => /\ total # NoTotal /\ c <= F
                 /\ total = Unseen => F <= t
                 /\ total # Unseen => c <= total /\ total <= t
  BY <1>3, <1>7 DEF ChargeInv, ChargeParts, Charged
<1>9. ~forgot /\ ~dropped /\ total # Unseen => UsagesOf(log) # {} /\ total = F
  BY DEF ChargeInv, ChargeParts, Complete
<1>10. total # Unseen => r = total BY DEF Recalled
<1>11. total = Unseen /\ UsagesOf(log) = {} => r = NoTotal /\ F = 0 BY <1>1 DEF Recalled, LoggedTotal
<1>12. total = Unseen /\ UsagesOf(log) # {} => r = F BY <1>1 DEF Recalled, LoggedTotal
<1> SUFFICES /\ n \in Nat /\ n <= t
             /\ ~forgot => c + n <= t
             /\ ~forgot /\ ~dropped /\ n = 0 => UsagesOf(log) # {} /\ t = F
             /\ ~forgot /\ ~dropped /\ UsagesOf(log) # {} => t = F + n
  OBVIOUS
<1> HIDE DEF x, n, F, r, l, t, c
<1>13. n \in Nat /\ n <= t
  <2>1. CASE r # NoTotal /\ t >= r BY <1>4, <1>5, <1>6, <2>1
  <2>2. CASE ~(r # NoTotal /\ t >= r) BY <1>4, <1>6, <2>2
  <2> QED BY <2>1, <2>2
<1>14. CASE forgot BY <1>13, <1>14
<1>15. CASE ~forgot /\ total # Unseen
  <2>1. total \in Nat /\ r = total /\ t >= r /\ r # NoTotal BY <1>1, <1>4, <1>8, <1>10, <1>15
  <2>2. n = t - total BY <1>6, <2>1
  <2>3. c + n <= t BY <1>1, <1>4, <1>8, <1>15, <2>1, <2>2
  <2>4. ~dropped => UsagesOf(log) # {} /\ t = F + n BY <1>1, <1>4, <1>9, <1>15, <2>1, <2>2
  <2>5. ~dropped /\ n = 0 => t = F BY <1>1, <2>4
  <2> QED BY <1>13, <1>15, <2>3, <2>4, <2>5
<1>16. CASE ~forgot /\ total = Unseen /\ UsagesOf(log) # {}
  <2>1. r = F /\ t >= r /\ r # NoTotal BY <1>1, <1>4, <1>8, <1>12, <1>16
  <2>2. n = t - F BY <1>6, <2>1
  <2>3. c + n <= t BY <1>1, <1>4, <1>8, <1>16, <2>1, <2>2
  <2>4. t = F + n BY <1>1, <1>4, <2>2
  <2>5. n = 0 => t = F BY <1>1, <2>4
  <2> QED BY <1>13, <1>16, <2>3, <2>4, <2>5
<1>17. CASE ~forgot /\ total = Unseen /\ UsagesOf(log) = {}
  <2>1. n = l /\ F = 0 BY <1>6, <1>11, <1>17
  <2>2. c = 0 BY <1>1, <1>8, <1>17, <2>1
  <2>3. c + n <= t /\ n # 0 BY <1>4, <2>1, <2>2
  <2> QED BY <1>13, <1>17, <2>3
<1> QED BY <1>14, <1>15, <1>16, <1>17

LEMMA TakeStep ==
  ASSUME ChargeInv, TakeReport
  PROVE  ChargeParts'
<1> DEFINE x == Head(wire)
           n == NewTokens(x)
           F == LoggedTotal(log)
           e == [type |-> "usage", total |-> x.total, tokens |-> n]
<1>1. /\ wire # <<>> /\ taken = Nothing /\ wire' = Tail(wire) /\ total' = x.total
      /\ taken' = (IF n = 0 THEN Nothing ELSE e)
      /\ UNCHANGED <<spent, call, log, dropped, forgot>>
  BY DEF TakeReport
<1>2. /\ spent \in Nat /\ wire \in Seq(WireRow) /\ ChargeParts /\ Recorded \in Nat
      /\ Unseen \notin Nat /\ NoTotal \notin Nat /\ Nothing \notin UsageRow
  BY ChargeTypes DEF ChargeInv
<1>3. /\ x \in WireRow /\ ReportFine(x, spent) /\ WireOK(Tail(wire), spent) /\ AtLeast(x.total, Tail(wire))
  BY <1>1, <1>2, WireTake DEF ChargeParts
<1>4. x.total \in Nat /\ x.total <= spent BY <1>3 DEF WireRow, ReportFine
<1>5. /\ n \in Nat /\ n <= x.total
      /\ ~forgot => Recorded + n <= x.total
      /\ ~forgot /\ ~dropped /\ n = 0 => UsagesOf(log) # {} /\ x.total = F
      /\ ~forgot /\ ~dropped /\ UsagesOf(log) # {} => x.total = F + n
  BY <1>1, NewTokensFit
<1>6. e \in UsageRow /\ e.total = x.total /\ e.tokens = n BY <1>4, <1>5 DEF UsageRow
<1> HIDE DEF x, n, e, F
<1>7. e # Nothing BY <1>2, <1>6
<1>8. WireOK(wire', spent') /\ CallFine' /\ AllSound(log', spent')
  BY <1>1, <1>2, <1>3 DEF ChargeParts, CallFine
<1>9. TakenFine'
  <2>1. taken' # Nothing => taken' = e BY <1>1
  <2>2. Sound(e, spent) BY <1>4, <1>5, <1>6 DEF Sound
  <2> QED BY <2>1, <2>2, <1>1, <1>6 DEF TakenFine
<1>10. Recorded' = Recorded BY <1>1 DEF Recorded
<1>11. Known' = Recorded + n
  <2>1. CASE n = 0 BY <2>1, <1>1, <1>10 DEF Known
  <2>2. CASE n # 0 BY <2>2, <1>1, <1>6, <1>7, <1>10 DEF Known
  <2> QED BY <2>1, <2>2
<1>12. total' # NoTotal /\ total' # Unseen BY <1>1, <1>2, <1>4
<1>13. Charged'
  <2> SUFFICES ASSUME ~forgot
               PROVE  Recorded <= F /\ total' <= spent /\ Known' <= total' /\ AtLeast(total', wire')
    BY <1>1, <1>10, <1>12 DEF Charged, F
  <2>1. Recorded <= F BY <1>2 DEF ChargeParts, Charged, F
  <2> QED BY <2>1, <1>1, <1>3, <1>4, <1>5, <1>11
<1>14. Complete'
  <2> SUFFICES ASSUME ~forgot, ~dropped
               PROVE  /\ UsagesOf(log) # {} => Recorded = F - BeforeIn(log)
                      /\ taken' = Nothing => UsagesOf(log) # {} /\ x.total = F
                      /\ taken' # Nothing /\ UsagesOf(log) # {} => taken'.total = F + taken'.tokens
    BY <1>1, <1>10 DEF Complete, F
  <2>1. UsagesOf(log) # {} => Recorded = F - BeforeIn(log) BY <1>2 DEF ChargeParts, Complete, F
  <2>2. taken' = Nothing => n = 0 BY <1>1, <1>7
  <2>3. taken' # Nothing => taken' = e BY <1>1
  <2> QED BY <2>1, <2>2, <2>3, <1>5, <1>6
<1> QED BY <1>8, <1>9, <1>13, <1>14 DEF ChargeParts

LEMMA StoreStep ==
  ASSUME ChargeInv, Store
  PROVE  ChargeParts'
<1> DEFINE F == LoggedTotal(log)
           b == BeforeIn(log)
           k == taken.tokens
           t == taken.total
<1>1. /\ taken # Nothing /\ log' = Append(log, taken) /\ taken' = Nothing
      /\ UNCHANGED <<spent, call, wire, total, dropped, forgot>>
  BY DEF Store
<1>2. /\ spent \in Nat /\ log \in Seq(Entry) /\ ChargeParts /\ Recorded \in Nat /\ F \in Nat
      /\ taken \in UsageRow /\ t \in Nat /\ k \in Nat /\ Unseen \notin Nat /\ NoTotal \notin Nat
  BY <1>1, ChargeTypes DEF ChargeInv
<1>3. AllSound(log, spent) /\ Sound(taken, spent) /\ total = t BY <1>1, <1>2 DEF ChargeParts, TakenFine
<1>4. /\ TokensIn(log') = TokensIn(log) + k
      /\ UsagesOf(log') # {}
      /\ LoggedTotal(log') = t
      /\ UsagesOf(log) = {} => BeforeIn(log') = t - k
      /\ UsagesOf(log) # {} /\ b <= t - k => BeforeIn(log') = b
      /\ AllSound(log', spent)
  BY <1>1, <1>2, <1>3, ChargedOfAppend
<1>5. Known = Recorded + k BY <1>1 DEF Known
<1>6. Recorded' = Recorded + k BY <1>4 DEF Recorded
<1>7. Known' = Recorded' BY <1>1, <1>2, <1>6 DEF Known
<1>8. UsagesOf(log) # {} => b \in Nat BY <1>2, <1>3, StartFits
<1>9. k <= t BY <1>3 DEF Sound
<1>10. UsagesOf(log) = {} => F = 0 BY DEF LoggedTotal
<1>11. ~forgot => Recorded <= F /\ total # Unseen /\ total <= spent /\ Known <= total /\ AtLeast(total, wire)
  BY <1>2, <1>3 DEF ChargeParts, Charged
<1>12. ~forgot /\ ~dropped /\ UsagesOf(log) # {} => Recorded = F - b /\ t = F + k
  BY <1>1, <1>2 DEF ChargeParts, Complete
<1> HIDE DEF F, b, k, t
<1>13. WireOK(wire', spent') /\ CallFine' /\ AllSound(log', spent')
  BY <1>1, <1>2, <1>4 DEF ChargeParts, CallFine
<1>14. TakenFine' BY <1>1 DEF TakenFine
<1>15. Charged'
  <2> SUFFICES ASSUME ~forgot
               PROVE  /\ total # NoTotal /\ Recorded' <= LoggedTotal(log') /\ total # Unseen
                      /\ total <= spent /\ Known' <= total /\ AtLeast(total, wire)
    BY <1>1 DEF Charged
  <2>1. Known = Recorded' BY <1>5, <1>6
  <2> QED BY <2>1, <1>2, <1>3, <1>4, <1>7, <1>11
<1>16. Complete'
  <2> SUFFICES ASSUME ~forgot, ~dropped
               PROVE  /\ Recorded' = LoggedTotal(log') - BeforeIn(log')
                      /\ UsagesOf(log') # {} /\ total = LoggedTotal(log')
    BY <1>1 DEF Complete
  <2>1. CASE UsagesOf(log) = {}
    <3>1. Recorded = 0 /\ BeforeIn(log') = t - k BY <2>1, <1>2, <1>4, <1>10, <1>11
    <3>2. Recorded' = k BY <3>1, <1>2, <1>6
    <3>3. Recorded' = t - (t - k) BY <3>2, <1>2
    <3> QED BY <3>1, <3>3, <1>3, <1>4
  <2>2. CASE UsagesOf(log) # {}
    <3>1. Recorded = F - b /\ t = F + k /\ b \in Nat BY <2>2, <1>8, <1>12
    <3>2. b <= F BY <3>1, <1>2
    <3>3. b <= t - k BY <3>1, <3>2, <1>2
    <3>4. BeforeIn(log') = b BY <3>3, <2>2, <1>4
    <3>5. Recorded' = t - b BY <3>1, <1>2, <1>6
    <3> QED BY <3>4, <3>5, <1>3, <1>4
  <2> QED BY <2>1, <2>2
<1> QED BY <1>13, <1>14, <1>15, <1>16 DEF ChargeParts

\* The link rests, and what is appended is not usage.
LEMMA QuietStep ==
  ASSUME ChargeInv, UNCHANGED linkVars, TokensIn(log') = TokensIn(log), UsagesOf(log') = UsagesOf(log),
         LoggedTotal(log') = LoggedTotal(log), BeforeIn(log') = BeforeIn(log), AllSound(log', spent)
  PROVE  ChargeParts'
<1>1. UNCHANGED <<spent, call, wire, total, taken, dropped, forgot>> BY DEF linkVars
<1>2. ChargeParts BY DEF ChargeInv
<1>3. Recorded' = Recorded /\ Known' = Known BY <1>1 DEF Recorded, Known
<1>4. WireOK(wire', spent') /\ CallFine' /\ AllSound(log', spent') BY <1>1, <1>2 DEF ChargeParts, CallFine
<1>5. TakenFine' BY <1>1, <1>2 DEF ChargeParts, TakenFine
<1>6. Charged' BY <1>1, <1>2, <1>3 DEF ChargeParts, Charged
<1>7. Complete' BY <1>1, <1>2, <1>3 DEF ChargeParts, Complete
<1> QED BY <1>4, <1>5, <1>6, <1>7 DEF ChargeParts

LEMMA InitCharge == Init => ChargeInv
<1> SUFFICES ASSUME Init PROVE ChargeInv OBVIOUS
<1>1. LogInv BY InitLog
<1>2. /\ log = <<>> /\ spent = 0 /\ call = 0 /\ wire = <<>> /\ total = Unseen /\ taken = Nothing
      /\ log \in Seq(Entry)
  BY DEF Init, LogInit, LinkInit
<1>3. UsagesOf(log) = {} BY <1>2 DEF UsagesOf
<1>4. TokensIn(log) = 0
  <2>1. Len(log) = 0 BY <1>2
  <2>2. PICK f : Counts(log, Len(log), f) /\ TokensIn(log) = f[Len(log)]
    BY <1>2, TokensAtType, TokensAreCounted
  <2> QED BY <2>1, <2>2 DEF Counts
<1>5. LoggedTotal(log) = 0 BY <1>3 DEF LoggedTotal
<1>6. WireOK(wire, spent) /\ AtLeast(LoggedTotal(log), wire) BY <1>2, WireNone
<1>7. CallFine /\ AllSound(log, spent) /\ TakenFine BY <1>2, <1>3 DEF CallFine, AllSound, TakenFine
<1>8. Charged
  <2>1. Unseen # NoTotal BY LinkUsageAssumption
  <2> QED BY <2>1, <1>2, <1>4, <1>5, <1>6 DEF Charged, Recorded
<1>9. Complete BY <1>2, <1>3 DEF Complete
<1> QED BY <1>1, <1>6, <1>7, <1>8, <1>9 DEF ChargeInv, ChargeParts

LEMMA NextCharge == ChargeInv /\ [Next]_vars => ChargeInv'
<1> SUFFICES ASSUME ChargeInv, [Next]_vars PROVE ChargeInv' OBVIOUS
<1>0. LogInv' BY NextLog DEF ChargeInv
<1> SUFFICES ChargeParts' BY <1>0 DEF ChargeInv
<1>q. UNCHANGED log /\ UNCHANGED linkVars => ChargeParts'
  <2>1. AllSound(log, spent) BY DEF ChargeInv, ChargeParts
  <2> QED BY <2>1, QuietStep
<1>1. CASE LogNext /\ UNCHANGED <<linkVars, machineVars>>
  <2>1. log' = log BY <1>1 DEF LogNext, OpenPage, Fetch
  <2> QED BY <2>1, <1>1, <1>q
<1>2. CASE LinkNext /\ UNCHANGED machineVars
  BY <1>2, CallStep, DownStep, UpStep, RestartStep, TakeStep, RecallFailsStep, StoreFailsStep DEF LinkNext
<1>3. CASE LogFree /\ Store /\ UNCHANGED machineVars
  BY <1>3, StoreStep
<1>4. CASE MachineNext /\ UNCHANGED linkVars
  <2>1. ASSUME NEW y \in Syncs, Commit(y) PROVE ChargeParts'
    <3> DEFINE R == sync[y].record
               s == NewEntries(R)
    <3>1. R \subseteq Reports /\ IsFiniteSet(R) /\ \A e, f \in R : e.id = f.id => e = f
      BY FS_Subset DEF ChargeInv, LogInv, SyncsFine, SyncFine
    <3>2. log' = log \o s BY <2>1 DEF Commit
    <3> HIDE DEF R
    <3>3. s \in Seq(Entry) /\ \A j \in 1..Len(s) : s[j].type # "usage" BY <3>1, EntriesAreNew
    <3> HIDE DEF s
    <3>4. log \in Seq(Entry) /\ AllSound(log, spent) BY DEF ChargeInv, LogInv, ChargeParts
    <3>5. /\ TokensIn(log') = TokensIn(log)
          /\ UsagesOf(log') = UsagesOf(log)
          /\ LoggedTotal(log') = LoggedTotal(log)
          /\ BeforeIn(log') = BeforeIn(log)
          /\ AllSound(log', spent)
      BY <3>2, <3>3, <3>4, ChargedOfLonger
    <3> QED BY <3>5, <1>4, QuietStep
  <2>2. ASSUME NEW y \in Syncs, Round(y), ~Commit(y) PROVE ChargeParts'
    <3>1. UNCHANGED log BY <2>2 DEF Round, Begin, LookUp, Skip, Write, Abort, SendReceipts
    <3> QED BY <3>1, <1>4, <1>q
  <2>3. ASSUME NEW n \in Names \cup {NoMachine, Unnamed}, AgentChanges(n) PROVE ChargeParts'
    <3>1. UNCHANGED log BY <2>3 DEF AgentChanges
    <3> QED BY <3>1, <1>4, <1>q
  <2>4. ASSUME NEW e \in Reports, AgentReports(e) \/ ReportExpires(e) PROVE ChargeParts'
    <3>1. UNCHANGED log BY <2>4 DEF AgentReports, ReportExpires
    <3> QED BY <3>1, <1>4, <1>q
  <2>5. CASE Reconnect
    <3>1. UNCHANGED log BY <2>5 DEF Reconnect
    <3> QED BY <3>1, <1>4, <1>q
  <2> QED BY <1>4, <2>1, <2>2, <2>3, <2>4, <2>5, Zenon DEF MachineNext
<1>5. CASE UNCHANGED vars
  <2>1. UNCHANGED log /\ UNCHANGED linkVars BY <1>5 DEF vars
  <2> QED BY <2>1, <1>q
<1> QED BY <1>1, <1>2, <1>3, <1>4, <1>5, Zenon DEF Next

\* Every total on its way, known, or in the log is at least what is charged.
THEOREM ChargeInvariant == Spec => []ChargeInv
<1> QED BY InitCharge, NextCharge, PTL DEF Spec

\* No conversation is charged more than its thread spent, whatever is lost, repeated or
\* missed on the way and however often the link restarts (pricing.py:157-170), unless
\* the totals could not be read back once.
THEOREM NobodyIsOvercharged == Spec => []NeverOvercharged
<1>1. ChargeInv => NeverOvercharged
  <2> SUFFICES ASSUME ChargeInv, ~forgot PROVE Known <= spent BY DEF NeverOvercharged
  <2>1. /\ spent \in Nat /\ total \in Nat \cup {Unseen, NoTotal} /\ Recorded \in Nat
        /\ LoggedTotal(log) \in Nat /\ LoggedTotal(log) <= spent
        /\ taken # Nothing => taken.tokens \in Nat
    BY ChargeTypes
  <2>2. /\ total # NoTotal /\ Recorded <= LoggedTotal(log)
        /\ total = Unseen => taken = Nothing
        /\ total # Unseen => total <= spent /\ Known <= total
    BY DEF ChargeInv, ChargeParts, Charged
  <2>3. Known \in Nat BY <2>1 DEF Known
  <2>4. CASE total = Unseen
    <3>1. Known = Recorded BY <2>1, <2>2, <2>4 DEF Known
    <3> QED BY <3>1, <2>1, <2>2
  <2>5. CASE total # Unseen BY <2>1, <2>2, <2>3, <2>5
  <2> QED BY <2>4, <2>5
<1> QED BY <1>1, ChargeInvariant, PTL

\* Once a later report is stored, what was missed on the way is in the log as well: the
\* entries come to the last total less what was spent before the first of them.
THEOREM MissedIsInTheLog == Spec => []MissedIsMadeUp
<1>1. ChargeInv => MissedIsMadeUp
  <2> SUFFICES ASSUME ChargeInv, ~forgot, ~dropped, taken = Nothing, Usages # {}, total \notin {Unseen, NoTotal}
               PROVE  Recorded = total - Before
    BY DEF MissedIsMadeUp
  <2>1. Usages = UsagesOf(log) BY ChargeTypes
  <2>2. Recorded = LoggedTotal(log) - BeforeIn(log) /\ total = LoggedTotal(log)
    BY <2>1 DEF ChargeInv, ChargeParts, Complete
  <2>3. Before = BeforeIn(log) BY <2>1 DEF Before, BeforeIn, StartOf
  <2> QED BY <2>2, <2>3
<1> QED BY <1>1, ChargeInvariant, PTL

-----------------------------------------------------------------------------
(* Requests for a decision: types. *)

Answers == {"none", "answer", "accept", "accept_task", "decline", "cancel"}
Sources == {"none", "policy", "task_grant", "user", "cancelled", "timeout"}
Early == {"none", "new", "asking", "refused", "decided", "error"}
Late == {"opened", "waiting", "woken", "released", "expired", "closed", "done"}

RqRow == [at : Early \cup Late, by : Drivers, turn : Nat, number : Nat,
          what : Subjects["user"] \cup Subjects["expert"] \cup {NoSubject},
          task : Nat, drive : Nat, step : Steps \cup {0, 1}, answer : Answers, decision : Answers,
          source : Sources]
Interrupts == [kind : {"interrupt"}]
Responses == [kind : {"respond"}, number : Nat, answer : Answers]

ApprovalShape ==
  /\ handovers \in Nat /\ step \in Steps \cup {1} /\ numbers \in Nat
  /\ turn \in [Drivers -> Nat] /\ turns \in Nat
  /\ rq \in [Requests -> RqRow]
  /\ inter = [r \in Requests |-> inter[r]] /\ said \in [Requests -> Answers]
  /\ commands \in Seq(Interrupts \cup Responses)
  /\ future \in [Numbers -> Requests \cup {NoRequest}]

(* The inductive invariant, in parts. *)

\* The row of a request with its interaction and the person's answer, given the
\* grants there are.
RowFine(x, in, sa, gr) ==
  /\ x.at # "none" => x.number \in Numbers
  /\ in # "none" => x.at \in Late
  /\ sa # "none" => in = "consumed"
  /\ x.at \notin {"decided", "done"} => x.source = "none"
  /\ x.source = "task_grant" => \E g \in gr : g.task = x.task /\ Covers(g, x.what)

RowsFine == \A r \in Requests : RowFine(rq[r], inter[r], said[r], grants)

\* The person answered a to a request of number n, in the time of whichever app-server.
Told(n, a, rs, sa) ==
  \E q \in Requests : rs[q].at # "none" /\ rs[q].number = n /\ sa[q] = a /\ sa[q] # "none"

\* A wait is ended, and a request let through, by an answer that was given.
WordFine(x, rs, sa) ==
  /\ x.at = "woken" => Told(x.number, x.answer, rs, sa)
  /\ x.source # "none" /\ x.decision = "accept" =>
       \/ x.source \in {"policy", "task_grant"}
       \/ \E a \in {"accept", "accept_task"} : Told(x.number, a, rs, sa)

WordsFine == \A r \in Requests : WordFine(rq[r], rq, said)

\* A future is found under the number of its request.
FuturesFit ==
  \A n \in Numbers : future[n] # NoRequest =>
    future[n] \in Requests /\ rq[future[n]].at # "none" /\ rq[future[n]].number = n

\* A command carries what the person answered to a request of its number.
CommandFits(c, rs, sa) == c.kind = "respond" => Told(c.number, c.answer, rs, sa)
CommandsFit == \A i \in 1..Len(commands) : CommandFits(commands[i], rq, said)

\* A grant is from a request under whose number the person answered so, and of its task.
GrantFits(g, rs, sa) ==
  /\ g.from \in Requests /\ rs[g.from].at = "done" /\ rs[g.from].task = g.task
  /\ Told(rs[g.from].number, "accept_task", rs, sa)
GrantsFit == \A g \in grants : GrantFits(g, rq, said)

ApprovalInv ==
  /\ ApprovalShape /\ RowsFine /\ WordsFine /\ FuturesFit /\ CommandsFit /\ GrantsFit

\* What was told stays told, while requests keep their numbers and answers are kept.
LEMMA ToldStays ==
  ASSUME NEW rs, NEW rt, NEW sa, NEW sb, NEW n, NEW a, Told(n, a, rs, sa),
         \A q \in Requests : rs[q].at # "none" => rt[q].at # "none" /\ rt[q].number = rs[q].number,
         \A q \in Requests : sa[q] # "none" => sb[q] = sa[q]
  PROVE  Told(n, a, rt, sb)
BY DEF Told

\* So are the commands, the grants and the rows of the other requests in order.
LEMMA WordsStay ==
  ASSUME NEW rs, NEW rt, NEW sa, NEW sb,
         \A q \in Requests : rs[q].at # "none" => rt[q].at # "none" /\ rt[q].number = rs[q].number,
         \A q \in Requests : sa[q] # "none" => sb[q] = sa[q]
  PROVE  /\ \A c : CommandFits(c, rs, sa) => CommandFits(c, rt, sb)
         /\ \A x : WordFine(x, rs, sa) => WordFine(x, rt, sb)
         /\ \A g : GrantFits(g, rs, sa) /\ rt[g.from].at = "done" /\ rt[g.from].task = g.task
                  => GrantFits(g, rt, sb)
<1>1. \A n, a : Told(n, a, rs, sa) => Told(n, a, rt, sb)
  BY ToldStays
<1>2. \A c : CommandFits(c, rs, sa) => CommandFits(c, rt, sb)
  BY <1>1 DEF CommandFits
<1>3. \A x : WordFine(x, rs, sa) => WordFine(x, rt, sb)
  BY <1>1 DEF WordFine
<1>4. ASSUME NEW g, GrantFits(g, rs, sa), rt[g.from].at = "done", rt[g.from].task = g.task
      PROVE  GrantFits(g, rt, sb)
  <2>1. rt[g.from].number = rs[g.from].number
    BY <1>4 DEF GrantFits
  <2> QED BY <1>1, <1>4, <2>1 DEF GrantFits
<1> QED BY <1>2, <1>3, <1>4

\* The numbers of the requests are a bounded range.
LEMMA NumbersRange == Cardinality(Requests) \in Nat /\ Numbers = 1..Cardinality(Requests)
BY RequestsAreFinite, FS_CardinalityType DEF Numbers

\* At first nothing has been asked for.
LEMMA InitApproval == ApprovalInit => ApprovalInv
<1> SUFFICES ASSUME ApprovalInit PROVE ApprovalInv
  OBVIOUS
<1>1. Fresh \in RqRow /\ Fresh.at = "none" /\ Fresh.source = "none"
  BY DEF Fresh, RqRow, Early, Drivers, Answers, Sources
<1>2. commands = <<>> /\ <<>> \in Seq(Interrupts \cup Responses) /\ Len(commands) = 0
  BY EmptySeq DEF ApprovalInit
<1>3. ApprovalShape
  BY <1>1, <1>2, NumbersRange DEF ApprovalInit, ApprovalShape, Answers
<1>4. RowsFine /\ WordsFine
  BY <1>1 DEF ApprovalInit, RowsFine, RowFine, WordsFine, WordFine
<1>5. FuturesFit /\ GrantsFit
  BY <1>1 DEF ApprovalInit, FuturesFit, GrantsFit
<1>6. CommandsFit
  BY <1>2 DEF CommandsFit
<1> QED BY <1>3, <1>4, <1>5, <1>6 DEF ApprovalInv

-----------------------------------------------------------------------------
(* A step of the handler of one request. *)

\* What is at the end of a queue when its head is gone, or one more is put in.
LEMMA QueueMoves ==
  ASSUME CommandsFit, commands \in Seq(Interrupts \cup Responses)
  PROVE  /\ commands # <<>> => /\ Tail(commands) \in Seq(Interrupts \cup Responses)
                               /\ \A i \in 1..Len(Tail(commands)) : CommandFits(Tail(commands)[i], rq, said)
         /\ \A c \in Interrupts \cup Responses :
              /\ Append(commands, c) \in Seq(Interrupts \cup Responses)
              /\ CommandFits(c, rq, said) =>
                   \A i \in 1..Len(Append(commands, c)) : CommandFits(Append(commands, c)[i], rq, said)
<1> DEFINE T == Interrupts \cup Responses
<1> HIDE DEF T
<1>0. commands \in Seq(T)
  BY DEF T
<1>1. ASSUME commands # <<>>
      PROVE  Tail(commands) \in Seq(T) /\ \A i \in 1..Len(Tail(commands)) : CommandFits(Tail(commands)[i], rq, said)
  <2>1. Tail(commands) \in Seq(T) /\ Len(Tail(commands)) = Len(commands) - 1
        /\ \A i \in 1..Len(Tail(commands)) : Tail(commands)[i] = commands[i + 1]
    BY <1>0, <1>1
  <2>2. \A i \in 1..Len(Tail(commands)) : i + 1 \in 1..Len(commands)
    BY <1>0, <2>1
  <2> QED BY <2>1, <2>2 DEF CommandsFit
<1>2. ASSUME NEW c \in T
      PROVE  /\ Append(commands, c) \in Seq(T)
             /\ CommandFits(c, rq, said) =>
                  \A i \in 1..Len(Append(commands, c)) : CommandFits(Append(commands, c)[i], rq, said)
  <2>1. /\ Append(commands, c) \in Seq(T) /\ Len(Append(commands, c)) = Len(commands) + 1
        /\ Append(commands, c)[Len(commands) + 1] = c
        /\ \A i \in 1..Len(commands) : Append(commands, c)[i] = commands[i]
    BY <1>0
  <2>2. \A i \in 1..(Len(commands) + 1) : i \in 1..Len(commands) \/ i = Len(commands) + 1
    BY <1>0
  <2> QED BY <2>1, <2>2 DEF CommandsFit
<1> QED BY <1>1, <1>2 DEF T

\* The step of a request that keeps its number keeps the invariant, when its own
\* row stays in order and it gives no grant but its own.
LEMMA OneRequest ==
  ASSUME ApprovalInv, NEW r \in Requests, NEW y \in RqRow, rq' = [rq EXCEPT ![r] = y],
         rq[r].at \notin {"none", "done"}, y.at # "none", y.number = rq[r].number,
         RowFine(y, inter'[r], said[r], grants'), WordFine(y, rq, said),
         \A g \in grants' : g \in grants
                            \/ (/\ g.from = r /\ y.at = "done" /\ y.task = g.task
                                /\ Told(y.number, "accept_task", rq, said)),
         grants \subseteq grants',
         inter' = [q \in Requests |-> inter'[q]], \A q \in Requests \ {r} : inter'[q] = inter[q],
         future' \in [Numbers -> Requests \cup {NoRequest}],
         \A n \in Numbers : \/ future'[n] = future[n]
                            \/ future'[n] = NoRequest
                            \/ future'[n] = r /\ n = y.number,
         commands' \in Seq(Interrupts \cup Responses),
         \A i \in 1..Len(commands') : CommandFits(commands'[i], rq, said),
         UNCHANGED <<wheel, handovers, step, turn, turns, said, numbers>>
  PROVE  ApprovalInv'
<1>1. rq \in [Requests -> RqRow]
  BY DEF ApprovalInv, ApprovalShape
<1>2. rq' \in [Requests -> RqRow] /\ rq'[r] = y /\ \A q \in Requests : q # r => rq'[q] = rq[q]
  BY <1>1
<1>3. ApprovalShape'
  BY <1>2 DEF ApprovalInv, ApprovalShape
<1>4. RowsFine'
  <2> SUFFICES ASSUME NEW q \in Requests PROVE RowFine(rq'[q], inter'[q], said[q], grants')
    BY DEF RowsFine
  <2>1. CASE q = r
    BY <1>2, <2>1
  <2>2. CASE q # r
    <3>1. RowFine(rq[q], inter[q], said[q], grants)
      BY DEF ApprovalInv, RowsFine
    <3>2. rq'[q] = rq[q] /\ inter'[q] = inter[q]
      BY <1>2, <2>2
    <3> QED BY <3>1, <3>2 DEF RowFine
  <2> QED BY <2>1, <2>2
<1>0. /\ \A q \in Requests : rq[q].at # "none" => rq'[q].at # "none" /\ rq'[q].number = rq[q].number
      /\ \A q \in Requests : said[q] # "none" => said'[q] = said[q]
  BY <1>2
<1>9. /\ \A c : CommandFits(c, rq, said) => CommandFits(c, rq', said')
      /\ \A x : WordFine(x, rq, said) => WordFine(x, rq', said')
      /\ \A g : GrantFits(g, rq, said) /\ rq'[g.from].at = "done" /\ rq'[g.from].task = g.task
               => GrantFits(g, rq', said')
  BY <1>0, WordsStay
<1>5. WordsFine'
  <2> SUFFICES ASSUME NEW q \in Requests PROVE WordFine(rq'[q], rq', said')
    BY DEF WordsFine
  <2>1. WordFine(rq'[q], rq, said)
    BY <1>2 DEF ApprovalInv, WordsFine
  <2> QED BY <1>9, <2>1
<1>6. FuturesFit'
  <2> SUFFICES ASSUME NEW n \in Numbers, future'[n] # NoRequest
               PROVE  future'[n] \in Requests /\ rq'[future'[n]].at # "none" /\ rq'[future'[n]].number = n
    BY DEF FuturesFit
  <2>1. CASE future'[n] = r /\ n = y.number
    BY <1>2, <2>1
  <2>2. CASE future'[n] = future[n]
    <3>1. future[n] \in Requests /\ rq[future[n]].at # "none" /\ rq[future[n]].number = n
      BY <2>2 DEF ApprovalInv, FuturesFit
    <3> QED BY <1>2, <2>2, <3>1
  <2> QED BY <2>1, <2>2
<1>7. CommandsFit'
  <2> SUFFICES ASSUME NEW i \in 1..Len(commands') PROVE CommandFits(commands'[i], rq', said')
    BY DEF CommandsFit
  <2>1. CommandFits(commands'[i], rq, said)
    OBVIOUS
  <2> QED BY <1>9, <2>1
<1>8. GrantsFit'
  <2> SUFFICES ASSUME NEW g \in grants' PROVE GrantFits(g, rq', said')
    BY DEF GrantsFit
  <2>1. CASE g \in grants
    <3>1. GrantFits(g, rq, said) /\ g.from \in Requests
      BY <2>1 DEF ApprovalInv, GrantsFit, GrantFits
    <3>2. rq'[g.from].at = "done" /\ rq'[g.from].task = g.task
      BY <1>2, <3>1 DEF GrantFits
    <3> QED BY <1>9, <3>1, <3>2
  <2>2. CASE g.from = r /\ y.at = "done" /\ y.task = g.task /\ Told(y.number, "accept_task", rq, said)
    <3>0. PICK q \in Requests : /\ rq[q].at # "none" /\ rq[q].number = y.number
                               /\ said[q] = "accept_task" /\ said[q] # "none"
      BY <2>2 DEF Told
    <3>1. Told(y.number, "accept_task", rq', said')
      BY <1>0, <3>0 DEF Told
    <3> QED BY <1>2, <2>2, <3>1 DEF GrantFits
  <2> QED BY <2>1, <2>2
<1> QED BY <1>3, <1>4, <1>5, <1>6, <1>7, <1>8 DEF ApprovalInv

\* The same of a step that moves nothing but the row.
LEMMA RowOnly ==
  ASSUME ApprovalInv, NEW r \in Requests, NEW y \in RqRow, rq' = [rq EXCEPT ![r] = y],
         rq[r].at \notin {"none", "done"}, y.at # "none", y.number = rq[r].number,
         RowFine(y, inter[r], said[r], grants), WordFine(y, rq, said),
         UNCHANGED <<wheel, handovers, step, turn, turns, inter, said, commands, future, grants, numbers>>
  PROVE  ApprovalInv'
<1>1. /\ inter' = [q \in Requests |-> inter'[q]] /\ future' \in [Numbers -> Requests \cup {NoRequest}]
      /\ commands' \in Seq(Interrupts \cup Responses)
      /\ \A i \in 1..Len(commands') : CommandFits(commands'[i], rq, said)
  BY DEF ApprovalInv, ApprovalShape, CommandsFit
<1> QED BY <1>1, OneRequest

\* The row of a request, and what goes with it.
LEMMA RowIs ==
  ASSUME ApprovalInv, NEW r \in Requests
  PROVE  /\ rq[r] \in RqRow /\ RowFine(rq[r], inter[r], said[r], grants)
         /\ WordFine(rq[r], rq, said) /\ said[r] \in Answers
BY DEF ApprovalInv, ApprovalShape, RowsFine, WordsFine

\* Policy, a grant or the person will decide.
LEMMA LookStep == ASSUME ApprovalInv, NEW r \in Requests, Look(r) PROVE ApprovalInv'
<1>1. /\ rq[r] \in RqRow /\ RowFine(rq[r], inter[r], said[r], grants)
      /\ rq[r].at = "new"
      /\ UNCHANGED <<wheel, handovers, step, turn, turns, inter, said, commands, future, grants, numbers>>
  BY RowIs DEF Look, At, threadVars, turnVars
<1>2. rq[r].source = "none" /\ inter[r] = "none" /\ said[r] = "none"
      /\ rq[r].number \in Numbers
  BY <1>1 DEF RowFine, Late
<1>3. PICK t \in Nat : t = TaskNow
  BY DEF TaskNow, ApprovalInv, ApprovalShape
<1>4. PICK s \in Steps \cup {0, 1} : s = IF t = 0 THEN 0 ELSE step
  BY DEF ApprovalInv, ApprovalShape
<1>5. handovers \in Nat
  BY DEF ApprovalInv, ApprovalShape
<1>6. PICK read : read = [rq[r] EXCEPT !.task = t, !.drive = handovers, !.step = s]
  OBVIOUS
<1>7. /\ read \in RqRow /\ read.at = "new" /\ read.number = rq[r].number /\ read.task = t
      /\ read.source = "none" /\ read.what = rq[r].what
  BY <1>1, <1>2, <1>5, <1>6 DEF RqRow
<1>8. PICK y : rq' = [rq EXCEPT ![r] = y] /\
        \/ \E a \in {"refused", "asking"} : y = [read EXCEPT !.at = a]
        \/ /\ y = [read EXCEPT !.at = "decided", !.decision = "accept", !.source = "task_grant"]
           /\ \E g \in GrantsOf(t) : Covers(g, rq[r].what)
        \/ \E d \in {"accept", "decline"} :
             y = [read EXCEPT !.at = "decided", !.source = "policy", !.decision = d]
  <2> DEFINE declined == Declined(TaskNow, step)
             granted == ~declined /\ \E g \in GrantsOf(TaskNow) : Covers(g, rq[r].what)
             tier == IF wheel = "user" \/ declined THEN "ask" ELSE Tier(PolicyOf(step), rq[r].what)
             row == IF IsQuestion(r) THEN [read EXCEPT !.at = IF Refused(r) THEN "refused" ELSE "asking"]
                    ELSE IF granted THEN [read EXCEPT !.at = "decided", !.decision = "accept", !.source = "task_grant"]
                    ELSE IF tier = "ask" THEN [read EXCEPT !.at = "asking"]
                    ELSE [read EXCEPT !.at = "decided", !.source = "policy",
                                      !.decision = IF tier = "allow" THEN "accept" ELSE "decline"]
  <2>1. rq' = [rq EXCEPT ![r] = row]
    BY <1>3, <1>4, <1>6, Zenon DEF Look
  <2>2. CASE IsQuestion(r)
    <3>1. row = [read EXCEPT !.at = IF Refused(r) THEN "refused" ELSE "asking"]
      BY <2>2, Zenon
    <3> HIDE DEF row
    <3>2. PICK a \in {"refused", "asking"} : a = IF Refused(r) THEN "refused" ELSE "asking"
      BY Zenon
    <3> QED BY <2>1, <3>1, <3>2, Zenon
  <2>3. CASE ~IsQuestion(r) /\ granted
    <3>1. row = [read EXCEPT !.at = "decided", !.decision = "accept", !.source = "task_grant"]
          /\ \E g \in GrantsOf(t) : Covers(g, rq[r].what)
      BY <1>3, <2>3, Zenon
    <3> HIDE DEF row
    <3> QED BY <2>1, <3>1, Zenon
  <2>4. CASE ~IsQuestion(r) /\ ~granted /\ tier = "ask"
    <3>1. row = [read EXCEPT !.at = "asking"]
      BY <2>4, Zenon
    <3> HIDE DEF row
    <3> QED BY <2>1, <3>1, Zenon
  <2>5. CASE ~IsQuestion(r) /\ ~granted /\ tier # "ask"
    <3>1. row = [read EXCEPT !.at = "decided", !.source = "policy",
                             !.decision = IF tier = "allow" THEN "accept" ELSE "decline"]
      BY <2>5, Zenon
    <3>2. PICK d \in {"accept", "decline"} : d = IF tier = "allow" THEN "accept" ELSE "decline"
      BY Zenon
    <3> HIDE DEF row, tier, granted
    <3> QED BY <2>1, <3>1, <3>2, Zenon
  <2> QED BY <2>2, <2>3, <2>4, <2>5, Zenon
<1>9. CASE \E a \in {"refused", "asking"} : y = [read EXCEPT !.at = a]
  <2>1. y \in RqRow /\ y.at \in {"refused", "asking"} /\ y.number = rq[r].number /\ y.source = "none"
    BY <1>7, <1>9 DEF RqRow, Early
  <2>2. RowFine(y, inter[r], said[r], grants) /\ WordFine(y, rq, said)
    BY <1>2, <2>1 DEF RowFine, WordFine
  <2> QED BY <1>1, <1>8, <2>1, <2>2, RowOnly
<1>10. CASE /\ y = [read EXCEPT !.at = "decided", !.decision = "accept", !.source = "task_grant"]
            /\ \E g \in GrantsOf(t) : Covers(g, rq[r].what)
  <2>1. y \in RqRow /\ y.at = "decided" /\ y.number = rq[r].number /\ y.source = "task_grant" /\ y.task = t
        /\ y.what = rq[r].what
    BY <1>7, <1>10 DEF RqRow, Early, Answers, Sources
  <2>2. \E g \in grants : g.task = y.task /\ Covers(g, y.what)
    BY <1>10, <2>1 DEF GrantsOf
  <2>3. RowFine(y, inter[r], said[r], grants) /\ WordFine(y, rq, said)
    BY <1>2, <2>1, <2>2 DEF RowFine, WordFine
  <2> QED BY <1>1, <1>8, <2>1, <2>3, RowOnly
<1>11. CASE \E d \in {"accept", "decline"} :
             y = [read EXCEPT !.at = "decided", !.source = "policy", !.decision = d]
  <2>1. y \in RqRow /\ y.at = "decided" /\ y.number = rq[r].number /\ y.source = "policy"
    BY <1>7, <1>11 DEF RqRow, Early, Answers, Sources
  <2>2. RowFine(y, inter[r], said[r], grants) /\ WordFine(y, rq, said)
    BY <1>2, <2>1 DEF RowFine, WordFine
  <2> QED BY <1>1, <1>8, <2>1, <2>2, RowOnly
<1> QED BY <1>8, <1>9, <1>10, <1>11

\* A decision is logged.
LEMMA SettleStep == ASSUME ApprovalInv, NEW r \in Requests, Settle(r) PROVE ApprovalInv'
<1>1. /\ rq[r] \in RqRow /\ RowFine(rq[r], inter[r], said[r], grants) /\ WordFine(rq[r], rq, said)
      /\ rq[r].at \in {"decided", "refused"}
      /\ UNCHANGED <<wheel, handovers, step, turn, turns, inter, said, commands, future, grants, numbers>>
  BY RowIs DEF Settle, threadVars, turnVars
<1>2. PICK y : y = [rq[r] EXCEPT !.at = "done"]
  OBVIOUS
<1>3. /\ y \in RqRow /\ y.at = "done" /\ y.number = rq[r].number /\ y.source = rq[r].source
      /\ y.decision = rq[r].decision /\ y.task = rq[r].task /\ y.what = rq[r].what
  BY <1>1, <1>2 DEF RqRow, Late
<1>4. rq' = [rq EXCEPT ![r] = y]
  BY <1>2 DEF Settle, Go
<1>5. RowFine(y, inter[r], said[r], grants) /\ WordFine(y, rq, said)
  BY <1>1, <1>3 DEF RowFine, WordFine, Late
<1> QED BY <1>1, <1>3, <1>4, <1>5, RowOnly

\* The question is put to the person, or the app-server gets an error.
LEMMA OpenAskStep == ASSUME ApprovalInv, NEW r \in Requests, OpenAsk(r) PROVE ApprovalInv'
<1>1. /\ rq[r] \in RqRow /\ RowFine(rq[r], inter[r], said[r], grants)
      /\ rq[r].at = "asking"
      /\ UNCHANGED <<wheel, handovers, step, turn, turns, said, commands, future, grants, numbers>>
  BY RowIs DEF OpenAsk, At, turnVars
<1>2. rq[r].source = "none" /\ inter[r] = "none" /\ said[r] = "none"
  BY <1>1 DEF RowFine, Late
<1>3. PICK y : /\ \E a \in {"opened", "error"} : y = [rq[r] EXCEPT !.at = a] /\ rq' = [rq EXCEPT ![r].at = a]
               /\ \/ y = [rq[r] EXCEPT !.at = "opened"] /\ inter' = [inter EXCEPT ![r] = "pending"]
                  \/ y = [rq[r] EXCEPT !.at = "error"] /\ inter' = inter
  <2>1. CASE inter' = [inter EXCEPT ![r] = "pending"] /\ Go(r, "opened")
    BY <2>1 DEF Go
  <2>2. CASE Go(r, "error") /\ UNCHANGED <<ask, current, inter>>
    BY <2>2 DEF Go
  <2> QED BY <2>1, <2>2 DEF OpenAsk
<1>4. rq' = [rq EXCEPT ![r] = y]
  BY <1>3
<1>5. inter = [q \in Requests |-> inter[q]]
  BY DEF ApprovalInv, ApprovalShape
<1>6. /\ inter' = [q \in Requests |-> inter'[q]] /\ \A q \in Requests \ {r} : inter'[q] = inter[q]
      /\ y \in RqRow /\ y.at \in {"opened", "error"} /\ y.number = rq[r].number /\ y.source = "none"
      /\ inter'[r] # "none" => y.at = "opened"
  <2>1. CASE y = [rq[r] EXCEPT !.at = "opened"] /\ inter' = [inter EXCEPT ![r] = "pending"]
    BY <1>1, <1>2, <1>5, <2>1 DEF RqRow, Late
  <2>2. CASE y = [rq[r] EXCEPT !.at = "error"] /\ inter' = inter
    BY <1>1, <1>2, <1>5, <2>2 DEF RqRow, Early
  <2> QED BY <1>3, <2>1, <2>2
<1>7. RowFine(y, inter'[r], said[r], grants) /\ WordFine(y, rq, said)
  BY <1>1, <1>2, <1>6 DEF RowFine, WordFine, Late
<1>8. /\ future' \in [Numbers -> Requests \cup {NoRequest}]
      /\ commands' \in Seq(Interrupts \cup Responses)
      /\ \A i \in 1..Len(commands') : CommandFits(commands'[i], rq, said)
  BY <1>1 DEF ApprovalInv, ApprovalShape, CommandsFit
<1> QED BY <1>1, <1>4, <1>6, <1>7, <1>8, OneRequest

\* The handler waits on a future of its own number.
LEMMA RegisterStep == ASSUME ApprovalInv, NEW r \in Requests, Register(r) PROVE ApprovalInv'
<1>1. /\ rq[r] \in RqRow /\ RowFine(rq[r], inter[r], said[r], grants)
      /\ rq[r].at = "opened"
      /\ UNCHANGED <<wheel, handovers, step, turn, turns, inter, said, commands, grants, numbers>>
  BY RowIs DEF Register, At, threadVars, turnVars
<1>2. PICK y : y = [rq[r] EXCEPT !.at = "waiting"]
  OBVIOUS
<1>3. /\ y \in RqRow /\ y.at = "waiting" /\ y.number = rq[r].number /\ y.source = rq[r].source
  BY <1>1, <1>2 DEF RqRow, Late
<1>4. rq' = [rq EXCEPT ![r] = y] /\ future' = [future EXCEPT ![rq[r].number] = r]
  BY <1>2 DEF Register, Go
<1>5. RowFine(y, inter[r], said[r], grants) /\ WordFine(y, rq, said)
  BY <1>1, <1>3 DEF RowFine, WordFine, Late
<1>6. /\ future' \in [Numbers -> Requests \cup {NoRequest}]
      /\ \A n \in Numbers : future'[n] = future[n] \/ (future'[n] = r /\ n = y.number)
  BY <1>3, <1>4 DEF ApprovalInv, ApprovalShape
<1>7. /\ inter' = [q \in Requests |-> inter'[q]]
      /\ commands' \in Seq(Interrupts \cup Responses)
      /\ \A i \in 1..Len(commands') : CommandFits(commands'[i], rq, said)
  BY <1>1 DEF ApprovalInv, ApprovalShape, CommandsFit
<1> QED BY <1>1, <1>3, <1>4, <1>5, <1>6, <1>7, OneRequest

\* Whoever leaves the table takes the entry of its number along.
LEMMA Forgotten ==
  ASSUME ApprovalInv, NEW r \in Requests, Forget(r)
  PROVE  /\ future' \in [Numbers -> Requests \cup {NoRequest}]
         /\ \A n \in Numbers : future'[n] = future[n] \/ future'[n] = NoRequest
BY DEF ApprovalInv, ApprovalShape, Forget

\* An hour passes without an answer.
LEMMA ExpireStep == ASSUME ApprovalInv, NEW r \in Requests, Expire(r) PROVE ApprovalInv'
<1>1. /\ rq[r] \in RqRow /\ RowFine(rq[r], inter[r], said[r], grants)
      /\ rq[r].at = "waiting" /\ Forget(r)
      /\ UNCHANGED <<wheel, handovers, step, turn, turns, inter, said, commands, grants, numbers>>
  BY RowIs DEF Expire, At, threadVars, turnVars
<1>2. PICK y : y = [rq[r] EXCEPT !.at = "expired"]
  OBVIOUS
<1>3. /\ y \in RqRow /\ y.at = "expired" /\ y.number = rq[r].number /\ y.source = rq[r].source
  BY <1>1, <1>2 DEF RqRow, Late
<1>4. rq' = [rq EXCEPT ![r] = y]
  BY <1>2 DEF Expire, Go
<1>5. RowFine(y, inter[r], said[r], grants) /\ WordFine(y, rq, said)
  BY <1>1, <1>3 DEF RowFine, WordFine, Late
<1>6. /\ inter' = [q \in Requests |-> inter'[q]]
      /\ commands' \in Seq(Interrupts \cup Responses)
      /\ \A i \in 1..Len(commands') : CommandFits(commands'[i], rq, said)
  BY <1>1 DEF ApprovalInv, ApprovalShape, CommandsFit
<1> QED BY <1>1, <1>3, <1>4, <1>5, <1>6, Forgotten, OneRequest

\* The question is closed after that, if it is open still.
LEMMA CloseExpiredStep == ASSUME ApprovalInv, NEW r \in Requests, CloseExpired(r) PROVE ApprovalInv'
<1>1. /\ rq[r] \in RqRow /\ RowFine(rq[r], inter[r], said[r], grants)
      /\ rq[r].at = "expired"
      /\ UNCHANGED <<wheel, handovers, step, turn, turns, said, commands, future, grants, numbers>>
  BY RowIs DEF CloseExpired, At, turnVars
<1>2. PICK y : y = [rq[r] EXCEPT !.at = "closed"]
  OBVIOUS
<1>3. /\ y \in RqRow /\ y.at = "closed" /\ y.number = rq[r].number /\ y.source = rq[r].source
  BY <1>1, <1>2 DEF RqRow, Late
<1>4. rq' = [rq EXCEPT ![r] = y]
  BY <1>2 DEF CloseExpired, Go
<1>5. /\ inter' = [q \in Requests |-> inter'[q]] /\ \A q \in Requests \ {r} : inter'[q] = inter[q]
      /\ inter'[r] = inter[r] \/ inter'[r] = "consumed"
  <2>1. inter' = [inter EXCEPT ![r] = "consumed"] \/ inter' = inter
    BY DEF CloseExpired, Consume
  <2>2. inter = [q \in Requests |-> inter[q]]
    BY DEF ApprovalInv, ApprovalShape
  <2> QED BY <2>1, <2>2
<1>6. RowFine(y, inter'[r], said[r], grants) /\ WordFine(y, rq, said)
  BY <1>1, <1>3, <1>5 DEF RowFine, WordFine, Late
<1>7. /\ future' \in [Numbers -> Requests \cup {NoRequest}]
      /\ commands' \in Seq(Interrupts \cup Responses)
      /\ \A i \in 1..Len(commands') : CommandFits(commands'[i], rq, said)
  BY <1>1 DEF ApprovalInv, ApprovalShape, CommandsFit
<1> QED BY <1>1, <1>3, <1>4, <1>5, <1>6, <1>7, OneRequest

\* A wait ends: what the handler decides is what the person said, or a cancel.
LEMMA FinishStep ==
  ASSUME ApprovalInv, NEW r \in Requests, FinishApproval(r) \/ FinishQuestion(r) PROVE ApprovalInv'
<1>1. /\ rq[r] \in RqRow /\ RowFine(rq[r], inter[r], said[r], grants)
      /\ WordFine(rq[r], rq, said) /\ rq[r].at \in {"woken", "released", "closed"} /\ Close(r)
      /\ UNCHANGED <<wheel, handovers, step, turn, turns, inter, said, commands, numbers>>
  BY RowIs DEF FinishApproval, FinishQuestion, Close, threadVars
<1>2. PICK d \in Answers :
        /\ d = Decision(r)
        /\ d = "accept" => \E a \in {"accept", "accept_task"} : Told(rq[r].number, a, rq, said)
  <2>1. rq[r].answer \in Answers
    BY <1>1 DEF RqRow
  <2>2. Decision(r) \in Answers
    BY <2>1 DEF Decision, Answers
  <2>3. Decision(r) = "accept" => \E a \in {"accept", "accept_task"} : Told(rq[r].number, a, rq, said)
    BY <1>1 DEF Decision, At, WordFine
  <2> QED BY <2>2, <2>3
<1>3. PICK o \in {"user", "cancelled", "timeout"} : o = SourceOf(r)
  <2>1. CASE rq[r].at = "woken"
    BY <2>1 DEF SourceOf, At
  <2>2. CASE rq[r].at = "released"
    BY <2>2 DEF SourceOf, At
  <2>3. CASE rq[r].at = "closed"
    BY <2>3 DEF SourceOf, At
  <2> QED BY <1>1, <2>1, <2>2, <2>3
<1>4. PICK y : y = [rq[r] EXCEPT !.at = "done", !.answer = "none", !.decision = d, !.source = o]
  OBVIOUS
<1>5. /\ y \in RqRow /\ y.at = "done" /\ y.number = rq[r].number /\ y.source = o /\ y.decision = d
      /\ y.task = rq[r].task
  BY <1>1, <1>4 DEF RqRow, Late, Answers, Sources
<1>6. rq' = [rq EXCEPT ![r] = y]
  BY <1>1, <1>2, <1>3, <1>4 DEF Close
<1>7. /\ grants \subseteq grants'
      /\ \A g \in grants' : g \in grants
                            \/ (/\ g.from = r /\ y.at = "done" /\ y.task = g.task
                                /\ Told(y.number, "accept_task", rq, said))
  <2>1. grants' = grants \/ grants' = grants \cup GrantFrom(r)
    BY DEF FinishApproval, FinishQuestion
  <2>2. \A g \in GrantFrom(r) : /\ g.from = r /\ rq[r].task = g.task
                                /\ Told(rq[r].number, "accept_task", rq, said)
    BY <1>1 DEF GrantFrom, At, WordFine
  <2> QED BY <1>5, <2>1, <2>2
<1>8. RowFine(y, inter'[r], said[r], grants') /\ WordFine(y, rq, said)
  BY <1>1, <1>2, <1>5 DEF RowFine, WordFine, Late
<1>9. /\ future' \in [Numbers -> Requests \cup {NoRequest}]
      /\ \A n \in Numbers : future'[n] = future[n] \/ future'[n] = NoRequest
  <2>1. CASE Forget(r)
    BY <2>1, Forgotten
  <2>2. CASE UNCHANGED future
    BY <2>2 DEF ApprovalInv, ApprovalShape
  <2> QED BY <1>1, <2>1, <2>2 DEF Close
<1>10. /\ inter' = [q \in Requests |-> inter'[q]]
       /\ commands' \in Seq(Interrupts \cup Responses)
       /\ \A i \in 1..Len(commands') : CommandFits(commands'[i], rq, said)
  BY <1>1 DEF ApprovalInv, ApprovalShape, CommandsFit
<1>11. rq[r].at \notin {"none", "done"} /\ y.at # "none"
  BY <1>1, <1>5
<1>12. \A q \in Requests \ {r} : inter'[q] = inter[q]
  BY <1>1
<1>13. \A n \in Numbers : \/ future'[n] = future[n]
                          \/ future'[n] = NoRequest
                          \/ future'[n] = r /\ n = y.number
  BY <1>9
<1>14. UNCHANGED <<wheel, handovers, step, turn, turns, said, numbers>>
  BY <1>1
<1> QED BY <1>5, <1>6, <1>7, <1>8, <1>9, <1>10, <1>11, <1>12, <1>13, <1>14, OneRequest, Zenon

-----------------------------------------------------------------------------
(* The person, the commands, and what happens around the handlers. *)

\* A step that leaves the handlers alone keeps the invariant, when what it does to
\* interactions is to cancel open ones and what it sends is in order.
LEMMA Around ==
  ASSUME ApprovalInv,
         handovers' \in Nat, step' \in Steps \cup {1}, turn' \in [Drivers -> Nat], turns' \in Nat,
         inter' = [q \in Requests |-> inter'[q]],
         \A q \in Requests : inter'[q] = inter[q] \/ inter[q] = "pending",
         commands' \in Seq(Interrupts \cup Responses),
         \A i \in 1..Len(commands') : CommandFits(commands'[i], rq, said),
         numbers' \in Nat, UNCHANGED <<rq, said, future, grants>>
  PROVE  ApprovalInv'
<1>1. ApprovalShape'
  BY DEF ApprovalInv, ApprovalShape
<1>2. RowsFine'
  <2> SUFFICES ASSUME NEW q \in Requests PROVE RowFine(rq[q], inter'[q], said[q], grants)
    BY DEF RowsFine
  <2>1. RowFine(rq[q], inter[q], said[q], grants)
    BY DEF ApprovalInv, RowsFine
  <2>2. inter'[q] = inter[q] \/ (inter[q] = "pending" /\ said[q] = "none" /\ rq[q].at \in Late)
    BY <2>1 DEF RowFine
  <2> QED BY <2>1, <2>2 DEF RowFine
<1>3. WordsFine' /\ FuturesFit' /\ GrantsFit'
  BY DEF ApprovalInv, WordsFine, FuturesFit, GrantsFit
<1>4. CommandsFit'
  BY DEF CommandsFit
<1> QED BY <1>1, <1>2, <1>3, <1>4 DEF ApprovalInv

\* What an idle step needs to know.
LEMMA ShapeIs ==
  ASSUME ApprovalInv
  PROVE  /\ handovers \in Nat /\ step \in Steps \cup {1} /\ turn \in [Drivers -> Nat] /\ turns \in Nat
         /\ inter = [q \in Requests |-> inter[q]] /\ commands \in Seq(Interrupts \cup Responses)
         /\ numbers \in Nat /\ \A i \in 1..Len(commands) : CommandFits(commands[i], rq, said)
BY DEF ApprovalInv, ApprovalShape, CommandsFit

\* Turns begin and end, and the app-server dies with them.
LEMMA TurnsStep ==
  ASSUME ApprovalInv,
         ServerRestarts \/ \E d \in Drivers : StartTurn(d) \/ TurnEnds(d)
  PROVE  ApprovalInv'
<1>1. UNCHANGED <<handovers, inter, commands, rq, said, future, grants>>
  BY DEF ServerRestarts, StartTurn, TurnEnds, threadVars
<1>2. numbers' \in Nat
  BY ShapeIs DEF ServerRestarts, StartTurn, TurnEnds
<1>3. turns' \in Nat /\ turn' \in [Drivers -> Nat]
  <2>1. CASE ServerRestarts
    BY <2>1, ShapeIs DEF ServerRestarts
  <2>2. ASSUME NEW d \in Drivers, StartTurn(d) PROVE turns' \in Nat /\ turn' \in [Drivers -> Nat]
    <3>1. turns' \in Nat
      BY <2>2, ShapeIs DEF StartTurn
    <3>2. turn' = [turn EXCEPT ![d] = turns']
      BY <2>2 DEF StartTurn
    <3> QED BY <3>1, <3>2, ShapeIs
  <2>3. ASSUME NEW d \in Drivers, TurnEnds(d) PROVE turns' \in Nat /\ turn' \in [Drivers -> Nat]
    BY <2>3, ShapeIs DEF TurnEnds
  <2> QED BY <2>1, <2>2, <2>3
<1>4. step' \in Steps \cup {1}
  <2>1. CASE step' = step
    BY <2>1, ShapeIs
  <2>2. CASE step' \in Steps
    BY <2>2
  <2> QED BY <2>1, <2>2 DEF ServerRestarts, StartTurn, TurnEnds, threadVars
<1> QED BY <1>1, <1>2, <1>3, <1>4, ShapeIs, Around

\* The wheel goes to the expert, and back.
LEMMA WheelStep == ASSUME ApprovalInv, HandOver \/ TaskEnds PROVE ApprovalInv'
<1>1. UNCHANGED <<turn, turns, rq, said, future, grants, numbers>>
  BY DEF HandOver, TaskEnds, turnVars
<1>2. handovers' \in Nat /\ step' \in Steps \cup {1}
  BY ShapeIs DEF HandOver, TaskEnds
<1>3. /\ inter' = [q \in Requests |-> inter'[q]]
      /\ \A q \in Requests : inter'[q] = inter[q] \/ inter[q] = "pending"
  BY ShapeIs DEF HandOver, TaskEnds
<1>4. PICK c \in Interrupts : c = [kind |-> "interrupt"]
  BY DEF Interrupts
<1>5. c \in Interrupts \cup Responses /\ CommandFits(c, rq, said)
  BY <1>4 DEF CommandFits
<1>6. commands' = commands \/ commands' = Append(commands, c)
  BY <1>4 DEF HandOver, TaskEnds
<1>7. /\ commands' \in Seq(Interrupts \cup Responses)
      /\ \A i \in 1..Len(commands') : CommandFits(commands'[i], rq, said)
  <2>1. CommandsFit
    BY DEF ApprovalInv
  <2>2. CASE commands' = commands
    BY <2>2, ShapeIs
  <2>3. CASE commands' = Append(commands, c)
    BY <1>5, <2>1, <2>3, QueueMoves, ShapeIs
  <2> QED BY <1>6, <2>2, <2>3
<1> QED BY <1>1, <1>2, <1>3, <1>7, ShapeIs, Around

\* The app-server asks for a decision, under a number it has not given since it started.
LEMMA RequestStep ==
  ASSUME ApprovalInv, NEW r \in Requests, NEW d \in Drivers, NEW what \in Subjects[d], Request(r, d, what)
  PROVE  ApprovalInv'
<1>1. /\ rq \in [Requests -> RqRow] /\ rq[r].at = "none" /\ numbers \in Nat /\ turn[d] \in Nat
      /\ RowFine(rq[r], inter[r], said[r], grants)
  BY RowIs DEF ApprovalInv, ApprovalShape, Request, At
<1>2. UNCHANGED <<wheel, handovers, step, turn, turns, inter, said, commands, future, grants>>
      /\ numbers' = numbers + 1 /\ numbers < Cardinality(Requests)
  BY DEF Request, threadVars, turnVars
<1>3. numbers' \in Nat /\ numbers' \in Numbers
  BY <1>1, <1>2, NumbersRange
<1>4. PICK y : y = [Fresh EXCEPT !.at = "new", !.by = d, !.turn = turn[d], !.number = numbers', !.what = what]
  OBVIOUS
<1>5. what \in Subjects["user"] \cup Subjects["expert"] \cup {NoSubject}
  BY DEF Drivers
<1>6. y \in RqRow /\ y.at = "new" /\ y.number = numbers' /\ y.source = "none"
  <2>1. y = [at |-> "new", by |-> d, turn |-> turn[d], number |-> numbers', what |-> what,
             task |-> 0, drive |-> 0, step |-> 0, answer |-> "none", decision |-> "none", source |-> "none"]
    BY <1>4 DEF Fresh
  <2> QED BY <1>1, <1>3, <1>5, <2>1 DEF RqRow, Early, Answers, Sources
<1>7. rq' = [rq EXCEPT ![r] = y]
  BY <1>2, <1>4 DEF Request
<1>8. rq' \in [Requests -> RqRow] /\ rq'[r] = y /\ \A q \in Requests : q # r => rq'[q] = rq[q]
  BY <1>1, <1>6, <1>7
<1>9. inter[r] = "none" /\ said[r] = "none"
  BY <1>1 DEF RowFine, Late
<1>10. ApprovalShape'
  BY <1>2, <1>3, <1>8 DEF ApprovalInv, ApprovalShape
<1>11. RowsFine'
  <2> SUFFICES ASSUME NEW q \in Requests PROVE RowFine(rq'[q], inter[q], said[q], grants)
    BY <1>2 DEF RowsFine
  <2>1. CASE q = r
    <3>1. RowFine(y, inter[r], said[r], grants)
      BY <1>3, <1>6, <1>9 DEF RowFine
    <3> QED BY <1>8, <2>1, <3>1
  <2>2. CASE q # r
    <3>1. RowFine(rq[q], inter[q], said[q], grants) /\ rq'[q] = rq[q]
      BY <1>8, <2>2 DEF ApprovalInv, RowsFine
    <3> QED BY <3>1
  <2> QED BY <2>1, <2>2
<1>0. /\ \A q \in Requests : rq[q].at # "none" => rq'[q].at # "none" /\ rq'[q].number = rq[q].number
      /\ \A q \in Requests : said[q] # "none" => said'[q] = said[q]
  BY <1>1, <1>2, <1>8
<1>12. WordsFine'
  <2> SUFFICES ASSUME NEW q \in Requests PROVE WordFine(rq'[q], rq', said')
    BY DEF WordsFine
  <2>1. CASE q = r
    BY <1>6, <1>8, <2>1 DEF WordFine
  <2>2. CASE q # r
    <3>1. WordFine(rq[q], rq, said) /\ rq'[q] = rq[q]
      BY <1>8, <2>2 DEF ApprovalInv, WordsFine
    <3> QED BY <1>0, <3>1, WordsStay
  <2> QED BY <2>1, <2>2
<1>13. FuturesFit'
  BY <1>1, <1>2, <1>8 DEF ApprovalInv, FuturesFit
<1>14. CommandsFit'
  <2> SUFFICES ASSUME NEW i \in 1..Len(commands) PROVE CommandFits(commands[i], rq', said')
    BY <1>2 DEF CommandsFit
  <2>1. CommandFits(commands[i], rq, said)
    BY DEF ApprovalInv, CommandsFit
  <2> QED BY <1>0, <2>1, WordsStay
<1>15. GrantsFit'
  <2> SUFFICES ASSUME NEW g \in grants PROVE GrantFits(g, rq', said')
    BY <1>2 DEF GrantsFit
  <2>1. GrantFits(g, rq, said) /\ g.from \in Requests
    BY DEF ApprovalInv, GrantsFit, GrantFits
  <2>2. rq'[g.from].at = "done" /\ rq'[g.from].task = g.task
    BY <1>1, <1>8, <2>1 DEF GrantFits
  <2> QED BY <1>0, <2>1, <2>2, WordsStay
<1> QED BY <1>10, <1>11, <1>12, <1>13, <1>14, <1>15 DEF ApprovalInv

\* The person answers an open question: it is the only answer to it.
LEMMA AnswerStep ==
  ASSUME ApprovalInv, NEW r \in Requests, NEW d \in Offered(r), Answer(r, d) PROVE ApprovalInv'
<1>1. /\ UNCHANGED <<wheel, handovers, step, turn, turns, rq, future, grants, numbers>>
      /\ inter' = [inter EXCEPT ![r] = "consumed"] /\ said' = [said EXCEPT ![r] = d]
      /\ inter[r] = "pending"
  BY DEF Answer, Answerable, Consume, turnVars
<1>2. d \in Answers /\ d # "none"
  BY DEF Offered, Answers
<1>3. rq[r] \in RqRow /\ RowFine(rq[r], inter[r], said[r], grants) /\ rq[r].number \in Nat
  BY RowIs DEF RqRow
<1>4. said[r] = "none" /\ rq[r].at \in Late /\ rq[r].at # "none"
  BY <1>1, <1>3 DEF RowFine, Late
<1>5. /\ said' \in [Requests -> Answers] /\ said'[r] = d
      /\ inter' = [q \in Requests |-> inter'[q]] /\ inter'[r] = "consumed"
      /\ \A q \in Requests : q # r => said'[q] = said[q] /\ inter'[q] = inter[q]
  BY <1>1, <1>2 DEF ApprovalInv, ApprovalShape
<1>6. PICK c : c = [kind |-> "respond", number |-> rq[r].number, answer |-> d]
  OBVIOUS
<1>7. c \in Interrupts \cup Responses /\ CommandFits(c, rq, said')
  BY <1>2, <1>3, <1>4, <1>5, <1>6 DEF Responses, CommandFits, Told
<1>8. commands' = Append(commands, c)
  BY <1>6 DEF Answer
<1>9. commands' \in Seq(Interrupts \cup Responses)
  BY <1>7, <1>8, ShapeIs, QueueMoves DEF ApprovalInv
<1>0. /\ \A q \in Requests : rq[q].at # "none" => rq[q].at # "none" /\ rq[q].number = rq[q].number
      /\ \A q \in Requests : said[q] # "none" => said'[q] = said[q]
  BY <1>4, <1>5
<1>10. \A e : CommandFits(e, rq, said) => CommandFits(e, rq, said')
  BY <1>0, WordsStay
<1>11. CommandsFit'
  <2> SUFFICES ASSUME NEW i \in 1..Len(commands') PROVE CommandFits(commands'[i], rq, said')
    BY <1>1 DEF CommandsFit
  <2> DEFINE T == Interrupts \cup Responses
  <2> HIDE DEF T
  <2>1. commands \in Seq(T)
    BY ShapeIs DEF T
  <2>2. /\ Len(commands') = Len(commands) + 1 /\ commands'[Len(commands) + 1] = c
        /\ \A k \in 1..Len(commands) : commands'[k] = commands[k]
    BY <1>7, <1>8, <2>1 DEF T
  <2>3. i \in 1..Len(commands) \/ i = Len(commands) + 1
    BY <2>1, <2>2
  <2>4. CASE i \in 1..Len(commands)
    <3>1. CommandFits(commands[i], rq, said)
      BY <2>4 DEF ApprovalInv, CommandsFit
    <3> QED BY <1>10, <2>2, <2>4, <3>1
  <2>5. CASE i = Len(commands) + 1
    BY <1>7, <2>2, <2>5
  <2> QED BY <2>3, <2>4, <2>5
<1>12. ApprovalShape'
  BY <1>1, <1>5, <1>9 DEF ApprovalInv, ApprovalShape
<1>13. RowsFine'
  <2> SUFFICES ASSUME NEW q \in Requests PROVE RowFine(rq[q], inter'[q], said'[q], grants)
    BY <1>1 DEF RowsFine
  <2>1. RowFine(rq[q], inter[q], said[q], grants)
    BY DEF ApprovalInv, RowsFine
  <2>2. CASE q = r
    BY <1>4, <1>5, <2>1, <2>2 DEF RowFine
  <2>3. CASE q # r
    BY <1>5, <2>1, <2>3
  <2> QED BY <2>2, <2>3
<1>14. FuturesFit' /\ WordsFine'
  <2>1. FuturesFit'
    BY <1>1 DEF ApprovalInv, FuturesFit
  <2>2. \A x : WordFine(x, rq, said) => WordFine(x, rq, said')
    BY <1>0, WordsStay
  <2> QED BY <1>1, <2>1, <2>2 DEF ApprovalInv, WordsFine
<1>15. GrantsFit'
  <2> SUFFICES ASSUME NEW g \in grants PROVE GrantFits(g, rq, said')
    BY <1>1 DEF GrantsFit
  <2>1. GrantFits(g, rq, said)
    BY DEF ApprovalInv, GrantsFit
  <2>2. rq[g.from].at = "done" /\ rq[g.from].task = g.task
    BY <2>1 DEF GrantFits
  <2> QED BY <1>0, <2>1, <2>2, WordsStay
<1> QED BY <1>11, <1>12, <1>13, <1>14, <1>15 DEF ApprovalInv

\* A command wakes the request that waits under the number the person answered.
LEMMA DeliverAnswerStep == ASSUME ApprovalInv, DeliverAnswer PROVE ApprovalInv'
<1> DEFINE c == Head(commands)
           r == future[c.number]
<1>1. /\ UNCHANGED <<wheel, handovers, step, turn, turns, inter, said, future, grants, numbers>>
      /\ commands # <<>> /\ c.kind = "respond" /\ commands' = Tail(commands)
  BY DEF DeliverAnswer, threadVars, turnVars
<1>2. commands \in Seq(Interrupts \cup Responses) /\ CommandsFit
  BY ShapeIs DEF ApprovalInv
<1>3. /\ commands' \in Seq(Interrupts \cup Responses)
      /\ \A i \in 1..Len(commands') : CommandFits(commands'[i], rq, said)
  BY <1>1, <1>2, QueueMoves
<1>4. CommandFits(c, rq, said)
  <2> DEFINE T == Interrupts \cup Responses
  <2> HIDE DEF T
  <2>1. commands \in Seq(T)
    BY <1>2 DEF T
  <2>2. 1 \in 1..Len(commands) /\ Head(commands) = commands[1]
    BY <1>1, <2>1
  <2> QED BY <1>2, <2>2 DEF CommandsFit
<1>5. PICK q \in Requests : rq[q].at # "none" /\ rq[q].number = c.number /\ said[q] = c.answer /\ said[q] # "none"
  BY <1>1, <1>4 DEF CommandFits, Told
<1>6. c.number \in Numbers /\ said[q] \in Answers
  BY <1>5, RowIs DEF RowFine
<1>7. CASE r # NoRequest /\ At(r, "waiting")
           /\ rq' = [rq EXCEPT ![r].at = "woken", ![r].answer = Head(commands).answer]
  <2>1. r \in Requests /\ rq[r].at # "none" /\ rq[r].number = c.number
    BY <1>6, <1>7 DEF ApprovalInv, FuturesFit
  <2> HIDE DEF c, r
  <2>3. PICK y : y = [rq[r] EXCEPT !.at = "woken", !.answer = said[q]]
    OBVIOUS
  <2>4. rq[r] \in RqRow /\ RowFine(rq[r], inter[r], said[r], grants) /\ rq[r].at = "waiting"
    BY <1>7, <2>1, RowIs DEF At
  <2>5. /\ y \in RqRow /\ y.at = "woken" /\ y.number = rq[r].number /\ y.source = rq[r].source
        /\ y.answer = said[q]
    BY <1>6, <2>3, <2>4 DEF RqRow, Late
  <2>6. rq' = [rq EXCEPT ![r] = y]
    BY <1>5, <1>7, <2>3 DEF c
  <2>7. RowFine(y, inter[r], said[r], grants)
    BY <2>4, <2>5 DEF RowFine, Late
  <2>8. /\ inter' = [p \in Requests |-> inter'[p]] /\ future' \in [Numbers -> Requests \cup {NoRequest}]
    BY <1>1 DEF ApprovalInv, ApprovalShape
  <2>9. WordFine(y, rq, said)
    <3>1. Told(y.number, y.answer, rq, said)
      BY <1>5, <2>1, <2>5 DEF Told
    <3>2. y.source = "none"
      BY <2>4, <2>5 DEF RowFine
    <3> QED BY <3>1, <3>2 DEF WordFine
  <2> QED BY <1>1, <1>3, <2>1, <2>4, <2>5, <2>6, <2>7, <2>8, <2>9, OneRequest
<1>8. CASE rq' = rq
  BY <1>1, <1>3, <1>8, ShapeIs, Around
<1> QED BY <1>7, <1>8 DEF DeliverAnswer

\* An interrupt releases whoever waits.
LEMMA DeliverInterruptStep == ASSUME ApprovalInv, DeliverInterrupt PROVE ApprovalInv'
<1>1. /\ UNCHANGED <<wheel, handovers, step, turn, turns, inter, said, future, grants, numbers>>
      /\ commands # <<>> /\ commands' = Tail(commands)
  BY DEF DeliverInterrupt, threadVars, turnVars
<1>2. commands \in Seq(Interrupts \cup Responses) /\ CommandsFit
  BY ShapeIs DEF ApprovalInv
<1>3. /\ commands' \in Seq(Interrupts \cup Responses)
      /\ \A i \in 1..Len(commands') : CommandFits(commands'[i], rq, said)
  BY <1>1, <1>2, QueueMoves
<1>4. ASSUME NEW q \in Requests
      PROVE  /\ rq'[q] \in RqRow /\ rq'[q].number = rq[q].number /\ rq'[q].task = rq[q].task
             /\ rq'[q].at # "none" <=> rq[q].at # "none"
             /\ rq[q].at = "done" => rq'[q].at = "done"
             /\ RowFine(rq'[q], inter[q], said[q], grants) /\ WordFine(rq'[q], rq, said)
  <2>1. rq[q] \in RqRow /\ RowFine(rq[q], inter[q], said[q], grants) /\ WordFine(rq[q], rq, said)
    BY RowIs
  <2>2. CASE rq'[q] = rq[q]
    BY <2>1, <2>2
  <2>3. CASE rq[q].at = "waiting" /\ rq'[q] = [rq[q] EXCEPT !.at = "released"]
    <3>1. PICK y : y = [rq[q] EXCEPT !.at = "released"]
      OBVIOUS
    <3>2. /\ y \in RqRow /\ y.at = "released" /\ y.number = rq[q].number /\ y.source = rq[q].source
          /\ y.task = rq[q].task
      BY <2>1, <3>1 DEF RqRow, Late
    <3>3. RowFine(y, inter[q], said[q], grants) /\ WordFine(y, rq, said)
      BY <2>1, <2>3, <3>2 DEF RowFine, WordFine, Late
    <3>4. rq'[q] = y
      BY <2>3, <3>1
    <3> QED BY <2>3, <3>2, <3>3, <3>4
  <2>4. rq'[q] = IF Waits(q) THEN [rq[q] EXCEPT !.at = "released"] ELSE rq[q]
    BY DEF DeliverInterrupt
  <2> QED BY <2>2, <2>3, <2>4 DEF Waits, At
<1>5. rq' = [q \in Requests |-> rq'[q]]
  BY DEF DeliverInterrupt
<1>6. ApprovalShape'
  BY <1>1, <1>3, <1>4, <1>5 DEF ApprovalInv, ApprovalShape
<1>0. /\ \A q \in Requests : rq[q].at # "none" => rq'[q].at # "none" /\ rq'[q].number = rq[q].number
      /\ \A q \in Requests : said[q] # "none" => said'[q] = said[q]
  BY <1>1, <1>4
<1>11. /\ \A c : CommandFits(c, rq, said) => CommandFits(c, rq', said')
       /\ \A x : WordFine(x, rq, said) => WordFine(x, rq', said')
       /\ \A g : GrantFits(g, rq, said) /\ rq'[g.from].at = "done" /\ rq'[g.from].task = g.task
                => GrantFits(g, rq', said')
  BY <1>0, WordsStay
<1>7. RowsFine' /\ WordsFine'
  BY <1>1, <1>4, <1>11 DEF RowsFine, WordsFine
<1>8. FuturesFit'
  BY <1>1, <1>4 DEF ApprovalInv, FuturesFit
<1>9. CommandsFit'
  BY <1>3, <1>11 DEF CommandsFit
<1>10. GrantsFit'
  <2> SUFFICES ASSUME NEW g \in grants PROVE GrantFits(g, rq', said')
    BY <1>1 DEF GrantsFit
  <2>1. GrantFits(g, rq, said) /\ g.from \in Requests
    BY DEF ApprovalInv, GrantsFit, GrantFits
  <2>2. rq'[g.from].at = "done" /\ rq'[g.from].task = g.task
    BY <1>4, <2>1 DEF GrantFits
  <2> QED BY <1>11, <2>1, <2>2
<1> QED BY <1>6, <1>7, <1>8, <1>9, <1>10 DEF ApprovalInv

-----------------------------------------------------------------------------
(* Requests as a whole. *)

\* Every step keeps the invariant.
LEMMA NextApproval == ApprovalInv /\ [ApprovalNext]_approvalVars => ApprovalInv'
<1> SUFFICES ASSUME ApprovalInv, [ApprovalNext]_approvalVars PROVE ApprovalInv'
  OBVIOUS
<1>1. CASE \E d \in Drivers : StartTurn(d) \/ TurnEnds(d)
  BY <1>1, TurnsStep
<1>2. CASE \E r \in Requests, d \in Drivers : \E what \in Subjects[d] : Request(r, d, what)
  BY <1>2, RequestStep
<1>3. CASE \E r \in Requests : Handler(r)
  <2>1. PICK r \in Requests : Handler(r)
    BY <1>3
  <2> QED BY <2>1, LookStep, SettleStep, OpenAskStep, RegisterStep, ExpireStep, CloseExpiredStep,
             FinishStep DEF Handler
<1>4. CASE \E r \in Requests : \E d \in Offered(r) : Answer(r, d)
  BY <1>4, AnswerStep
<1>5. CASE DeliverAnswer
  BY <1>5, DeliverAnswerStep
<1>6. CASE DeliverInterrupt
  BY <1>6, DeliverInterruptStep
<1>7. CASE HandOver \/ TaskEnds
  BY <1>7, WheelStep
<1>8. CASE ServerRestarts
  BY <1>8, TurnsStep
<1>9. CASE UNCHANGED approvalVars
  <2>1. UNCHANGED <<wheel, handovers, step, turn, turns, rq, inter, said, commands, future, grants, numbers>>
    BY <1>9 DEF approvalVars, threadVars, turnVars
  <2> QED BY <2>1, ShapeIs, Around
<1> QED BY <1>1, <1>2, <1>3, <1>4, <1>5, <1>6, <1>7, <1>8, <1>9, Zenon DEF ApprovalNext

\* The inductive invariant of Approvals holds throughout (runner.py:560-1150), also
\* when a restarted app-server gives the number of an old request again: a future,
\* a command, the end of a wait and a grant belong to the number they were made for.
THEOREM ApprovalInvariant == ApprovalSpec => []ApprovalInv
<1>1. ApprovalInit => ApprovalInv BY InitApproval
<1>2. ApprovalInv /\ [ApprovalNext]_approvalVars => ApprovalInv' BY NextApproval
<1> QED BY <1>1, <1>2, PTL DEF ApprovalSpec

\* A grant that lets a request through comes from an earlier one of the same task and
\* the same kind, and the person answered so under its number (repository.py:2169,
\* tool_policy.py:166), for any number of requests, turns, handovers and restarts.
THEOREM GrantsAreGiven == ApprovalSpec => []GrantIsGiven
<1>1. ApprovalInv => GrantIsGiven
  <2> SUFFICES ASSUME ApprovalInv, NEW r \in Requests, rq[r].source = "task_grant"
               PROVE  \E g \in grants : /\ Heard(g.from, {"accept_task"}) /\ Covers(g, rq[r].what)
                                        /\ rq[g.from].task = rq[r].task
    BY DEF GrantIsGiven, By
  <2>1. PICK g \in grants : g.task = rq[r].task /\ Covers(g, rq[r].what)
    BY DEF ApprovalInv, RowsFine, RowFine
  <2>2. GrantFits(g, rq, said)
    BY DEF ApprovalInv, GrantsFit
  <2> QED BY <2>1, <2>2 DEF GrantFits, Told, Heard
<1> QED BY <1>1, ApprovalInvariant, PTL

\* What the app-server may do was accepted by the person under the number of this
\* request, unless policy or a grant said so (runner.py:786 and 1143): never out of
\* silence, of a cancel or of an interrupt, however often the app-server restarts.
THEOREM AcceptedByThemselves == ApprovalSpec => []AcceptedByThePerson
<1>1. ApprovalInv => AcceptedByThePerson
  <2> SUFFICES ASSUME ApprovalInv, NEW r \in Requests, rq[r].source # "none", rq[r].decision = "accept",
                      rq[r].source \notin {"policy", "task_grant"}
               PROVE  Heard(r, {"accept", "accept_task"})
    BY DEF AcceptedByThePerson, Decided, By
  <2>1. PICK a \in {"accept", "accept_task"} : Told(rq[r].number, a, rq, said)
    BY DEF ApprovalInv, WordsFine, WordFine
  <2> QED BY <2>1 DEF Told, Heard
<1> QED BY <1>1, ApprovalInvariant, PTL

=============================================================================
