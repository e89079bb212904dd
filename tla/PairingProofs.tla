---------------------------- MODULE PairingProofs ----------------------------
(* Theorems about the relay identity of a user and the pairing of machines      *)
(* with it (Provisioning.tla, Pairing.tla).                                     *)
EXTENDS Pairing, FiniteSetTheorems, TLAPS

-----------------------------------------------------------------------------
(* The inductive invariant, in parts. *)

OpKinds == {"idle", "provision", "rotate", "deprovision", "approve", "status"}
OpStages == {"idle", "identity", "register", "revoke", "upsert", "roll", "record", "delete", "write", "done"}
OpRows == [kind : OpKinds, at : OpStages, owner : Owners \cup {None}, token : Token, old : Token,
           seen : SandboxStatus, pairing : Pairings \cup {None}]

\* A pairing is being approved; the pair it minted is not stored yet.
Going(r) == r.kind = "approve" /\ r.at # "done"
\* A rotation has stored its pair and not revoked the one it replaces.
Leaving(r) == r.kind = "rotate" /\ r.at = "revoke"
Turning == {"revoke", "register", "roll", "record", "done"}

\* Which request stands at which await.
Stage(r) ==
    /\ r.kind \in {"rotate", "approve"} => r.at \in Turning
    /\ r.at \in {"revoke", "roll"} => r.kind \in {"rotate", "approve"}
    /\ r.at = "register" => r.kind \in {"provision", "rotate", "approve"}
    /\ r.at \in {"identity", "upsert"} => r.kind = "provision"
    /\ r.at = "delete" => r.kind = "deprovision"
    /\ r.at = "write" => r.kind = "status"
    /\ r.at = "record" => r.kind \in Exclusive
    /\ r.kind # "idle" => r.owner \in Owners
    /\ r.pairing # None <=> Going(r)

\* What a rotation or an approval has done so far.
Turns(r) ==
    /\ r.kind = "rotate" /\ r.at # "done" =>
          /\ identity[r.owner] = r.token /\ r.token \in minted \ revoked
          /\ r.at = "revoke" => r.old \in minted
    /\ Going(r) =>
          /\ identity[r.owner] = r.old /\ r.token \in minted \ revoked
          /\ r.at = "revoke" => r.old # None
          /\ r.at # "revoke" => r.old \in revoked \cup {None}
          /\ pairing[r.pairing].status = "pending"
    /\ r.kind \in {"rotate", "approve"} /\ r.at \in {"roll", "record"} => registered[r.owner] = r.token

Working == \A c \in Clients : Stage(op[c]) /\ Turns(op[c])

\* The advisory lock of an owner and the row lock of a pairing have one holder.
Alone ==
    \A c, d \in Clients :
        \/ op[c].kind \in Exclusive /\ op[d].kind \in Exclusive /\ op[c].owner = op[d].owner
        \/ op[c].pairing # None /\ op[c].pairing = op[d].pairing
        => c = d

\* No pair is at two places: stored for an owner, on its way to be, on its way out.
Unlike ==
    /\ \A o \in Owners : identity[o] \in minted \cup {None}
    /\ \A o, w \in Owners : identity[o] # None /\ identity[o] = identity[w] => o = w
    /\ \A c \in Clients : Going(op[c]) => \A o \in Owners : identity[o] # op[c].token
    /\ \A c \in Clients : Leaving(op[c]) => \A o \in Owners : identity[o] # op[c].old
    /\ \A c, d \in Clients : Going(op[c]) /\ Going(op[d]) /\ op[c].token = op[d].token => c = d
    /\ \A c, d \in Clients : Going(op[c]) /\ Leaving(op[d]) => op[c].token # op[d].old

Approved(p) == pairing[p].status = "approved"

\* A machine that waits for its token, or has it, shares it with no other.
Handing ==
    /\ \A p \in Pairings : Approved(p) => pairing[p].token \in minted
    /\ \A p \in Pairings : got[p] # None => got[p] \in minted /\ pairing[p].status = "delivered"
    /\ \A p, q \in Pairings : Approved(p) /\ Approved(q) /\ pairing[p].token = pairing[q].token => p = q
    /\ \A p, q \in Pairings : Approved(p) => got[q] # pairing[p].token
    /\ \A c \in Clients, p \in Pairings :
          Going(op[c]) => got[p] # op[c].token /\ (Approved(p) => pairing[p].token # op[c].token)

\* Until something fails, a pair that opens the relay is stored, about to be, or about to go.
OpenPairs ==
    faults = 0 => \A t \in minted \ revoked :
        \/ \E o \in Owners : identity[o] = t
        \/ \E c \in Clients : Going(op[c]) /\ op[c].token = t
        \/ \E c \in Clients : Leaving(op[c]) /\ op[c].old = t

PairingInv ==
    /\ PairingTypeOK /\ op \in [Clients -> OpRows]
    /\ Working /\ Alone /\ Unlike /\ Handing /\ OpenPairs

\* What a step does to FinishedIsUsable and to HandedOnce.
FinishStep ==
    \A c \in Clients : Finishes(c) =>
        LET o == op[c].owner IN
        identity'[o] # None /\ registered'[o] = identity'[o] /\ identity'[o] \notin revoked'

HandStep ==
    \A p \in Pairings : got'[p] # got[p] =>
        /\ got[p] = None /\ pairing[p].status = "approved" /\ p \notin due
        /\ pairing'[p].status = "delivered"
        /\ \A q \in Pairings \ {p} : got[q] # got'[p]

PairingRows == [status : PairingStatus, owner : Owners \cup {None}, token : Token]

-----------------------------------------------------------------------------
(* Facts about a state. *)

LEMMA Shapes ==
    ASSUME PairingInv
    PROVE  /\ identity \in [Owners -> Token] /\ registered \in [Owners -> Token]
           /\ minted \subseteq Tokens /\ revoked \subseteq minted
           /\ pod \in [Owners -> [status : PodStatus, token : Token]]
           /\ sandbox \in [Owners -> SandboxStatus]
           /\ keyed \subseteq Owners /\ faults \in 0..MaxFaults
           /\ op \in [Clients -> OpRows] /\ pairing \in [Pairings -> PairingRows]
           /\ due \subseteq Pairings /\ recent \subseteq Pairings /\ got \in [Pairings -> Token]
           /\ None \notin Tokens /\ None \notin Owners /\ None \notin Pairings
BY ProvisioningAssumption, PairingAssumption DEF PairingInv, PairingTypeOK, ProvTypeOK, PairingRows

LEMMA ShapesSuffice ==
    ASSUME identity' \in [Owners -> Token], registered' \in [Owners -> Token],
           minted' \subseteq Tokens, revoked' \subseteq minted',
           pod' \in [Owners -> [status : PodStatus, token : Token]],
           sandbox' \in [Owners -> SandboxStatus], keyed' \subseteq Owners, faults' \in 0..MaxFaults,
           op' \in [Clients -> OpRows], pairing' \in [Pairings -> PairingRows],
           due' \subseteq Pairings, recent' \subseteq Pairings, got' \in [Pairings -> Token]
    PROVE  PairingTypeOK' /\ (op \in [Clients -> OpRows])'
<1>1. \A c \in Clients : op'[c] \in OpRows OBVIOUS
<1>2. \A c \in Clients : /\ op'[c].owner \in Owners \cup {None} /\ op'[c].token \in Token
                         /\ op'[c].old \in Token /\ op'[c].seen \in SandboxStatus
    BY <1>1 DEF OpRows
<1> QED BY <1>2 DEF PairingTypeOK, ProvTypeOK, PairingRows

-----------------------------------------------------------------------------
(* Steps of a request that touch no token. *)

LEMMA QuietStep ==
    ASSUME PairingInv, NEW c \in Clients, NEW y \in OpRows, op' = [op EXCEPT ![c] = y],
           Stage(y), Turns(y),
           UNCHANGED <<identity, minted, registered, revoked, pairVars>>,
           \/ y.kind \notin Exclusive
           \/ op[c].kind \in Exclusive /\ op[c].owner = y.owner
           \/ ~Locked(y.owner),
           y.pairing \in {None, op[c].pairing},
           Going(y) => Going(op[c]) /\ y.token = op[c].token,
           ~Leaving(y),
           faults' = 0 => faults = 0 /\ ~Leaving(op[c]) /\ (Going(op[c]) => Going(y)),
           op[c].kind \in {"rotate", "approve"} /\ op[c].at # "done" /\ y.at = "done" =>
               op[c].kind = "rotate" /\ op[c].at = "record",
           pod' \in [Owners -> [status : PodStatus, token : Token]],
           sandbox' \in [Owners -> SandboxStatus], keyed' \subseteq Owners, faults' \in 0..MaxFaults
    PROVE  PairingInv' /\ FinishStep /\ HandStep
<1>1. /\ UNCHANGED <<identity, minted, registered, revoked, pairing, due, recent, got>>
      /\ op \in [Clients -> OpRows]
    BY Shapes DEF pairVars
<1>2. op' \in [Clients -> OpRows] /\ \A d \in Clients : op'[d] = IF d = c THEN y ELSE op[d]
    BY <1>1
<1>3. PairingTypeOK' /\ (op \in [Clients -> OpRows])'
  <2>1. /\ identity' \in [Owners -> Token] /\ registered' \in [Owners -> Token]
        /\ minted' \subseteq Tokens /\ revoked' \subseteq minted'
        /\ pairing' \in [Pairings -> PairingRows]
        /\ due' \subseteq Pairings /\ recent' \subseteq Pairings /\ got' \in [Pairings -> Token]
    BY <1>1, Shapes
  <2> QED BY <2>1, <1>2, ShapesSuffice
<1>4. Working'
  <2>1. \A d \in Clients : Stage(op'[d]) /\ Turns(op'[d]) BY <1>2 DEF PairingInv, Working
  <2> QED BY <2>1, <1>1 DEF Working, Stage, Turns, Going
<1>5. Alone'
  <2> SUFFICES ASSUME NEW d \in Clients, NEW e \in Clients, d # e,
                      \/ op'[d].kind \in Exclusive /\ op'[e].kind \in Exclusive /\ op'[d].owner = op'[e].owner
                      \/ op'[d].pairing # None /\ op'[d].pairing = op'[e].pairing
               PROVE  FALSE
    BY DEF Alone
  <2>1. CASE d # c /\ e # c BY <2>1, <1>2 DEF PairingInv, Alone
  <2>2. CASE d = c \/ e = c
    <3>1. PICK f \in Clients : f # c /\ {d, e} = {c, f} BY <2>2
    <3>2. op'[c] = y /\ op'[f] = op[f] BY <3>1, <1>2
    <3>3. \/ y.kind \in Exclusive /\ op[f].kind \in Exclusive /\ y.owner = op[f].owner
          \/ y.pairing # None /\ y.pairing = op[f].pairing
      BY <3>1, <3>2
    <3>4. CASE y.kind \in Exclusive /\ op[f].kind \in Exclusive /\ y.owner = op[f].owner
      BY <3>1, <3>4 DEF PairingInv, Alone, Locked
    <3>5. CASE y.pairing # None /\ y.pairing = op[f].pairing
      BY <3>1, <3>5 DEF PairingInv, Alone
    <3> QED BY <3>3, <3>4, <3>5
  <2> QED BY <2>1, <2>2
<1>6. \A d \in Clients : /\ Going(op'[d]) => Going(op[d]) /\ op'[d].token = op[d].token
                         /\ Leaving(op'[d]) => Leaving(op[d]) /\ op'[d].old = op[d].old
    BY <1>2
<1>7. Unlike' BY <1>1, <1>6 DEF PairingInv, Unlike, Going, Leaving
<1>8. Handing' BY <1>1, <1>6 DEF PairingInv, Handing, Approved, Going
<1>9. OpenPairs'
  <2> SUFFICES ASSUME faults' = 0, NEW t \in minted \ revoked
               PROVE  \/ \E o \in Owners : identity[o] = t
                      \/ \E d \in Clients : Going(op'[d]) /\ op'[d].token = t
                      \/ \E d \in Clients : Leaving(op'[d]) /\ op'[d].old = t
    BY <1>1 DEF OpenPairs, Going, Leaving
  <2>1. CASE \E o \in Owners : identity[o] = t BY <2>1
  <2>2. ASSUME NEW d \in Clients, Going(op[d]), op[d].token = t PROVE Going(op'[d]) /\ op'[d].token = t
    BY <2>2, <1>2
  <2>3. ASSUME NEW d \in Clients, Leaving(op[d]), op[d].old = t PROVE Leaving(op'[d]) /\ op'[d].old = t
    BY <2>3, <1>2
  <2> QED BY <2>1, <2>2, <2>3 DEF PairingInv, OpenPairs
<1>10. FinishStep
  <2> SUFFICES ASSUME NEW d \in Clients, Finishes(d)
               PROVE  /\ identity[op[d].owner] # None /\ registered[op[d].owner] = identity[op[d].owner]
                      /\ identity[op[d].owner] \notin revoked
    BY <1>1 DEF FinishStep
  <2>1. op[d].kind \in {"rotate", "approve"} /\ op[d].at # "done" /\ op'[d].at = "done" BY DEF Finishes, At
  <2>2. op[d].kind = "rotate" /\ op[d].at = "record" BY <2>1, <1>2
  <2>3. Turns(op[d]) BY DEF PairingInv, Working
  <2> QED BY <2>2, <2>3, Shapes DEF Turns
<1>11. HandStep BY <1>1 DEF HandStep
<1> QED BY <1>3, <1>4, <1>5, <1>7, <1>8, <1>9, <1>10, <1>11 DEF PairingInv

\* Steps that leave the requests and the tokens alone: a row nobody is approving is closed.
LEMMA RowStep ==
    ASSUME PairingInv, UNCHANGED <<identity, minted, registered, revoked, pod, sandbox, op, faults, got>>,
           keyed' \subseteq Owners, pairing' \in [Pairings -> PairingRows],
           due' \subseteq Pairings, recent' \subseteq Pairings,
           \A q \in Pairings : \/ pairing'[q] = pairing[q]
                               \/ /\ ~Held(q)
                                  /\ pairing'[q].status # "approved" /\ pairing[q].status # "delivered"
    PROVE  PairingInv' /\ FinishStep /\ HandStep
<1>1. PairingTypeOK' /\ (op \in [Clients -> OpRows])' BY Shapes, ShapesSuffice
<1>2. Working'
  <2>1. ASSUME NEW c \in Clients PROVE Stage(op[c]) /\ Turns(op[c]) /\ (Going(op[c]) => pairing'[op[c].pairing].status = "pending")
    <3>1. Stage(op[c]) /\ Turns(op[c]) BY DEF PairingInv, Working
    <3>2. Going(op[c]) => op[c].pairing \in Pairings /\ Held(op[c].pairing)
      BY <3>1, Shapes DEF Stage, OpRows, Held
    <3> QED BY <3>1, <3>2 DEF Turns
  <2> QED BY <2>1 DEF Working, Stage, Turns, Going
<1>3. (Alone /\ Unlike /\ OpenPairs)' BY DEF PairingInv, Alone, Unlike, OpenPairs, Going, Leaving
<1>4. Handing'
  <2>1. \A p \in Pairings : pairing'[p].status = "approved" => pairing'[p] = pairing[p] OBVIOUS
  <2>2. \A p \in Pairings : pairing[p].status = "delivered" => pairing'[p] = pairing[p] OBVIOUS
  <2> QED BY <2>1, <2>2 DEF PairingInv, Handing, Approved, Going
<1>5. FinishStep BY DEF FinishStep, Finishes, At
<1>6. HandStep BY DEF HandStep
<1> QED BY <1>1, <1>2, <1>3, <1>4, <1>5, <1>6 DEF PairingInv

-----------------------------------------------------------------------------
(* One await after another. *)

LEMMA RequestFacts ==
    ASSUME PairingInv, NEW c \in Clients
    PROVE  op[c] \in OpRows /\ Stage(op[c]) /\ Turns(op[c])
BY Shapes DEF PairingInv, Working

\* A request is accepted while nobody holds the lock of its owner, or needs no lock.
LEMMA AskedStep ==
    ASSUME PairingInv, NEW c \in Clients, NEW o \in Owners, NEW y \in OpRows, op' = [op EXCEPT ![c] = y],
           <<y.kind, y.at>> \in {<<"provision", "identity">>, <<"deprovision", "delete">>, <<"status", "write">>},
           y.owner = o, y.pairing = None,
           Free(c), y.kind = "status" \/ ~Locked(o),
           UNCHANGED <<identity, minted, registered, revoked, pod, sandbox, keyed, faults, pairVars>>
    PROVE  PairingInv' /\ FinishStep /\ HandStep
<1>4. op[c].kind = "idle" BY DEF Free, Blank
<1>5. Stage(y) BY DEF Stage, Going, Turning, Exclusive
<1>6. Turns(y) BY DEF Turns, Going
<1>7. ~Going(y) /\ ~Leaving(y) /\ ~Going(op[c]) /\ ~Leaving(op[c]) BY <1>4 DEF Going, Leaving
<1>8. y.kind \notin Exclusive \/ ~Locked(y.owner) BY DEF Exclusive
<1> QED BY <1>4, <1>5, <1>6, <1>7, <1>8, QuietStep, Shapes

LEMMA AskProvisionStep ==
    ASSUME PairingInv, UNCHANGED pairVars, NEW c \in Clients, NEW o \in Owners, AskProvision(c, o)
    PROVE  PairingInv' /\ FinishStep /\ HandStep
<1>1. PICK y : y = [Blank EXCEPT !.kind = "provision", !.at = "identity", !.owner = o]
    OBVIOUS
<1>2. /\ y \in OpRows /\ y.kind = "provision" /\ y.at = "identity" /\ y.owner = o /\ y.pairing = None
    BY <1>1 DEF Blank, OpRows, OpKinds, OpStages, SandboxStatus, PodStatus, Token
<1>3. /\ op' = [op EXCEPT ![c] = y] /\ Free(c) /\ ~Locked(o)
      /\ UNCHANGED <<identity, minted, registered, revoked, pod, sandbox, keyed, faults, pairVars>>
    BY <1>1 DEF AskProvision
<1> QED BY <1>2, <1>3, AskedStep

LEMMA AskDeprovisionStep ==
    ASSUME PairingInv, UNCHANGED pairVars, NEW c \in Clients, NEW o \in Owners, AskDeprovision(c, o)
    PROVE  PairingInv' /\ FinishStep /\ HandStep
<1>1. PICK y : y = [Blank EXCEPT !.kind = "deprovision", !.at = "delete", !.owner = o]
    OBVIOUS
<1>2. /\ y \in OpRows /\ y.kind = "deprovision" /\ y.at = "delete" /\ y.owner = o /\ y.pairing = None
    BY <1>1 DEF Blank, OpRows, OpKinds, OpStages, SandboxStatus, PodStatus, Token
<1>3. /\ op' = [op EXCEPT ![c] = y] /\ Free(c) /\ ~Locked(o)
      /\ UNCHANGED <<identity, minted, registered, revoked, pod, sandbox, keyed, faults, pairVars>>
    BY <1>1 DEF AskDeprovision
<1> QED BY <1>2, <1>3, AskedStep

LEMMA AskStatusStep ==
    ASSUME PairingInv, UNCHANGED pairVars, NEW c \in Clients, NEW o \in Owners, AskStatus(c, o)
    PROVE  PairingInv' /\ FinishStep /\ HandStep
<1>1. PICK y : y = [Blank EXCEPT !.kind = "status", !.at = "write", !.owner = o, !.seen = pod[o].status]
    OBVIOUS
<1>2. /\ y \in OpRows /\ y.kind = "status" /\ y.at = "write" /\ y.owner = o /\ y.pairing = None
    BY <1>1, Shapes DEF Blank, OpRows, OpKinds, OpStages, SandboxStatus, PodStatus, Token
<1>3. /\ op' = [op EXCEPT ![c] = y] /\ Free(c)
      /\ UNCHANGED <<identity, minted, registered, revoked, pod, sandbox, keyed, faults, pairVars>>
    BY <1>1 DEF AskStatus
<1> QED BY <1>2, <1>3, AskedStep

\* A request goes on to its next await; the owner and the pairing stay, a token that is not a
\* rotation's or an approval's may be set.
LEMMA OnwardStep ==
    ASSUME PairingInv, NEW c \in Clients, NEW at \in OpStages, NEW seen \in SandboxStatus,
           op' = [op EXCEPT ![c].at = at, ![c].seen = seen],
           UNCHANGED <<identity, minted, registered, revoked, keyed, faults, pairVars>>,
           <<op[c].at, at>> \in {<<"upsert", "record">>, <<"roll", "record">>, <<"delete", "record">>,
                                 <<"record", "done">>, <<"write", "done">>},
           at = "done" => op[c].kind # "approve",
           pod' \in [Owners -> [status : PodStatus, token : Token]], sandbox' \in [Owners -> SandboxStatus]
    PROVE  PairingInv' /\ FinishStep /\ HandStep
<1>1. PICK y : y = [op[c] EXCEPT !.at = at, !.seen = seen] OBVIOUS
<1>2. op[c] \in OpRows /\ Stage(op[c]) /\ Turns(op[c]) BY RequestFacts
<1>3. /\ y \in OpRows /\ y.kind = op[c].kind /\ y.at = at /\ y.owner = op[c].owner /\ y.token = op[c].token
      /\ y.old = op[c].old /\ y.pairing = op[c].pairing
    BY <1>1, <1>2 DEF OpRows
<1>4. op' = [op EXCEPT ![c] = y] BY <1>1, Shapes
<1>5. Going(y) <=> Going(op[c]) BY <1>2, <1>3 DEF Going, Stage
<1>6. Stage(y) BY <1>2, <1>3, <1>5 DEF Stage, Turning, Exclusive
<1>7. Turns(y) BY <1>2, <1>3, <1>5 DEF Turns, Going, Stage
<1>8. ~Leaving(y) /\ ~Leaving(op[c]) BY <1>3 DEF Leaving
<1>9. \/ y.kind \notin Exclusive
      \/ op[c].kind \in Exclusive /\ op[c].owner = y.owner
    BY <1>3
<1>10. op[c].kind \in {"rotate", "approve"} /\ op[c].at # "done" /\ y.at = "done" =>
           op[c].kind = "rotate" /\ op[c].at = "record"
    BY <1>2, <1>3 DEF Stage
<1>11. keyed' \subseteq Owners /\ faults' \in 0..MaxFaults BY Shapes
<1> QED BY <1>3, <1>4, <1>5, <1>6, <1>7, <1>8, <1>9, <1>10, <1>11, QuietStep

\* As above, where the answer seen is not a new one.
LEMMA GoStep ==
    ASSUME PairingInv, NEW c \in Clients, NEW at \in OpStages, Go(c, at),
           UNCHANGED <<identity, minted, registered, revoked, keyed, faults, pairVars>>,
           <<op[c].at, at>> \in {<<"upsert", "record">>, <<"roll", "record">>, <<"delete", "record">>,
                                 <<"record", "done">>, <<"write", "done">>},
           at = "done" => op[c].kind # "approve",
           pod' \in [Owners -> [status : PodStatus, token : Token]], sandbox' \in [Owners -> SandboxStatus]
    PROVE  PairingInv' /\ FinishStep /\ HandStep
<1>1. PICK seen : seen = op[c].seen OBVIOUS
<1>2. op[c] \in OpRows BY RequestFacts
<1>3. seen \in SandboxStatus /\ [op[c] EXCEPT !.at = at] = [op[c] EXCEPT !.at = at, !.seen = seen]
    BY <1>1, <1>2 DEF OpRows
<1>4. op' = [op EXCEPT ![c].at = at, ![c].seen = seen] BY <1>3, Shapes DEF Go
<1> QED BY <1>3, <1>4, OnwardStep

LEMMA UpsertedStep ==
    ASSUME PairingInv, UNCHANGED pairVars, NEW c \in Clients, Upserted(c), op[c].at \in {"upsert", "roll"},
           UNCHANGED <<identity, minted, registered, revoked, sandbox, keyed, faults>>
    PROVE  PairingInv' /\ FinishStep /\ HandStep
<1>1. op[c] \in OpRows BY RequestFacts
<1>2. [status |-> "up", token |-> op[c].token] \in [status : PodStatus, token : Token]
    BY <1>1 DEF OpRows, PodStatus
<1>3. pod' \in [Owners -> [status : PodStatus, token : Token]] BY <1>2, Shapes DEF Upserted
<1>4. op' = [op EXCEPT ![c].at = "record", ![c].seen = "up"] BY DEF Upserted
<1>5. "record" \in OpStages /\ "up" \in SandboxStatus BY DEF OpStages, SandboxStatus, PodStatus
<1>6. sandbox' \in [Owners -> SandboxStatus] BY Shapes
<1> QED BY <1>3, <1>4, <1>5, <1>6, OnwardStep

LEMMA UpsertStep ==
    ASSUME PairingInv, UNCHANGED pairVars, NEW c \in Clients, Upsert(c)
    PROVE  PairingInv' /\ FinishStep /\ HandStep
BY UpsertedStep DEF Upsert, At

LEMMA RollStep ==
    ASSUME PairingInv, UNCHANGED pairVars, NEW c \in Clients, Roll(c)
    PROVE  PairingInv' /\ FinishStep /\ HandStep
<1>1. /\ op[c].at = "roll" /\ UNCHANGED <<identity, minted, registered, revoked, sandbox, keyed, faults>>
      /\ Upserted(c) \/ (Go(c, "record") /\ pod' = pod)
    BY DEF Roll, At
<1>2. CASE Upserted(c) BY <1>1, <1>2, UpsertedStep
<1>3. CASE Go(c, "record") /\ pod' = pod
  <2>1. "record" \in OpStages BY DEF OpStages
  <2>2. pod' \in [Owners -> [status : PodStatus, token : Token]] /\ sandbox' \in [Owners -> SandboxStatus]
    BY <1>1, <1>3, Shapes
  <2> QED BY <1>1, <1>3, <2>1, <2>2, GoStep
<1> QED BY <1>1, <1>2, <1>3

LEMMA DeleteStep ==
    ASSUME PairingInv, UNCHANGED pairVars, NEW c \in Clients, Delete(c)
    PROVE  PairingInv' /\ FinishStep /\ HandStep
<1>1. [status |-> "absent", token |-> None] \in [status : PodStatus, token : Token] BY DEF PodStatus, Token
<1>2. pod' \in [Owners -> [status : PodStatus, token : Token]] BY <1>1, Shapes DEF Delete
<1>3. op' = [op EXCEPT ![c].at = "record", ![c].seen = "deleted"] /\ op[c].at = "delete" BY DEF Delete, At
<1>4. "record" \in OpStages /\ "deleted" \in SandboxStatus BY DEF OpStages, SandboxStatus
<1>5. sandbox' \in [Owners -> SandboxStatus] BY Shapes DEF Delete
<1>6. UNCHANGED <<identity, minted, registered, revoked, keyed, faults, pairVars>> BY DEF Delete
<1> QED BY <1>2, <1>3, <1>4, <1>5, <1>6, OnwardStep

LEMMA WrittenShape ==
    ASSUME PairingInv, NEW o, NEW s \in SandboxStatus
    PROVE  Written(o, s) \in [Owners -> SandboxStatus]
BY Shapes DEF Written

LEMMA RecordStep ==
    ASSUME PairingInv, UNCHANGED pairVars, NEW c \in Clients, Record(c)
    PROVE  PairingInv' /\ FinishStep /\ HandStep
<1>1. /\ Go(c, "done") /\ op[c].at = "record" /\ op[c].kind # "approve"
      /\ UNCHANGED <<identity, minted, registered, revoked, pod, keyed, faults>>
      /\ sandbox' = Written(op[c].owner, op[c].seen)
    BY DEF Record, At
<1>2. op[c].seen \in SandboxStatus BY RequestFacts DEF OpRows
<1>3. sandbox' \in [Owners -> SandboxStatus] BY <1>1, <1>2, WrittenShape
<1>4. "done" \in OpStages BY DEF OpStages
<1>5. pod' \in [Owners -> [status : PodStatus, token : Token]] BY <1>1, Shapes
<1> QED BY <1>1, <1>3, <1>4, <1>5, GoStep

LEMMA WriteStatusStep ==
    ASSUME PairingInv, UNCHANGED pairVars, NEW c \in Clients, WriteStatus(c)
    PROVE  PairingInv' /\ FinishStep /\ HandStep
<1>1. PICK o : o = op[c].owner OBVIOUS
<1>2. /\ Go(c, "done") /\ op[c].at = "write"
      /\ UNCHANGED <<identity, minted, registered, revoked, pod, keyed, faults>>
      /\ sandbox' = IF sandbox[o] = "none" THEN sandbox ELSE [sandbox EXCEPT ![o] = op[c].seen]
    BY <1>1 DEF WriteStatus, At
<1>3. op[c].seen \in SandboxStatus /\ op[c].kind # "approve" BY <1>2, RequestFacts DEF OpRows, Stage
<1>4. sandbox' \in [Owners -> SandboxStatus] BY <1>2, <1>3, Shapes
<1>5. "done" \in OpStages BY DEF OpStages
<1>6. pod' \in [Owners -> [status : PodStatus, token : Token]] BY <1>2, Shapes
<1> QED BY <1>2, <1>3, <1>4, <1>5, <1>6, GoStep

\* A request is over, answered or failed.
LEMMA OverStep ==
    ASSUME PairingInv, UNCHANGED pairVars, NEW c \in Clients, op' = [op EXCEPT ![c] = Blank],
           UNCHANGED <<identity, minted, registered, revoked, pod, sandbox, keyed>>,
           op[c].at = "done" \/ faults' # 0, faults' \in 0..MaxFaults, faults' = 0 => faults = 0
    PROVE  PairingInv' /\ FinishStep /\ HandStep
<1>1. /\ Blank \in OpRows /\ Blank.kind = "idle" /\ Blank.at = "idle" /\ Blank.pairing = None
    BY DEF Blank, OpRows, OpKinds, OpStages, SandboxStatus, PodStatus, Token
<1>2. Stage(Blank) /\ Turns(Blank) /\ ~Going(Blank) /\ ~Leaving(Blank) /\ Blank.kind \notin Exclusive
    BY <1>1 DEF Stage, Turns, Going, Leaving, Exclusive
<1>3. op[c].at = "done" => ~Going(op[c]) /\ ~Leaving(op[c]) BY DEF Going, Leaving
<1>4. Blank.at # "done" BY <1>1
<1> QED BY <1>1, <1>2, <1>3, <1>4, QuietStep, Shapes

LEMMA ReplyStep ==
    ASSUME PairingInv, UNCHANGED pairVars, NEW c \in Clients, Reply(c)
    PROVE  PairingInv' /\ FinishStep /\ HandStep
BY OverStep, Shapes DEF Reply, At

LEMMA FailStep ==
    ASSUME PairingInv, UNCHANGED pairVars, NEW c \in Clients, Fail(c)
    PROVE  PairingInv' /\ FinishStep /\ HandStep
<1>1. /\ op' = [op EXCEPT ![c] = Blank] /\ UNCHANGED <<identity, minted, registered, revoked, pod, sandbox, keyed>>
      /\ faults < MaxFaults /\ faults' = faults + 1
    BY DEF Fail
<1>2. faults \in Nat /\ MaxFaults \in Nat BY Shapes, ProvisioningAssumption
<1>3. faults' \in 0..MaxFaults /\ faults' # 0 BY <1>1, <1>2
<1> QED BY <1>1, <1>3, OverStep

LEMMA CredentialStep ==
    ASSUME PairingInv, UNCHANGED pairVars, NEW o \in Owners, AddCredential(o) \/ RevokeCredential(o)
    PROVE  PairingInv' /\ FinishStep /\ HandStep
<1>1. /\ UNCHANGED <<identity, minted, registered, revoked, pod, sandbox, op, faults>>
      /\ keyed' \subseteq Owners
    BY Shapes DEF AddCredential, RevokeCredential
<1>2. UNCHANGED <<pairing, due, recent, got>> BY DEF pairVars
<1> QED BY <1>1, <1>2, RowStep, Shapes

-----------------------------------------------------------------------------
(* Steps that mint, store, revoke or register a pair. *)

\* What an action says of the requests, and what is left of the invariant to show.
LEMMA OneRequest ==
    ASSUME PairingInv, NEW c \in Clients, NEW y \in OpRows, op' = [op EXCEPT ![c] = y]
    PROVE  op' \in [Clients -> OpRows] /\ \A d \in Clients : op'[d] = IF d = c THEN y ELSE op[d]
BY Shapes

LEMMA HeldIsPending ==
    ASSUME PairingInv, NEW c \in Clients, op[c].pairing # None
    PROVE  Going(op[c]) /\ op[c].pairing \in Pairings /\ pairing[op[c].pairing].status = "pending"
BY RequestFacts DEF Stage, Turns, OpRows

\* The lock of the owner keeps every other rotation and approval away from it.
LEMMA Others ==
    ASSUME PairingInv, NEW c \in Clients, op[c].kind \in Exclusive
    PROVE  \A d \in Clients \ {c} : op[d].kind \in Exclusive => op[d].owner # op[c].owner
BY DEF PairingInv, Alone

LEMMA IssueStep ==
    ASSUME PairingInv, UNCHANGED pairVars, NEW c \in Clients, Issue(c)
    PROVE  PairingInv' /\ FinishStep /\ HandStep
<1>1. PICK o : o = op[c].owner OBVIOUS
<1>2. op[c] \in OpRows /\ Stage(op[c]) /\ op[c].at = "identity" BY RequestFacts DEF Issue, At
<1>3. op[c].kind = "provision" /\ o \in Owners BY <1>1, <1>2 DEF Stage
<1>4. UNCHANGED <<registered, revoked, pod, sandbox, keyed, faults, pairing, due, recent, got>>
    BY DEF Issue, pairVars
<1>5. ASSUME NEW t \in Token, op' = [op EXCEPT ![c].at = "register", ![c].token = t]
      PROVE  \E y \in OpRows : /\ op' = [op EXCEPT ![c] = y]
                               /\ y.kind = "provision" /\ y.at = "register" /\ y.owner = o /\ y.pairing = op[c].pairing
  <2>1. PICK y : y = [op[c] EXCEPT !.at = "register", !.token = t] OBVIOUS
  <2>2. y \in OpRows /\ y.kind = "provision" /\ y.at = "register" /\ y.owner = o /\ y.pairing = op[c].pairing
    BY <1>1, <1>2, <1>3, <2>1 DEF OpRows, OpStages
  <2>3. op' = [op EXCEPT ![c] = y] BY <1>5, <2>1, Shapes
  <2> QED BY <2>2, <2>3
<1>6. ASSUME identity[o] # None, op' = [op EXCEPT ![c].at = "register", ![c].token = identity[o]],
             UNCHANGED <<identity, minted>>
      PROVE  PairingInv' /\ FinishStep /\ HandStep
  <2>1. identity[o] \in Token BY <1>3, Shapes
  <2>2. PICK y \in OpRows : /\ op' = [op EXCEPT ![c] = y]
                            /\ y.kind = "provision" /\ y.at = "register" /\ y.owner = o /\ y.pairing = op[c].pairing
    BY <1>5, <1>6, <2>1
  <2>3. Stage(y) BY <1>2, <1>3, <2>2 DEF Stage, Going, Exclusive
  <2>4. Turns(y) /\ ~Going(y) /\ ~Leaving(y) /\ ~Going(op[c]) /\ ~Leaving(op[c]) BY <1>3, <2>2 DEF Turns, Going, Leaving
  <2>5. op[c].kind \in Exclusive /\ op[c].owner = y.owner BY <1>1, <1>3, <2>2 DEF Exclusive
  <2>6. UNCHANGED pairVars OBVIOUS
  <2>7. y.at # "done" /\ y.pairing \in {None, op[c].pairing} BY <2>2
  <2>8. /\ pod' \in [Owners -> [status : PodStatus, token : Token]] /\ sandbox' \in [Owners -> SandboxStatus]
        /\ keyed' \subseteq Owners /\ faults' \in 0..MaxFaults
    BY <1>4, Shapes
  <2> QED BY <1>4, <1>6, <2>2, <2>3, <2>4, <2>5, <2>6, <2>7, <2>8, QuietStep
<1>7. ASSUME identity[o] = None, NEW t \in Tokens \ minted, minted' = minted \cup {t},
             identity' = [identity EXCEPT ![o] = t], op' = [op EXCEPT ![c].at = "register", ![c].token = t]
      PROVE  PairingInv' /\ FinishStep /\ HandStep
  <2>1. t \in Token BY DEF Token
  <2>2. PICK y \in OpRows : /\ op' = [op EXCEPT ![c] = y]
                            /\ y.kind = "provision" /\ y.at = "register" /\ y.owner = o /\ y.pairing = op[c].pairing
    BY <1>5, <1>7, <2>1
  <2>3. op' \in [Clients -> OpRows] /\ \A d \in Clients : op'[d] = IF d = c THEN y ELSE op[d]
    BY <2>2, OneRequest
  <2>4. identity' \in [Owners -> Token] /\ \A w \in Owners : identity'[w] = IF w = o THEN t ELSE identity[w]
    BY <1>3, <1>7, <2>1, Shapes
  <2>5. PairingTypeOK' /\ (op \in [Clients -> OpRows])'
    <3>1. minted' \subseteq Tokens /\ revoked' \subseteq minted' BY <1>4, <1>7, Shapes
    <3> QED BY <1>4, <2>3, <2>4, <3>1, Shapes, ShapesSuffice
  <2>6. \A d \in Clients : /\ op'[d].kind = op[d].kind /\ op'[d].owner = op[d].owner /\ op'[d].pairing = op[d].pairing
                           /\ d = c \/ op'[d] = op[d]
    BY <1>1, <1>3, <2>2, <2>3
  <2>7. Stage(y) BY <1>2, <1>3, <2>2 DEF Stage, Going, Exclusive
  <2>8. Working'
    <3>1. ASSUME NEW d \in Clients, d # c PROVE Stage(op[d]) /\ Turns(op[d]) /\ (op[d].kind \in Exclusive => op[d].owner # o)
      BY <1>1, <1>3, <3>1, RequestFacts, Others DEF Exclusive
    <3>2. \A d \in Clients : Stage(op'[d]) BY <2>3, <2>7, <3>1
    <3>3. \A d \in Clients \ {c} : op[d].kind \in {"rotate", "approve"} => identity'[op[d].owner] = identity[op[d].owner]
      BY <2>4, <3>1 DEF Stage, Exclusive
    <3>4. ASSUME NEW d \in Clients PROVE Turns(op[d])'
      <4>1. CASE d = c BY <4>1, <2>2, <2>3 DEF Turns, Going
      <4>2. CASE d # c
        <5>1. op'[d] = op[d] /\ Turns(op[d]) BY <4>2, <2>3, <3>1
        <5> QED BY <5>1, <3>3, <4>2, <1>4, <1>7 DEF Turns, Going
      <4> QED BY <4>1, <4>2
    <3> QED BY <3>2, <3>4 DEF Working, Stage, Going
  <2>9. Alone' BY <2>6 DEF PairingInv, Alone
  <2>10. \A d \in Clients : /\ Going(op'[d]) => Going(op[d]) /\ op'[d] = op[d]
                            /\ Leaving(op'[d]) => Leaving(op[d]) /\ op'[d] = op[d]
    BY <2>2, <2>3 DEF Going, Leaving
  <2>11. \A d \in Clients : /\ Going(op[d]) => op[d].token \in minted
                            /\ Leaving(op[d]) => op[d].old \in minted
    BY RequestFacts DEF Turns, Going, Leaving
  <2>12. Unlike'
    <3>1. t \notin minted /\ t # None BY Shapes
    <3>2. \A w, v \in Owners : identity'[w] # None /\ identity'[w] = identity'[v] => w = v
      BY <2>4, <3>1 DEF PairingInv, Unlike
    <3>3. \A w \in Owners : identity'[w] \in minted' \cup {None} BY <1>7, <2>4 DEF PairingInv, Unlike
    <3>4. \A d \in Clients : Going(op'[d]) => \A w \in Owners : identity'[w] # op'[d].token
      BY <2>4, <2>10, <2>11, <3>1 DEF PairingInv, Unlike
    <3>5. \A d \in Clients : Leaving(op'[d]) => \A w \in Owners : identity'[w] # op'[d].old
      BY <2>4, <2>10, <2>11, <3>1 DEF PairingInv, Unlike
    <3>6. /\ \A d, e \in Clients : Going(op'[d]) /\ Going(op'[e]) /\ op'[d].token = op'[e].token => d = e
          /\ \A d, e \in Clients : Going(op'[d]) /\ Leaving(op'[e]) => op'[d].token # op'[e].old
      BY <2>10 DEF PairingInv, Unlike
    <3> QED BY <3>2, <3>3, <3>4, <3>5, <3>6 DEF Unlike, Going, Leaving
  <2>13. Handing'
    <3>1. \A d \in Clients : Going(op'[d]) => Going(op[d]) /\ op'[d].token = op[d].token BY <2>10
    <3> QED BY <1>4, <1>7, <3>1 DEF PairingInv, Handing, Approved, Going
  <2>14. OpenPairs'
    <3> SUFFICES ASSUME faults = 0, NEW z \in minted' \ revoked
                 PROVE  \/ \E w \in Owners : identity'[w] = z
                        \/ \E d \in Clients : Going(op'[d]) /\ op'[d].token = z
                        \/ \E d \in Clients : Leaving(op'[d]) /\ op'[d].old = z
      BY <1>4 DEF OpenPairs, Going, Leaving
    <3>1. CASE z = t BY <3>1, <1>3, <2>4
    <3>2. CASE z # t
      <4>1. z \in minted \ revoked /\ z # None BY <3>2, <1>7, Shapes
      <4>2. \/ \E w \in Owners : identity[w] = z
            \/ \E d \in Clients : Going(op[d]) /\ op[d].token = z
            \/ \E d \in Clients : Leaving(op[d]) /\ op[d].old = z
        BY <4>1 DEF PairingInv, OpenPairs
      <4>3. \A d \in Clients : Going(op[d]) \/ Leaving(op[d]) => op'[d] = op[d]
        BY <1>3, <2>3 DEF Going, Leaving
      <4> QED BY <4>1, <4>2, <4>3, <2>4, <1>7
    <3> QED BY <3>1, <3>2
  <2>15. FinishStep BY <2>2, <2>3, <2>6 DEF FinishStep, Finishes, At
  <2>16. HandStep BY <1>4 DEF HandStep
  <2> QED BY <2>5, <2>8, <2>9, <2>12, <2>13, <2>14, <2>15, <2>16 DEF PairingInv
<1> QED BY <1>1, <1>6, <1>7 DEF Issue

LEMMA AskRotateStep ==
    ASSUME PairingInv, UNCHANGED pairVars, NEW c \in Clients, NEW o \in Owners, NEW t \in Tokens \ minted,
           AskRotate(c, o, t)
    PROVE  PairingInv' /\ FinishStep /\ HandStep
<1>1. PICK y : y = [Blank EXCEPT !.kind = "rotate", !.at = "revoke", !.owner = o, !.token = t, !.old = identity[o]]
    OBVIOUS
<1>2. /\ op' = [op EXCEPT ![c] = y] /\ Free(c) /\ ~Locked(o) /\ identity[o] # None
      /\ minted' = minted \cup {t} /\ identity' = [identity EXCEPT ![o] = t]
      /\ UNCHANGED <<registered, revoked, pod, sandbox, keyed, faults, pairing, due, recent, got>>
    BY <1>1 DEF AskRotate, pairVars
<1>3. t \in Token /\ t \notin minted /\ t # None /\ identity[o] \in Token BY Shapes DEF Token
<1>4. /\ y \in OpRows /\ y.kind = "rotate" /\ y.at = "revoke" /\ y.owner = o /\ y.pairing = None
      /\ y.token = t /\ y.old = identity[o]
    BY <1>1, <1>3 DEF Blank, OpRows, OpKinds, OpStages, SandboxStatus, Token
<1>5. op' \in [Clients -> OpRows] /\ \A d \in Clients : op'[d] = IF d = c THEN y ELSE op[d]
    BY <1>2, <1>4, OneRequest
<1>6. identity' \in [Owners -> Token] /\ \A w \in Owners : identity'[w] = IF w = o THEN t ELSE identity[w]
    BY <1>2, <1>3, Shapes
<1>7. PairingTypeOK' /\ (op \in [Clients -> OpRows])'
  <2>1. minted' \subseteq Tokens /\ revoked' \subseteq minted' BY <1>2, Shapes
  <2> QED BY <1>2, <1>5, <1>6, <2>1, Shapes, ShapesSuffice
<1>8. \A d \in Clients : op[d].kind \in Exclusive => op[d].owner # o BY <1>2 DEF Locked
<1>9. op[c].kind = "idle" /\ op[c].pairing = None BY <1>2 DEF Free, Blank
<1>10. identity[o] \in minted BY <1>2 DEF PairingInv, Unlike
<1>11. Working'
  <2>1. Stage(y) BY <1>4 DEF Stage, Going, Turning, Exclusive
  <2>2. ASSUME NEW d \in Clients, d # c PROVE Stage(op[d]) /\ Turns(op[d]) BY RequestFacts
  <2>3. \A d \in Clients : Stage(op'[d]) BY <1>5, <2>1, <2>2
  <2>4. \A d \in Clients \ {c} : op[d].kind \in {"rotate", "approve"} => identity'[op[d].owner] = identity[op[d].owner]
    BY <1>6, <1>8, <2>2 DEF Stage, Exclusive
  <2>5. ASSUME NEW d \in Clients PROVE Turns(op[d])'
    <3>1. CASE d = c
      <4>1. op'[d] = y /\ t \in minted' \ revoked BY <3>1, <1>2, <1>3, <1>5, Shapes
      <4> QED BY <4>1, <1>2, <1>4, <1>6, <1>10 DEF Turns, Going
    <3>2. CASE d # c
      <4>1. op'[d] = op[d] /\ Turns(op[d]) BY <3>2, <1>5, <2>2
      <4> QED BY <4>1, <2>4, <3>2, <1>2 DEF Turns, Going
    <3> QED BY <3>1, <3>2
  <2> QED BY <2>3, <2>5 DEF Working, Stage, Going
<1>12. Alone'
  <2> SUFFICES ASSUME NEW d \in Clients, NEW e \in Clients, d # e,
                      \/ op'[d].kind \in Exclusive /\ op'[e].kind \in Exclusive /\ op'[d].owner = op'[e].owner
                      \/ op'[d].pairing # None /\ op'[d].pairing = op'[e].pairing
               PROVE  FALSE
    BY DEF Alone
  <2> QED BY <1>4, <1>5, <1>8 DEF PairingInv, Alone
<1>13. \A d \in Clients : /\ Going(op'[d]) => Going(op[d]) /\ d # c /\ op'[d] = op[d]
                          /\ Leaving(op'[d]) => d = c \/ (Leaving(op[d]) /\ op'[d] = op[d])
    BY <1>4, <1>5 DEF Going, Leaving
<1>14. \A d \in Clients : /\ Going(op[d]) => op[d].token \in minted
                          /\ Leaving(op[d]) => op[d].old \in minted
    BY RequestFacts DEF Turns, Going, Leaving
<1>15. op'[c] = y BY <1>5
<1>16. Unlike'
  <2>1. \A w, v \in Owners : identity'[w] # None /\ identity'[w] = identity'[v] => w = v
    BY <1>3, <1>6 DEF PairingInv, Unlike
  <2>2. \A w \in Owners : identity'[w] \in minted' \cup {None} BY <1>2, <1>6 DEF PairingInv, Unlike
  <2>3. \A d \in Clients : Going(op'[d]) => \A w \in Owners : identity'[w] # op'[d].token
    BY <1>3, <1>6, <1>13, <1>14 DEF PairingInv, Unlike
  <2>4. ASSUME NEW d \in Clients, Leaving(op'[d]), NEW w \in Owners PROVE identity'[w] # op'[d].old
    <3>1. CASE d = c BY <3>1, <1>2, <1>3, <1>4, <1>6, <1>10, <1>15 DEF PairingInv, Unlike
    <3>2. CASE d # c BY <3>2, <2>4, <1>3, <1>6, <1>13, <1>14 DEF PairingInv, Unlike
    <3> QED BY <3>1, <3>2
  <2>5. \A d, e \in Clients : Going(op'[d]) /\ Going(op'[e]) /\ op'[d].token = op'[e].token => d = e
    BY <1>13 DEF PairingInv, Unlike
  <2>6. ASSUME NEW d \in Clients, NEW e \in Clients, Going(op'[d]), Leaving(op'[e]) PROVE op'[d].token # op'[e].old
    <3>1. CASE e = c BY <3>1, <2>6, <1>4, <1>13, <1>15 DEF PairingInv, Unlike
    <3>2. CASE e # c BY <3>2, <2>6, <1>13 DEF PairingInv, Unlike
    <3> QED BY <3>1, <3>2
  <2> QED BY <2>1, <2>2, <2>3, <2>4, <2>5, <2>6 DEF Unlike, Going, Leaving
<1>17. Handing'
  <2>1. \A d \in Clients : Going(op'[d]) => Going(op[d]) /\ op'[d].token = op[d].token BY <1>13
  <2> QED BY <1>2, <2>1 DEF PairingInv, Handing, Approved, Going
<1>18. OpenPairs'
  <2> SUFFICES ASSUME faults = 0, NEW z \in minted' \ revoked
               PROVE  \/ \E w \in Owners : identity'[w] = z
                      \/ \E d \in Clients : Going(op'[d]) /\ op'[d].token = z
                      \/ \E d \in Clients : Leaving(op'[d]) /\ op'[d].old = z
    BY <1>2 DEF OpenPairs, Going, Leaving
  <2>1. CASE z = t BY <2>1, <1>6
  <2>2. CASE z # t
    <3>1. z \in minted \ revoked BY <2>2, <1>2
    <3>2. \/ \E w \in Owners : identity[w] = z
          \/ \E d \in Clients : Going(op[d]) /\ op[d].token = z
          \/ \E d \in Clients : Leaving(op[d]) /\ op[d].old = z
      BY <3>1 DEF PairingInv, OpenPairs
    <3>3. \A d \in Clients : Going(op[d]) \/ Leaving(op[d]) => op'[d] = op[d]
      BY <1>5, <1>9 DEF Going, Leaving
    <3>4. Leaving(op'[c]) /\ op'[c].old = identity[o] BY <1>4, <1>15 DEF Leaving
    <3>5. CASE \E w \in Owners : identity[w] = z
      <4>1. PICK w \in Owners : identity[w] = z BY <3>5
      <4>2. CASE w = o BY <4>1, <4>2, <3>4
      <4>3. CASE w # o BY <4>1, <4>3, <1>6
      <4> QED BY <4>2, <4>3
    <3> QED BY <3>2, <3>3, <3>5
  <2> QED BY <2>1, <2>2
<1>19. FinishStep BY <1>4, <1>5 DEF FinishStep, Finishes, At
<1>20. HandStep BY <1>2 DEF HandStep
<1> QED BY <1>7, <1>11, <1>12, <1>16, <1>17, <1>18, <1>19, <1>20 DEF PairingInv

LEMMA RevokeStep ==
    ASSUME PairingInv, UNCHANGED pairVars, NEW c \in Clients, Revoke(c)
    PROVE  PairingInv' /\ FinishStep /\ HandStep
<1>1. PICK y : y = [op[c] EXCEPT !.at = "register"] OBVIOUS
<1>2. PICK u : u = op[c].old OBVIOUS
<1>3. /\ op[c].at = "revoke" /\ op' = [op EXCEPT ![c].at = "register"] /\ revoked' = revoked \cup {u}
      /\ UNCHANGED <<identity, minted, registered, pod, sandbox, keyed, faults, pairing, due, recent, got>>
    BY <1>2 DEF Revoke, At, Go, pairVars
<1>4. op[c] \in OpRows /\ Stage(op[c]) /\ Turns(op[c]) BY RequestFacts
<1>5. /\ y \in OpRows /\ y.kind = op[c].kind /\ y.at = "register" /\ y.owner = op[c].owner
      /\ y.pairing = op[c].pairing /\ y.token = op[c].token /\ y.old = u
    BY <1>1, <1>2, <1>4 DEF OpRows, OpStages
<1>6. op' = [op EXCEPT ![c] = y] BY <1>1, <1>3, Shapes
<1>7. op' \in [Clients -> OpRows] /\ \A d \in Clients : op'[d] = IF d = c THEN y ELSE op[d]
    BY <1>5, <1>6, OneRequest
<1>8. op[c].kind \in {"rotate", "approve"} /\ op[c].owner \in Owners BY <1>3, <1>4 DEF Stage
<1>9. u \in minted
  <2>1. CASE op[c].kind = "rotate" BY <2>1, <1>2, <1>3, <1>4 DEF Turns
  <2>2. CASE op[c].kind = "approve"
    <3>1. identity[op[c].owner] = u /\ u # None BY <2>2, <1>2, <1>3, <1>4 DEF Turns, Going
    <3> QED BY <3>1, <1>8 DEF PairingInv, Unlike
  <2> QED BY <1>8, <2>1, <2>2
<1>10. PairingTypeOK' /\ (op \in [Clients -> OpRows])'
  <2>1. minted' \subseteq Tokens /\ revoked' \subseteq minted' BY <1>3, <1>9, Shapes
  <2> QED BY <1>3, <1>7, <2>1, Shapes, ShapesSuffice
<1>11. ASSUME NEW d \in Clients, op[d].kind \in {"rotate", "approve"}, op[d].at # "done"
       PROVE  op[d].token # u
  <2>1. op[d].kind = "rotate" => identity[op[d].owner] = op[d].token /\ op[d].owner \in Owners
    BY <1>11, RequestFacts DEF Turns, Stage
  <2>2. op[d].kind = "approve" => Going(op[d]) BY <1>11 DEF Going
  <2>3. CASE op[c].kind = "rotate"
    <3>1. Leaving(op[c]) BY <2>3, <1>3 DEF Leaving
    <3> QED BY <2>1, <2>2, <3>1, <1>2, <1>11 DEF PairingInv, Unlike
  <2>4. CASE op[c].kind = "approve"
    <3>1. identity[op[c].owner] = u /\ u # None BY <2>4, <1>2, <1>3, <1>4 DEF Turns, Going
    <3>2. CASE op[d].kind = "approve" BY <3>1, <3>2, <2>2, <1>8 DEF PairingInv, Unlike
    <3>3. CASE op[d].kind = "rotate"
      <4>1. d # c BY <2>4, <3>3
      <4>2. op[d].owner # op[c].owner BY <4>1, <2>4, <3>3, Others DEF Exclusive
      <4> QED BY <3>1, <3>3, <4>2, <2>1, <1>8 DEF PairingInv, Unlike
    <3> QED BY <1>11, <3>2, <3>3
  <2> QED BY <1>8, <2>3, <2>4
<1>12. op'[c] = y BY <1>7
<1>13. Working'
  <2>1. Stage(y) BY <1>3, <1>4, <1>5, <1>8 DEF Stage, Going, Turning, Exclusive
  <2>2. ASSUME NEW d \in Clients PROVE Stage(op[d]) /\ Turns(op[d]) BY RequestFacts
  <2>3. \A d \in Clients : Stage(op'[d]) BY <1>7, <2>1, <2>2
  <2>4. ASSUME NEW d \in Clients PROVE Turns(op[d])'
    <3>1. CASE d = c BY <3>1, <1>2, <1>3, <1>4, <1>5, <1>8, <1>11, <1>12 DEF Turns, Going
    <3>2. CASE d # c
      <4>1. op'[d] = op[d] /\ Turns(op[d]) BY <3>2, <1>7, <2>2
      <4> QED BY <4>1, <1>3, <1>11 DEF Turns, Going
    <3> QED BY <3>1, <3>2
  <2> QED BY <2>3, <2>4 DEF Working, Stage, Going
<1>14. Alone'
  <2>1. \A d \in Clients : op'[d].kind = op[d].kind /\ op'[d].owner = op[d].owner /\ op'[d].pairing = op[d].pairing
    BY <1>5, <1>7
  <2> QED BY <2>1 DEF PairingInv, Alone
<1>15. \A d \in Clients : /\ Going(op'[d]) <=> Going(op[d])
                          /\ op'[d].token = op[d].token /\ op'[d].old = op[d].old
                          /\ Leaving(op'[d]) => Leaving(op[d])
                          /\ d # c => op'[d] = op[d]
    BY <1>2, <1>3, <1>5, <1>7 DEF Going, Leaving
<1>16. Unlike' BY <1>3, <1>15 DEF PairingInv, Unlike, Going, Leaving
<1>17. Handing' BY <1>3, <1>15 DEF PairingInv, Handing, Approved, Going
<1>18. OpenPairs'
  <2> SUFFICES ASSUME faults = 0, NEW z \in minted \ revoked, z # u
               PROVE  \/ \E w \in Owners : identity[w] = z
                      \/ \E d \in Clients : Going(op'[d]) /\ op'[d].token = z
                      \/ \E d \in Clients : Leaving(op'[d]) /\ op'[d].old = z
    BY <1>3 DEF OpenPairs, Going, Leaving
  <2>1. \A d \in Clients : Leaving(op[d]) /\ op[d].old = z => op'[d] = op[d] BY <1>2, <1>15
  <2> QED BY <2>1, <1>15 DEF PairingInv, OpenPairs
<1>19. FinishStep BY <1>5, <1>7 DEF FinishStep, Finishes, At
<1>20. HandStep BY <1>3 DEF HandStep
<1> QED BY <1>10, <1>13, <1>14, <1>16, <1>17, <1>18, <1>19, <1>20 DEF PairingInv

LEMMA RegisterStep ==
    ASSUME PairingInv, UNCHANGED pairVars, NEW c \in Clients, Register(c)
    PROVE  PairingInv' /\ FinishStep /\ HandStep
<1>1. PICK at : at = IF op[c].kind = "provision" THEN "upsert" ELSE "roll" OBVIOUS
<1>2. PICK y : y = [op[c] EXCEPT !.at = at] OBVIOUS
<1>3. /\ op[c].at = "register" /\ op' = [op EXCEPT ![c].at = at]
      /\ registered' = [registered EXCEPT ![op[c].owner] = op[c].token]
      /\ UNCHANGED <<identity, minted, revoked, pod, sandbox, keyed, faults, pairing, due, recent, got>>
    BY <1>1 DEF Register, At, Go, pairVars
<1>4. op[c] \in OpRows /\ Stage(op[c]) /\ Turns(op[c]) BY RequestFacts
<1>5. op[c].kind \in {"provision", "rotate", "approve"} /\ op[c].owner \in Owners /\ op[c].token \in Token
    BY <1>3, <1>4 DEF Stage, OpRows
<1>6. /\ y \in OpRows /\ y.kind = op[c].kind /\ y.at = at /\ y.owner = op[c].owner
      /\ y.pairing = op[c].pairing /\ y.token = op[c].token /\ y.old = op[c].old
    BY <1>1, <1>2, <1>4 DEF OpRows, OpStages
<1>7. op' = [op EXCEPT ![c] = y] BY <1>2, <1>3, Shapes
<1>8. op' \in [Clients -> OpRows] /\ \A d \in Clients : op'[d] = IF d = c THEN y ELSE op[d]
    BY <1>6, <1>7, OneRequest
<1>9. registered' \in [Owners -> Token] /\ \A w \in Owners : registered'[w] = IF w = op[c].owner THEN op[c].token ELSE registered[w]
    BY <1>3, <1>5, Shapes
<1>10. PairingTypeOK' /\ (op \in [Clients -> OpRows])' BY <1>3, <1>8, <1>9, Shapes, ShapesSuffice
<1>11. op'[c] = y BY <1>8
<1>12. Working'
  <2>1. Stage(y) BY <1>1, <1>3, <1>4, <1>5, <1>6 DEF Stage, Going, Turning, Exclusive
  <2>2. ASSUME NEW d \in Clients PROVE Stage(op[d]) /\ Turns(op[d]) BY RequestFacts
  <2>3. \A d \in Clients : Stage(op'[d]) BY <1>8, <2>1, <2>2
  <2>4. ASSUME NEW d \in Clients PROVE Turns(op[d])'
    <3>1. CASE d = c
      BY <3>1, <1>1, <1>3, <1>4, <1>5, <1>6, <1>9, <1>11 DEF Turns, Going
    <3>2. CASE d # c
      <4>1. op'[d] = op[d] /\ Turns(op[d]) /\ Stage(op[d]) BY <3>2, <1>8, <2>2
      <4>2. op[d].kind \in {"rotate", "approve"} => op[d].owner # op[c].owner /\ op[d].owner \in Owners
        BY <3>2, <4>1, <1>5, Others DEF Exclusive, Stage
      <4>3. op[d].kind \in {"rotate", "approve"} => registered'[op[d].owner] = registered[op[d].owner]
        BY <4>2, <1>9
      <4> QED BY <4>1, <4>3, <1>3 DEF Turns, Going
    <3> QED BY <3>1, <3>2
  <2> QED BY <2>3, <2>4 DEF Working, Stage, Going
<1>13. Alone'
  <2>1. \A d \in Clients : op'[d].kind = op[d].kind /\ op'[d].owner = op[d].owner /\ op'[d].pairing = op[d].pairing
    BY <1>6, <1>8
  <2> QED BY <2>1 DEF PairingInv, Alone
<1>14. \A d \in Clients : /\ Going(op'[d]) <=> Going(op[d])
                          /\ op'[d].token = op[d].token /\ op'[d].old = op[d].old
                          /\ Leaving(op'[d]) <=> Leaving(op[d])
    BY <1>1, <1>3, <1>6, <1>8 DEF Going, Leaving
<1>15. Unlike' BY <1>3, <1>14 DEF PairingInv, Unlike, Going, Leaving
<1>16. Handing' BY <1>3, <1>14 DEF PairingInv, Handing, Approved, Going
<1>17. OpenPairs' BY <1>3, <1>14 DEF PairingInv, OpenPairs, Going, Leaving
<1>18. FinishStep BY <1>1, <1>6, <1>8 DEF FinishStep, Finishes, At
<1>19. HandStep BY <1>3 DEF HandStep
<1> QED BY <1>10, <1>12, <1>13, <1>15, <1>16, <1>17, <1>18, <1>19 DEF PairingInv

-----------------------------------------------------------------------------
(* A pairing is approved, and its token fetched. *)

LEMMA ApproveStep ==
    ASSUME PairingInv, NEW c \in Clients, NEW o \in Owners, NEW p \in Pairings, NEW t \in Tokens \ minted,
           Approve(c, o, p, t)
    PROVE  PairingInv' /\ FinishStep /\ HandStep
<1>1. PICK y : y = [Blank EXCEPT !.kind = "approve", !.owner = o, !.pairing = p, !.token = t,
                                 !.old = identity[o],
                                 !.at = IF identity[o] = None THEN "register" ELSE "revoke"]
    OBVIOUS
<1>2. /\ op' = [op EXCEPT ![c] = y] /\ Free(c) /\ ~Locked(o) /\ minted' = minted \cup {t}
      /\ pairing[p].status = "pending" /\ ~Held(p)
      /\ UNCHANGED <<identity, registered, revoked, pod, sandbox, keyed, faults, pairing, due, recent, got>>
    BY <1>1 DEF Approve, Decidable, pairVars
<1>3. t \in Token /\ t \notin minted /\ t # None /\ identity[o] \in Token /\ p # None BY Shapes DEF Token
<1>4. /\ y \in OpRows /\ y.kind = "approve" /\ y.owner = o /\ y.pairing = p
      /\ y.at = (IF identity[o] = None THEN "register" ELSE "revoke")
      /\ y.token = t /\ y.old = identity[o]
    BY <1>1, <1>3 DEF Blank, OpRows, OpKinds, OpStages, SandboxStatus, Token
<1>5. op' \in [Clients -> OpRows] /\ \A d \in Clients : op'[d] = IF d = c THEN y ELSE op[d]
    BY <1>2, <1>4, OneRequest
<1>6. PairingTypeOK' /\ (op \in [Clients -> OpRows])'
  <2>1. minted' \subseteq Tokens /\ revoked' \subseteq minted' BY <1>2, Shapes
  <2> QED BY <1>2, <1>5, <2>1, Shapes, ShapesSuffice
<1>7. op[c].kind = "idle" /\ op[c].pairing = None BY <1>2 DEF Free, Blank
<1>8. op'[c] = y BY <1>5
<1>9. Working'
  <2>1. Stage(y) BY <1>3, <1>4 DEF Stage, Going, Turning, Exclusive
  <2>2. ASSUME NEW d \in Clients PROVE Stage(op[d]) /\ Turns(op[d]) BY RequestFacts
  <2>3. \A d \in Clients : Stage(op'[d]) BY <1>5, <2>1, <2>2
  <2>4. ASSUME NEW d \in Clients PROVE Turns(op[d])'
    <3>1. CASE d = c
      <4>1. t \in minted' \ revoked BY <1>2, <1>3, Shapes
      <4> QED BY <3>1, <4>1, <1>2, <1>4, <1>8 DEF Turns, Going
    <3>2. CASE d # c
      <4>1. op'[d] = op[d] /\ Turns(op[d]) BY <3>2, <1>5, <2>2
      <4> QED BY <4>1, <1>2 DEF Turns, Going
    <3> QED BY <3>1, <3>2
  <2> QED BY <2>3, <2>4 DEF Working, Stage, Going
<1>10. Alone'
  <2> SUFFICES ASSUME NEW d \in Clients, NEW e \in Clients, d # e,
                      \/ op'[d].kind \in Exclusive /\ op'[e].kind \in Exclusive /\ op'[d].owner = op'[e].owner
                      \/ op'[d].pairing # None /\ op'[d].pairing = op'[e].pairing
               PROVE  FALSE
    BY DEF Alone
  <2>1. \A f \in Clients : (op[f].kind \in Exclusive => op[f].owner # o) /\ op[f].pairing # p
    BY <1>2 DEF Locked, Held
  <2> QED BY <1>4, <1>5, <2>1 DEF PairingInv, Alone
<1>11. \A d \in Clients : /\ d # c => op'[d] = op[d]
                          /\ ~Going(op[c]) /\ ~Leaving(op[c]) /\ Going(op'[c]) /\ ~Leaving(op'[c])
    BY <1>4, <1>5, <1>7 DEF Going, Leaving
<1>12. \A d \in Clients : /\ Going(op[d]) => op[d].token \in minted
                          /\ Leaving(op[d]) => op[d].old \in minted
    BY RequestFacts DEF Turns, Going, Leaving
<1>13. \A w \in Owners : identity[w] \in minted \cup {None} BY DEF PairingInv, Unlike
<1>14. op'[c].token = t BY <1>4, <1>8
<1>15. Unlike'
  <2>1. /\ \A w \in Owners : identity[w] \in minted' \cup {None}
        /\ \A w, v \in Owners : identity[w] # None /\ identity[w] = identity[v] => w = v
    BY <1>2 DEF PairingInv, Unlike
  <2>2. ASSUME NEW d \in Clients, Going(op'[d]), NEW w \in Owners PROVE identity[w] # op'[d].token
    BY <2>2, <1>3, <1>11, <1>13, <1>14 DEF PairingInv, Unlike
  <2>3. ASSUME NEW d \in Clients, Leaving(op'[d]), NEW w \in Owners PROVE identity[w] # op'[d].old
    BY <2>3, <1>11 DEF PairingInv, Unlike
  <2>4. ASSUME NEW d \in Clients, NEW e \in Clients, Going(op'[d]), Going(op'[e]), op'[d].token = op'[e].token PROVE d = e
    BY <2>4, <1>3, <1>11, <1>12, <1>14 DEF PairingInv, Unlike
  <2>5. ASSUME NEW d \in Clients, NEW e \in Clients, Going(op'[d]), Leaving(op'[e]) PROVE op'[d].token # op'[e].old
    BY <2>5, <1>3, <1>11, <1>12, <1>14 DEF PairingInv, Unlike
  <2> QED BY <1>2, <2>1, <2>2, <2>3, <2>4, <2>5 DEF Unlike, Going, Leaving
<1>16. Handing'
  <2>1. \A q \in Pairings : (Approved(q) => pairing[q].token \in minted) /\ got[q] \in minted \cup {None}
    BY DEF PairingInv, Handing
  <2>2. ASSUME NEW d \in Clients, NEW q \in Pairings, Going(op'[d])
        PROVE  got[q] # op'[d].token /\ (Approved(q) => pairing[q].token # op'[d].token)
    <3>1. CASE d = c BY <3>1, <2>1, <1>3, <1>14
    <3>2. CASE d # c BY <3>2, <2>2, <1>11 DEF PairingInv, Handing
    <3> QED BY <3>1, <3>2
  <2>3. /\ \A q \in Pairings : Approved(q) => pairing[q].token \in minted'
        /\ \A q \in Pairings : got[q] # None => got[q] \in minted' /\ pairing[q].status = "delivered"
        /\ \A q, w \in Pairings : Approved(q) /\ Approved(w) /\ pairing[q].token = pairing[w].token => q = w
        /\ \A q, w \in Pairings : Approved(q) => got[w] # pairing[q].token
    BY <1>2 DEF PairingInv, Handing
  <2> QED BY <1>2, <2>2, <2>3 DEF Handing, Approved, Going
<1>17. OpenPairs'
  <2> SUFFICES ASSUME faults = 0, NEW z \in minted' \ revoked
               PROVE  \/ \E w \in Owners : identity[w] = z
                      \/ \E d \in Clients : Going(op'[d]) /\ op'[d].token = z
                      \/ \E d \in Clients : Leaving(op'[d]) /\ op'[d].old = z
    BY <1>2 DEF OpenPairs, Going, Leaving
  <2>1. CASE z = t BY <2>1, <1>11, <1>14
  <2>2. CASE z # t
    <3>1. z \in minted \ revoked BY <2>2, <1>2
    <3>2. \A d \in Clients : Going(op[d]) \/ Leaving(op[d]) => op'[d] = op[d] BY <1>11
    <3> QED BY <3>1, <3>2 DEF PairingInv, OpenPairs
  <2> QED BY <2>1, <2>2
<1>18. FinishStep BY <1>4, <1>5 DEF FinishStep, Finishes, At
<1>19. HandStep BY <1>2 DEF HandStep
<1> QED BY <1>6, <1>9, <1>10, <1>15, <1>16, <1>17, <1>18, <1>19 DEF PairingInv

LEMMA CommitApproveStep ==
    ASSUME PairingInv, NEW c \in Clients, CommitApprove(c)
    PROVE  PairingInv' /\ FinishStep /\ HandStep
<1>1. PICK o : o = op[c].owner OBVIOUS
<1>2. PICK p : p = op[c].pairing OBVIOUS
<1>3. PICK t : t = op[c].token OBVIOUS
<1>4. PICK y : y = [op[c] EXCEPT !.at = "done", !.pairing = None] OBVIOUS
<1>5. PICK x : x = [status |-> "approved", owner |-> o, token |-> t] OBVIOUS
<1>6. /\ op[c].at = "record" /\ op[c].kind = "approve"
      /\ identity' = [identity EXCEPT ![o] = t] /\ sandbox' = Written(o, op[c].seen)
      /\ pairing' = [pairing EXCEPT ![p] = x]
      /\ op' = [op EXCEPT ![c].at = "done", ![c].pairing = None]
      /\ UNCHANGED <<minted, registered, revoked, pod, keyed, faults, due, recent, got>>
    BY <1>1, <1>2, <1>3, <1>5 DEF CommitApprove, At
<1>7. op[c] \in OpRows /\ Stage(op[c]) /\ Turns(op[c]) BY RequestFacts
<1>8. Going(op[c]) BY <1>6 DEF Going
<1>9. /\ o \in Owners /\ t \in minted \ revoked /\ t \in Token /\ t # None
      /\ identity[o] \in revoked \cup {None} /\ registered[o] = t
    BY <1>1, <1>3, <1>6, <1>7, <1>8, Shapes DEF Stage, Turns, OpRows
<1>10. p \in Pairings /\ p # None /\ pairing[p].status = "pending" BY <1>2, <1>7, <1>8, HeldIsPending, Shapes DEF Stage
<1>11. /\ y \in OpRows /\ y.kind = "approve" /\ y.at = "done" /\ y.owner = o /\ y.pairing = None
    BY <1>1, <1>4, <1>6, <1>7 DEF OpRows, OpStages
<1>12. op' = [op EXCEPT ![c] = y] BY <1>4, <1>6, Shapes
<1>13. op' \in [Clients -> OpRows] /\ \A d \in Clients : op'[d] = IF d = c THEN y ELSE op[d]
    BY <1>11, <1>12, OneRequest
<1>14. identity' \in [Owners -> Token] /\ \A w \in Owners : identity'[w] = IF w = o THEN t ELSE identity[w]
    BY <1>6, <1>9, Shapes
<1>15. x \in PairingRows /\ x.status = "approved" /\ x.token = t
    BY <1>5, <1>9 DEF PairingRows, PairingStatus
<1>16. pairing' \in [Pairings -> PairingRows] /\ \A q \in Pairings : pairing'[q] = IF q = p THEN x ELSE pairing[q]
    BY <1>6, <1>10, <1>15, Shapes
<1>17. PairingTypeOK' /\ (op \in [Clients -> OpRows])'
  <2>1. op[c].seen \in SandboxStatus BY <1>7 DEF OpRows
  <2>2. sandbox' \in [Owners -> SandboxStatus] BY <2>1, <1>6, WrittenShape
  <2> QED BY <1>6, <1>13, <1>14, <1>16, <2>2, Shapes, ShapesSuffice
<1>18. op'[c] = y BY <1>13
<1>19. ASSUME NEW d \in Clients, d # c, op[d].kind \in Exclusive PROVE op[d].owner # o
    BY <1>1, <1>6, <1>19, Others DEF Exclusive
<1>20. \A d \in Clients : d # c => op'[d] = op[d] /\ op[d].pairing # p
    BY <1>2, <1>10, <1>13 DEF PairingInv, Alone
<1>21. ~Going(y) /\ ~Leaving(y) /\ ~Leaving(op[c]) BY <1>6, <1>11 DEF Going, Leaving
<1>22. Working'
  <2>1. Stage(y) BY <1>9, <1>11 DEF Stage, Going, Turning, Exclusive
  <2>2. ASSUME NEW d \in Clients PROVE Stage(op[d]) /\ Turns(op[d]) BY RequestFacts
  <2>3. \A d \in Clients : Stage(op'[d]) BY <1>13, <2>1, <2>2
  <2>4. ASSUME NEW d \in Clients PROVE Turns(op[d])'
    <3>1. CASE d = c BY <3>1, <1>11, <1>18 DEF Turns, Going
    <3>2. CASE d # c
      <4>1. op'[d] = op[d] /\ Turns(op[d]) /\ Stage(op[d]) BY <3>2, <1>20, <2>2
      <4>2. op[d].kind \in {"rotate", "approve"} => identity'[op[d].owner] = identity[op[d].owner]
        BY <3>2, <4>1, <1>14, <1>19 DEF Exclusive, Stage
      <4>3. Going(op[d]) => op[d].pairing \in Pairings /\ pairing'[op[d].pairing] = pairing[op[d].pairing]
        BY <3>2, <4>1, <1>16, <1>20, HeldIsPending DEF Stage
      <4> QED BY <4>1, <4>2, <4>3, <1>6 DEF Turns, Going
    <3> QED BY <3>1, <3>2
  <2> QED BY <2>3, <2>4 DEF Working, Stage, Going
<1>23. Alone'
  <2>1. \A d \in Clients : /\ op'[d].kind = op[d].kind /\ op'[d].owner = op[d].owner
                           /\ op'[d].pairing \in {None, op[d].pairing}
    BY <1>1, <1>6, <1>11, <1>13
  <2> QED BY <2>1 DEF PairingInv, Alone
<1>24. \A d \in Clients : Going(op'[d]) \/ Leaving(op'[d]) => d # c /\ op'[d] = op[d]
    BY <1>18, <1>20, <1>21
<1>25. Unlike'
  <2>1. \A w \in Owners : identity'[w] \in minted \cup {None} BY <1>9, <1>14 DEF PairingInv, Unlike
  <2>2. \A w, v \in Owners : identity'[w] # None /\ identity'[w] = identity'[v] => w = v
    BY <1>3, <1>8, <1>14 DEF PairingInv, Unlike
  <2>3. ASSUME NEW d \in Clients, Going(op'[d]), NEW w \in Owners PROVE identity'[w] # op'[d].token
    BY <2>3, <1>3, <1>8, <1>14, <1>24 DEF PairingInv, Unlike
  <2>4. ASSUME NEW d \in Clients, Leaving(op'[d]), NEW w \in Owners PROVE identity'[w] # op'[d].old
    BY <2>4, <1>3, <1>8, <1>14, <1>24 DEF PairingInv, Unlike
  <2>5. /\ \A d, e \in Clients : Going(op'[d]) /\ Going(op'[e]) /\ op'[d].token = op'[e].token => d = e
        /\ \A d, e \in Clients : Going(op'[d]) /\ Leaving(op'[e]) => op'[d].token # op'[e].old
    BY <1>24 DEF PairingInv, Unlike
  <2> QED BY <1>6, <2>1, <2>2, <2>3, <2>4, <2>5 DEF Unlike, Going, Leaving
<1>26. Handing'
  <2>1. got[p] = None BY <1>10 DEF PairingInv, Handing
  <2>2. \A q \in Pairings : got[q] # t /\ (Approved(q) => pairing[q].token # t)
    BY <1>3, <1>8 DEF PairingInv, Handing
  <2>3. ~Approved(p) BY <1>10 DEF Approved
  <2>4. \A q \in Pairings : /\ pairing'[q].status = "approved" <=> q = p \/ Approved(q)
                            /\ pairing'[q].token = IF q = p THEN t ELSE pairing[q].token
                            /\ q # p => pairing'[q] = pairing[q]
    BY <1>15, <1>16 DEF Approved
  <2>5. \A q \in Pairings : q = p \/ Approved(q) => pairing'[q].token \in minted
    BY <1>9, <2>4 DEF PairingInv, Handing
  <2>6. \A q \in Pairings : got[q] # None => got[q] \in minted /\ pairing'[q].status = "delivered"
    BY <2>1, <2>4 DEF PairingInv, Handing
  <2>7. \A q, w \in Pairings : (q = p \/ Approved(q)) /\ (w = p \/ Approved(w)) /\ pairing'[q].token = pairing'[w].token => q = w
    BY <2>2, <2>3, <2>4 DEF PairingInv, Handing
  <2>8. \A q, w \in Pairings : q = p \/ Approved(q) => got[w] # pairing'[q].token
    BY <2>2, <2>4 DEF PairingInv, Handing
  <2>9. ASSUME NEW d \in Clients, NEW q \in Pairings, Going(op'[d])
        PROVE  got[q] # op'[d].token /\ (q = p \/ Approved(q) => pairing'[q].token # op'[d].token)
    <3>1. d # c /\ op'[d] = op[d] /\ Going(op[d]) BY <2>9, <1>24
    <3>2. op[d].token # t BY <3>1, <1>3, <1>8 DEF PairingInv, Unlike
    <3> QED BY <3>1, <3>2, <2>4 DEF PairingInv, Handing
  <2>10. \A q \in Pairings : Approved(q)' <=> (q = p \/ Approved(q))
    BY <2>4 DEF Approved
  <2>11. \A d \in Clients, q \in Pairings :
           Going(op[d])' => got'[q] # op'[d].token /\ (Approved(q)' => pairing'[q].token # op'[d].token)
    BY <1>6, <2>9, <2>10 DEF Going
  <2>12. \A q, w \in Pairings :
           /\ Approved(q)' /\ Approved(w)' /\ pairing'[q].token = pairing'[w].token => q = w
           /\ Approved(q)' => got'[w] # pairing'[q].token
    BY <1>6, <2>7, <2>8, <2>10
  <2>13. \A q \in Pairings :
           /\ Approved(q)' => pairing'[q].token \in minted'
           /\ got'[q] # None => got'[q] \in minted' /\ pairing'[q].status = "delivered"
    BY <1>6, <2>5, <2>6, <2>10
  <2> QED BY <2>11, <2>12, <2>13, Zenon DEF Handing
<1>27. OpenPairs'
  <2> SUFFICES ASSUME faults = 0, NEW z \in minted \ revoked
               PROVE  \/ \E w \in Owners : identity'[w] = z
                      \/ \E d \in Clients : Going(op'[d]) /\ op'[d].token = z
                      \/ \E d \in Clients : Leaving(op'[d]) /\ op'[d].old = z
    BY <1>6 DEF OpenPairs, Going, Leaving
  <2>1. identity'[o] = t BY <1>9, <1>14
  <2>2. z # None BY Shapes
  <2>3. \A w \in Owners : identity[w] = z => identity'[w] = z BY <2>2, <1>9, <1>14
  <2>4. \A d \in Clients : Going(op[d]) /\ op[d].token = z => z = t \/ (Going(op'[d]) /\ op'[d].token = z)
    BY <1>3, <1>20
  <2>5. \A d \in Clients : Leaving(op[d]) => op'[d] = op[d] BY <1>20, <1>21
  <2> QED BY <2>1, <2>3, <2>4, <2>5, <1>9 DEF PairingInv, OpenPairs
<1>28. FinishStep
  <2> SUFFICES ASSUME NEW d \in Clients, Finishes(d)
               PROVE  identity'[op[d].owner] # None /\ registered[op[d].owner] = identity'[op[d].owner]
                      /\ identity'[op[d].owner] \notin revoked
    BY <1>6 DEF FinishStep
  <2>1. d = c BY <1>20 DEF Finishes, At
  <2> QED BY <2>1, <1>1, <1>9, <1>14
<1>29. HandStep BY <1>6 DEF HandStep
<1> QED BY <1>17, <1>22, <1>23, <1>25, <1>26, <1>27, <1>28, <1>29 DEF PairingInv

LEMMA PollApprovedStep ==
    ASSUME PairingInv, NEW p \in Pairings, PollApproved(p)
    PROVE  PairingInv' /\ FinishStep /\ HandStep
<1>1. PICK x : x = [pairing[p] EXCEPT !.status = "delivered", !.token = None] OBVIOUS
<1>2. PICK t \in {None, pairing[p].token} : got' = [got EXCEPT ![p] = IF t = None THEN got[p] ELSE t]
    BY DEF PollApproved
<1>3. /\ p \notin due /\ ~Held(p) /\ Approved(p)
      /\ pairing' = [pairing EXCEPT ![p].status = "delivered", ![p].token = None]
      /\ due' \subseteq due /\ recent' \subseteq recent
      /\ UNCHANGED <<identity, minted, registered, revoked, pod, sandbox, keyed, op, faults>>
    BY DEF PollApproved, MayPoll, Approved, Handed, Closing, provVars
<1>4. x \in PairingRows /\ x.status = "delivered"
  <2>1. pairing[p] \in PairingRows BY Shapes
  <2> QED BY <1>1, <2>1 DEF PairingRows, PairingStatus, Token
<1>5. pairing' \in [Pairings -> PairingRows] /\ \A q \in Pairings : pairing'[q] = IF q = p THEN x ELSE pairing[q]
    BY <1>1, <1>3, <1>4, Shapes
<1>6. got[p] = None /\ pairing[p].token \in minted /\ pairing[p].token # None
    BY <1>3, Shapes DEF PairingInv, Handing, Approved
<1>7. /\ got' \in [Pairings -> Token]
      /\ \A q \in Pairings : got'[q] # got[q] => q = p /\ got'[q] = pairing[p].token
      /\ got'[p] \in {None, pairing[p].token}
    BY <1>2, <1>6, Shapes DEF Token
<1>8. PairingTypeOK' /\ (op \in [Clients -> OpRows])' BY <1>3, <1>5, <1>7, Shapes, ShapesSuffice
<1>9. Working'
  <2>1. ASSUME NEW c \in Clients PROVE Stage(op[c]) /\ Turns(op[c]) /\ (Going(op[c]) => pairing'[op[c].pairing].status = "pending")
    <3>1. Stage(op[c]) /\ Turns(op[c]) BY RequestFacts
    <3>2. Going(op[c]) => op[c].pairing \in Pairings \ {p} /\ pairing[op[c].pairing].status = "pending"
      BY <1>3, <3>1, HeldIsPending DEF Stage, Held
    <3> QED BY <1>5, <3>1, <3>2
  <2> QED BY <1>3, <2>1 DEF Working, Stage, Turns, Going
<1>10. (Alone /\ Unlike /\ OpenPairs)' BY <1>3 DEF PairingInv, Alone, Unlike, OpenPairs, Going, Leaving
<1>11. Handing'
  <2>1. \A q \in Pairings : pairing'[q].status = "approved" => q # p /\ Approved(q) /\ pairing'[q] = pairing[q]
    BY <1>4, <1>5 DEF Approved
  <2>2. \A q \in Pairings : got'[q] # None => got'[q] \in minted /\ pairing'[q].status = "delivered"
    BY <1>4, <1>5, <1>6, <1>7 DEF PairingInv, Handing
  <2>3. \A q, w \in Pairings : q # p /\ Approved(q) => got'[w] # pairing[q].token
    BY <1>3, <1>7 DEF PairingInv, Handing
  <2>4. \A c \in Clients, q \in Pairings : Going(op[c]) => got'[q] # op[c].token
    BY <1>3, <1>7 DEF PairingInv, Handing
  <2>5. /\ \A q \in Pairings : Approved(q) => pairing[q].token \in minted
        /\ \A q, w \in Pairings : Approved(q) /\ Approved(w) /\ pairing[q].token = pairing[w].token => q = w
        /\ \A c \in Clients, q \in Pairings : Going(op[c]) /\ Approved(q) => pairing[q].token # op[c].token
    BY DEF PairingInv, Handing
  <2>6. \A q \in Pairings : pairing'[q].status = "approved" => pairing'[q].token \in minted
    BY <2>1, <2>5
  <2>7. \A q, w \in Pairings :
          pairing'[q].status = "approved" /\ pairing'[w].status = "approved" /\ pairing'[q].token = pairing'[w].token => q = w
    BY <2>1, <2>5
  <2>8. \A q, w \in Pairings : pairing'[q].status = "approved" => got'[w] # pairing'[q].token
    BY <2>1, <2>3
  <2>9. \A c \in Clients, q \in Pairings :
          Going(op[c]) => got'[q] # op[c].token /\ (pairing'[q].status = "approved" => pairing'[q].token # op[c].token)
    BY <2>1, <2>4, <2>5
  <2> QED BY <1>3, <2>2, <2>6, <2>7, <2>8, <2>9 DEF Handing, Approved, Going
<1>12. FinishStep BY <1>3 DEF FinishStep, Finishes, At
<1>13. HandStep
  <2> SUFFICES ASSUME NEW q \in Pairings, got'[q] # got[q]
               PROVE  /\ got[q] = None /\ pairing[q].status = "approved" /\ q \notin due
                      /\ pairing'[q].status = "delivered"
                      /\ \A w \in Pairings \ {q} : got[w] # got'[q]
    BY DEF HandStep
  <2>1. q = p /\ got'[q] = pairing[p].token BY <1>7
  <2>2. \A w \in Pairings : got[w] # pairing[p].token BY <1>3 DEF PairingInv, Handing
  <2> QED BY <2>1, <2>2, <1>3, <1>4, <1>5, <1>6 DEF Approved
<1> QED BY <1>8, <1>9, <1>10, <1>11, <1>12, <1>13 DEF PairingInv

-----------------------------------------------------------------------------
(* The rows of the pairings alone. *)

\* A pairing that runs out has a row like any other.
LEMMA ExpiredRow ==
  ASSUME NEW r \in PairingRows
  PROVE  /\ [r EXCEPT !.status = "expired", !.token = None] \in PairingRows
         /\ [r EXCEPT !.status = "expired", !.token = None].status = "expired"
<1>1. PICK x : x = [r EXCEPT !.status = "expired"] OBVIOUS
<1>2. x \in PairingRows /\ x.status = "expired" BY <1>1 DEF PairingRows, PairingStatus
<1>3. PICK y : y = [x EXCEPT !.token = None] OBVIOUS
<1>4. y \in PairingRows /\ y.status = "expired" BY <1>2, <1>3 DEF PairingRows, Token
<1>5. y = [r EXCEPT !.status = "expired", !.token = None] BY <1>1, <1>3 DEF PairingRows
<1> QED BY <1>4, <1>5

LEMMA SweptRows ==
    ASSUME PairingInv
    PROVE  /\ Swept \in [Pairings -> PairingRows]
           /\ \A q \in Pairings : \/ Swept[q] = pairing[q]
                                  \/ q \in Over /\ Swept[q].status = "expired" /\ pairing[q].status \in Open
<1>1. ASSUME NEW q \in Pairings
      PROVE  /\ [pairing[q] EXCEPT !.status = "expired", !.token = None] \in PairingRows
             /\ [pairing[q] EXCEPT !.status = "expired", !.token = None].status = "expired"
  <2>1. pairing[q] \in PairingRows BY Shapes
  <2> QED BY <2>1, ExpiredRow
<1>2. \A q \in Over : pairing[q].status \in Open BY DEF Over
<1> QED BY <1>1, <1>2, Shapes DEF Swept

LEMMA PairingRowsStep ==
    ASSUME PairingInv, NEW p \in Pairings, Request(p) \/ Lapse(p) \/ Cancel(p) \/ PollOver(p) \/ PollPending(p)
    PROVE  PairingInv' /\ FinishStep /\ HandStep
<1>1. /\ UNCHANGED <<identity, minted, registered, revoked, pod, sandbox, op, faults, got>>
      /\ keyed' \subseteq Owners /\ due' \subseteq Pairings /\ recent' \subseteq Pairings
    BY Shapes DEF Request, Lapse, Cancel, PollOver, PollPending, Closing, provVars
<1>2. ASSUME NEW x \in PairingRows, pairing' = [pairing EXCEPT ![p] = x],
             ~Held(p), x.status # "approved", pairing[p].status # "delivered"
      PROVE  PairingInv' /\ FinishStep /\ HandStep
    BY <1>1, <1>2, RowStep, Shapes
<1>3. CASE Request(p)
  <2>1. ~Held(p) BY <1>3, HeldIsPending, Shapes DEF Request, Held
  <2>2. /\ Swept \in [Pairings -> PairingRows]
        /\ \A q \in Pairings : \/ Swept[q] = pairing[q]
                               \/ ~Held(q) /\ Swept[q].status # "approved" /\ pairing[q].status # "delivered"
    BY <1>3, SweptRows DEF Request, Open
  <2>3. PICK x : x = [Swept[p] EXCEPT !.status = "pending"] OBVIOUS
  <2>4. x \in PairingRows /\ x.status = "pending" BY <2>2, <2>3 DEF PairingRows, PairingStatus
  <2>5. pairing' = [Swept EXCEPT ![p] = x] BY <1>3, <2>2, <2>3 DEF Request
  <2>6. pairing[p].status = "none" BY <1>3 DEF Request
  <2>7. pairing' \in [Pairings -> PairingRows] /\ \A q \in Pairings : pairing'[q] = IF q = p THEN x ELSE Swept[q]
    BY <2>2, <2>4, <2>5
  <2> QED BY <1>1, <2>1, <2>2, <2>4, <2>6, <2>7, RowStep
<1>4. CASE Lapse(p) \/ PollPending(p)
  <2>1. pairing' = pairing BY <1>4 DEF Lapse, PollPending
  <2> QED BY <1>1, <2>1, RowStep, Shapes
<1>5. CASE Cancel(p)
  <2>1. PICK x : x = [pairing[p] EXCEPT !.status = "cancelled"] OBVIOUS
  <2>2. x \in PairingRows /\ x.status = "cancelled" BY <2>1, Shapes DEF PairingRows, PairingStatus
  <2>3. pairing' = [pairing EXCEPT ![p] = x] /\ ~Held(p) /\ pairing[p].status = "pending"
    BY <1>5, <2>1, Shapes DEF Cancel, Decidable
  <2> QED BY <1>2, <2>2, <2>3
<1>6. CASE PollOver(p)
  <2>1. PICK x : x = [pairing[p] EXCEPT !.status = "expired", !.token = None] OBVIOUS
  <2>0. pairing[p] \in PairingRows BY Shapes
  <2>2. x \in PairingRows /\ x.status = "expired" BY <2>0, <2>1, ExpiredRow
  <2>3. pairing' = [pairing EXCEPT ![p] = x] /\ ~Held(p) /\ pairing[p].status # "delivered"
    BY <1>6, <2>1, Shapes DEF PollOver, Over, Open
  <2> QED BY <1>2, <2>2, <2>3
<1> QED BY <1>3, <1>4, <1>5, <1>6

LEMMA DenyStep ==
    ASSUME PairingInv, NEW p \in Pairings, NEW o \in Owners, Deny(o, p)
    PROVE  PairingInv' /\ FinishStep /\ HandStep
<1>1. /\ UNCHANGED <<identity, minted, registered, revoked, pod, sandbox, op, faults, got>>
      /\ keyed' \subseteq Owners /\ due' \subseteq Pairings /\ recent' \subseteq Pairings
    BY Shapes DEF Deny, Closing, provVars
<1>2. PICK x : x = [pairing[p] EXCEPT !.status = "denied", !.owner = o] OBVIOUS
<1>3. x \in PairingRows /\ x.status = "denied"
  <2>0. pairing[p] \in PairingRows BY Shapes
  <2>1. PICK z : z = [pairing[p] EXCEPT !.status = "denied"] OBVIOUS
  <2>2. z \in PairingRows /\ z.status = "denied" BY <2>0, <2>1 DEF PairingRows, PairingStatus
  <2>3. x = [z EXCEPT !.owner = o] BY <1>2, <2>0, <2>1 DEF PairingRows
  <2> QED BY <2>2, <2>3 DEF PairingRows
<1>4. pairing' = [pairing EXCEPT ![p] = x] /\ ~Held(p) /\ pairing[p].status = "pending"
    BY <1>2, Shapes DEF Deny, Decidable
<1> QED BY <1>1, <1>3, <1>4, RowStep, Shapes

LEMMA SweepStep ==
    ASSUME PairingInv, Tick \/ Cleanup
    PROVE  PairingInv' /\ FinishStep /\ HandStep
<1>1. /\ UNCHANGED <<identity, minted, registered, revoked, pod, sandbox, op, faults, got>>
      /\ keyed' \subseteq Owners /\ due' \subseteq Pairings /\ recent' \subseteq Pairings
    BY Shapes DEF Tick, Cleanup, Closing, provVars
<1>2. CASE Tick BY <1>1, <1>2, RowStep, Shapes DEF Tick
<1>3. CASE Cleanup
  <2>1. pairing' = Swept /\ \A q \in Over : ~Held(q) BY <1>3 DEF Cleanup
  <2>2. /\ pairing' \in [Pairings -> PairingRows]
        /\ \A q \in Pairings : \/ pairing'[q] = pairing[q]
                               \/ ~Held(q) /\ pairing'[q].status # "approved" /\ pairing[q].status # "delivered"
    BY <2>1, SweptRows DEF Open
  <2> QED BY <1>1, <2>2, RowStep
<1> QED BY <1>2, <1>3

-----------------------------------------------------------------------------
(* The invariant, step by step. *)

LEMMA PairingInitially == PairingInit => PairingInv
<1> SUFFICES ASSUME PairingInit PROVE PairingInv OBVIOUS
<1>1. Blank \in OpRows /\ Blank.kind = "idle" /\ Blank.at = "idle" /\ Blank.pairing = None
    BY DEF Blank, OpRows, OpKinds, OpStages, SandboxStatus, PodStatus, Token
<1>2. NoPairing \in PairingRows /\ NoPairing.status = "none"
    BY DEF NoPairing, PairingRows, PairingStatus, Token
<1>3. /\ identity = [o \in Owners |-> None] /\ minted = {} /\ revoked = {} /\ registered = [o \in Owners |-> None]
      /\ pod = [o \in Owners |-> [status |-> "absent", token |-> None]] /\ sandbox = [o \in Owners |-> "none"]
      /\ keyed = {} /\ op = [c \in Clients |-> Blank] /\ faults = 0
      /\ pairing = [p \in Pairings |-> NoPairing] /\ due = {} /\ recent = {} /\ got = [p \in Pairings |-> None]
    BY DEF PairingInit, ProvInit
<1>4. faults \in 0..MaxFaults BY <1>3, ProvisioningAssumption
<1>5. \A c \in Clients : op[c] \in OpRows /\ op[c] = Blank BY <1>1, <1>3
<1>6. PairingTypeOK /\ op \in [Clients -> OpRows]
  <2>1. \A c \in Clients : /\ op[c].owner \in Owners \cup {None} /\ op[c].token \in Token
                           /\ op[c].old \in Token /\ op[c].seen \in SandboxStatus
    BY <1>5 DEF OpRows
  <2>2. [status |-> "absent", token |-> None] \in [status : PodStatus, token : Token] BY DEF PodStatus, Token
  <2>3. "none" \in SandboxStatus /\ None \in Token BY DEF SandboxStatus, Token
  <2>4. pairing \in [Pairings -> PairingRows] BY <1>2, <1>3
  <2> QED BY <1>3, <1>4, <1>5, <2>1, <2>2, <2>3, <2>4 DEF PairingTypeOK, ProvTypeOK, PairingRows
<1>7. \A c \in Clients : Stage(op[c]) /\ Turns(op[c]) /\ ~Going(op[c]) /\ ~Leaving(op[c])
    BY <1>1, <1>5 DEF Stage, Turns, Going, Leaving
<1>8. Working /\ Unlike BY <1>3, <1>7 DEF Working, Unlike
<1>9. Alone BY <1>1, <1>5 DEF Alone, Exclusive
<1>10. Handing BY <1>2, <1>3, <1>7 DEF Handing, Approved
<1>11. OpenPairs BY <1>3 DEF OpenPairs
<1> QED BY <1>6, <1>8, <1>9, <1>10, <1>11 DEF PairingInv

LEMMA ProvStep ==
    ASSUME PairingInv, ProvNext, UNCHANGED pairVars
    PROVE  PairingInv' /\ FinishStep /\ HandStep
<1>1. ASSUME NEW c \in Clients, Steps(c) PROVE PairingInv' /\ FinishStep /\ HandStep
    BY <1>1, IssueStep, RevokeStep, RegisterStep, DeleteStep, RecordStep, UpsertStep, RollStep, WriteStatusStep,
       ReplyStep, Zenon DEF Steps
<1>2. ASSUME NEW c \in Clients, Fail(c) PROVE PairingInv' /\ FinishStep /\ HandStep BY <1>2, FailStep
<1>3. ASSUME NEW c \in Clients, NEW o \in Owners, Asks(c, o) PROVE PairingInv' /\ FinishStep /\ HandStep
    BY <1>3, AskProvisionStep, AskDeprovisionStep, AskStatusStep, AskRotateStep, Zenon DEF Asks
<1>4. ASSUME NEW o \in Owners, AddCredential(o) \/ RevokeCredential(o) PROVE PairingInv' /\ FinishStep /\ HandStep
    BY <1>4, CredentialStep
<1> QED BY <1>1, <1>2, <1>3, <1>4, Zenon DEF ProvNext

LEMMA PairingStepKeeps ==
    PairingInv /\ [PairingNext]_allVars => PairingInv' /\ [FinishStep]_provVars /\ [HandStep]_allVars
<1> SUFFICES ASSUME PairingInv, [PairingNext]_allVars PROVE PairingInv' /\ FinishStep /\ HandStep
    OBVIOUS
<1>1. CASE ProvNext /\ UNCHANGED pairVars BY <1>1, ProvStep
<1>2. ASSUME NEW p \in Pairings, Request(p) \/ Lapse(p) \/ Cancel(p) \/ Polls(p)
      PROVE  PairingInv' /\ FinishStep /\ HandStep
    BY <1>2, PairingRowsStep, PollApprovedStep DEF Polls
<1>3. ASSUME NEW p \in Pairings, NEW o \in Owners, Deny(o, p) PROVE PairingInv' /\ FinishStep /\ HandStep
    BY <1>3, DenyStep
<1>4. ASSUME NEW p \in Pairings, NEW o \in Owners, NEW c \in Clients, NEW t \in Tokens \ minted, Approve(c, o, p, t)
      PROVE  PairingInv' /\ FinishStep /\ HandStep
    BY <1>4, ApproveStep
<1>5. ASSUME NEW c \in Clients, CommitApprove(c) PROVE PairingInv' /\ FinishStep /\ HandStep
    BY <1>5, CommitApproveStep
<1>6. CASE Tick \/ Cleanup BY <1>6, SweepStep
<1>7. CASE UNCHANGED allVars
  <2>1. /\ UNCHANGED <<identity, minted, registered, revoked, pod, sandbox, op, faults, got>>
        /\ keyed' \subseteq Owners /\ pairing' = pairing /\ due' = due /\ recent' = recent
    BY <1>7, Shapes DEF allVars, provVars, pairVars
  <2> QED BY <2>1, RowStep, Shapes
<1> QED BY <1>1, <1>2, <1>3, <1>4, <1>5, <1>6, <1>7, Zenon DEF PairingNext

\* The tables have their shape; the lock of an owner has one holder; no pair of tokens is in
\* two hands; and what a rotation or an approval stands at says what it has stored, revoked
\* and registered, for any number of users, requests and machines and through every failure.
THEOREM PairingInvariant == PairingSpec => []PairingInv
<1>1. PairingInit => PairingInv BY PairingInitially
<1>2. PairingInv /\ [PairingNext]_allVars => PairingInv' BY PairingStepKeeps
<1> QED BY <1>1, <1>2, PTL DEF PairingSpec

\* As long as no operation has failed half way, the only pairs that open the relay, with no
\* rotation or approval under way, are the stored ones (provisioning.py:169): the machine a
\* rotation or a new pairing replaces is shut out.
THEOREM ReplacedPairsDie == PairingSpec => []OldTokensDie
<1>1. PairingInv => OldTokensDie
  <2> SUFFICES ASSUME PairingInv, Rest, faults = 0, NEW t \in minted \ revoked
               PROVE  t \in {identity[o] : o \in Owners}
    BY DEF OldTokensDie
  <2>1. \A c \in Clients : ~Going(op[c]) /\ ~Leaving(op[c]) BY DEF Rest, Going, Leaving, Exclusive
  <2> QED BY <2>1 DEF PairingInv, OpenPairs
<1> QED BY <1>1, PairingInvariant, PTL

\* When a rotation or an approval has gone through, the relay has the stored pair registered
\* and accepts it, whatever failed before it (provisioning.py rotate_relay_identity,
\* agent_onboarding.py approve).
THEOREM WhatFinishesIsUsable == PairingSpec => FinishedIsUsable
<1>1. PairingInv /\ [PairingNext]_allVars =>
        [\A c \in Clients : Finishes(c) =>
            LET o == op[c].owner IN
            identity'[o] # None /\ registered'[o] = identity'[o] /\ identity'[o] \notin revoked']_provVars
    BY PairingStepKeeps DEF FinishStep
<1> QED BY <1>1, PairingInvariant, PTL DEF PairingSpec, FinishedIsUsable

\* A token reaches a machine only while its pairing is approved and in time, once, and no
\* second machine has it (agent_onboarding.py poll).
THEOREM TokensAreHandedOnce == PairingSpec => HandedOnce
<1>1. PairingInv /\ [PairingNext]_allVars =>
        [\A p \in Pairings : got'[p] # got[p] =>
            /\ got[p] = None /\ pairing[p].status = "approved" /\ p \notin due
            /\ pairing'[p].status = "delivered"
            /\ \A q \in Pairings \ {p} : got[q] # got'[p]]_allVars
    BY PairingStepKeeps DEF HandStep
<1> QED BY <1>1, PairingInvariant, PTL DEF PairingSpec, HandedOnce

=============================================================================
