---------------------------- MODULE Provisioning ----------------------------
(* The relay identity and the sandbox of a user, as provisioning.py keeps     *)
(* them.  A user has one row with the current pair of relay tokens            *)
(* (workbench_relay_identities), one provisioned sandbox row and one model     *)
(* key; the relay knows which pair is registered and which tokens are revoked; *)
(* the provisioner runs the user's pod.  The operations run in web processes,   *)
(* one await after the other, under an advisory lock per owner that a second    *)
(* operation does not wait for.  Tokens are signed (an issuer is configured):   *)
(* every one that was minted opens the relay until it is revoked.               *)
EXTENDS Integers, FiniteSets

CONSTANTS
    Owners,     \* users
    Clients,    \* web requests open at a time
    Tokens,     \* pairs of relay tokens that may be minted
    Limit,      \* workbench_sandbox_global_limit
    MaxFaults,  \* operations that fail half way
    None

ASSUME ProvisioningAssumption ==
    /\ None \notin Tokens \cup Owners
    /\ Limit \in Nat \ {0}
    /\ MaxFaults \in Nat

VARIABLES
    identity,   \* the stored pair of each owner
    minted,     \* pairs ever signed
    registered, \* the pair the relay has registered for each owner
    revoked,    \* pairs the relay refuses
    pod,        \* the provisioner's side: status and the token it was given
    sandbox,    \* status of the provisioned sandbox row
    keyed,      \* owners with an active model key
    op,         \* what each web request is doing
    faults

provVars == <<identity, minted, registered, revoked, pod, sandbox, keyed, op, faults>>

Token == Tokens \cup {None}
\* What the provisioner says of a pod; "starting" and "ready" are one here.
PodStatus == {"absent", "up"}
SandboxStatus == PodStatus \cup {"none", "deleted"}

\* A request: what it does, the await it stands at, and what it has read so far.
Blank == [kind |-> "idle", at |-> "idle", owner |-> None, token |-> None,
          old |-> None, seen |-> "none", pairing |-> None]

LockedNever(o) == FALSE
\* relay_identity_operation: the requests that hold the owner's advisory lock.
Exclusive == {"provision", "rotate", "deprovision", "approve"}
Locked(o) == \E c \in Clients : op[c].owner = o /\ op[c].kind \in Exclusive

Free(c) == op[c] = Blank
At(c, stage) == op[c].at = stage
Go(c, stage) == op' = [op EXCEPT ![c].at = stage]

-----------------------------------------------------------------------------
ProvInit ==
    /\ identity = [o \in Owners |-> None]
    /\ minted = {} /\ revoked = {}
    /\ registered = [o \in Owners |-> None]
    /\ pod = [o \in Owners |-> [status |-> "absent", token |-> None]]
    /\ sandbox = [o \in Owners |-> "none"]
    /\ keyed = {}
    /\ op = [c \in Clients |-> Blank]
    /\ faults = 0

\* count_live_provisioned_sandboxes, has_live_provisioned_sandbox: every row
\* that is not "deleted" counts.
Counted == {o \in Owners : sandbox[o] \notin {"none", "deleted"}}

\* _check_capacity, over all owners, while only one owner is locked.
HasRoom(o) == o \in Counted \/ Cardinality(Counted) < Limit

AskProvision(c, o) ==
    /\ Free(c) /\ ~Locked(o)
    /\ o \in keyed
    /\ HasRoom(o)
    /\ op' = [op EXCEPT ![c] = [Blank EXCEPT !.kind = "provision", !.at = "identity", !.owner = o]]
    /\ UNCHANGED <<identity, minted, registered, revoked, pod, sandbox, keyed, faults>>

\* ensure_relay_identity: the stored pair, or a new one, committed at once.
Issue(c) ==
    LET o == op[c].owner IN
    /\ At(c, "identity")
    /\ \/ /\ identity[o] # None
          /\ op' = [op EXCEPT ![c].at = "register", ![c].token = identity[o]]
          /\ UNCHANGED <<identity, minted>>
       \/ /\ identity[o] = None
          /\ \E t \in Tokens \ minted :
                /\ minted' = minted \cup {t}
                /\ identity' = [identity EXCEPT ![o] = t]
                /\ op' = [op EXCEPT ![c].at = "register", ![c].token = t]
    /\ UNCHANGED <<registered, revoked, pod, sandbox, keyed, faults>>

\* rotate_relay_identity: the page's revision is that of the stored pair, the
\* new pair is committed, and then the relay is told.
AskRotate(c, o, t) ==
    /\ Free(c) /\ ~Locked(o)
    /\ identity[o] # None
    /\ minted' = minted \cup {t}
    /\ identity' = [identity EXCEPT ![o] = t]
    /\ op' = [op EXCEPT ![c] = [Blank EXCEPT !.kind = "rotate", !.at = "revoke", !.owner = o,
                                             !.token = t, !.old = identity[o]]]
    /\ UNCHANGED <<registered, revoked, pod, sandbox, keyed, faults>>

RevokeForgotten(c) ==
    /\ At(c, "revoke")
    /\ Go(c, "register")
    /\ UNCHANGED <<identity, minted, registered, revoked, pod, sandbox, keyed, faults>>

\* revoke_jti of both old tokens
Revoke(c) ==
    /\ At(c, "revoke")
    /\ revoked' = revoked \cup {op[c].old}
    /\ Go(c, "register")
    /\ UNCHANGED <<identity, minted, registered, pod, sandbox, keyed, faults>>

\* _register and mark_relay_registered
Register(c) ==
    /\ At(c, "register")
    /\ registered' = [registered EXCEPT ![op[c].owner] = op[c].token]
    /\ Go(c, IF op[c].kind = "provision" THEN "upsert" ELSE "roll")
    /\ UNCHANGED <<identity, minted, revoked, pod, sandbox, keyed, faults>>

\* provisioner.upsert: the pod starts, or is updated, with the sandbox token.
Upserted(c) ==
    /\ pod' = [pod EXCEPT ![op[c].owner] = [status |-> "up", token |-> op[c].token]]
    /\ op' = [op EXCEPT ![c].at = "record", ![c].seen = "up"]

Upsert(c) ==
    /\ At(c, "upsert")
    /\ Upserted(c)
    /\ UNCHANGED <<identity, minted, registered, revoked, sandbox, keyed, faults>>

\* The end of a rotation: a pod that runs is rolled to the new token while the
\* owner has a key.
Rolls(o) == pod[o].status # "absent" /\ o \in keyed
Roll(c) ==
    /\ At(c, "roll")
    /\ IF Rolls(op[c].owner) THEN Upserted(c) ELSE Go(c, "record") /\ UNCHANGED pod
    /\ UNCHANGED <<identity, minted, registered, revoked, sandbox, keyed, faults>>

AskDeprovision(c, o) ==
    /\ Free(c) /\ ~Locked(o)
    /\ identity[o] # None
    /\ op' = [op EXCEPT ![c] = [Blank EXCEPT !.kind = "deprovision", !.at = "delete", !.owner = o]]
    /\ UNCHANGED <<identity, minted, registered, revoked, pod, sandbox, keyed, faults>>

Delete(c) ==
    /\ At(c, "delete")
    /\ pod' = [pod EXCEPT ![op[c].owner] = [status |-> "absent", token |-> None]]
    /\ op' = [op EXCEPT ![c].at = "record", ![c].seen = "deleted"]
    /\ UNCHANGED <<identity, minted, registered, revoked, sandbox, keyed, faults>>

\* The sandbox row: written once the provisioner has answered; a user without
\* a row gets one from an upsert only.
Written(o, s) ==
    IF s = "none" \/ (s = "deleted" /\ sandbox[o] = "none") THEN sandbox
    ELSE [sandbox EXCEPT ![o] = s]

\* The transaction of an approval keeps the row it wrote until it ends.
RowFree(o) == \A c \in Clients : op[c].kind = "approve" /\ op[c].owner = o => op[c].at # "record"

Record(c) ==
    /\ At(c, "record") /\ op[c].kind # "approve"
    /\ sandbox' = Written(op[c].owner, op[c].seen)
    /\ Go(c, "done")
    /\ UNCHANGED <<identity, minted, registered, revoked, pod, keyed, faults>>

\* status(): asks the provisioner without the lock, and writes what it said.
AskStatus(c, o) ==
    /\ Free(c)
    /\ identity[o] # None
    /\ op' = [op EXCEPT ![c] = [Blank EXCEPT !.kind = "status", !.at = "write", !.owner = o,
                                             !.seen = pod[o].status]]
    /\ UNCHANGED <<identity, minted, registered, revoked, pod, sandbox, keyed, faults>>

WriteStatus(c) ==
    LET o == op[c].owner IN
    /\ At(c, "write") /\ RowFree(o)
    /\ sandbox' = IF sandbox[o] = "none" THEN sandbox ELSE [sandbox EXCEPT ![o] = op[c].seen]
    /\ Go(c, "done")
    /\ UNCHANGED <<identity, minted, registered, revoked, pod, keyed, faults>>

Reply(c) ==
    /\ At(c, "done")
    /\ op' = [op EXCEPT ![c] = Blank]
    /\ UNCHANGED <<identity, minted, registered, revoked, pod, sandbox, keyed, faults>>

\* The relay or the provisioner does not answer, or the web process dies: what
\* was not committed is gone, and so is the lock.
Fail(c) ==
    /\ ~Free(c) /\ ~At(c, "done")
    /\ faults < MaxFaults
    /\ faults' = faults + 1
    /\ op' = [op EXCEPT ![c] = Blank]
    /\ UNCHANGED <<identity, minted, registered, revoked, pod, sandbox, keyed>>

AddCredential(o) ==
    /\ o \notin keyed
    /\ keyed' = keyed \cup {o}
    /\ UNCHANGED <<identity, minted, registered, revoked, pod, sandbox, op, faults>>

RevokeCredential(o) ==
    /\ o \in keyed
    /\ keyed' = keyed \ {o}
    /\ UNCHANGED <<identity, minted, registered, revoked, pod, sandbox, op, faults>>

Steps(c) ==
    \/ Issue(c) \/ Revoke(c) \/ Register(c) \/ Delete(c) \/ Record(c)
    \/ Upsert(c) \/ Roll(c) \/ WriteStatus(c) \/ Reply(c)

Asks(c, o) ==
    \/ AskProvision(c, o) \/ AskDeprovision(c, o) \/ AskStatus(c, o)
    \/ \E t \in Tokens \ minted : AskRotate(c, o, t)

ProvNext ==
    \/ \E c \in Clients : Steps(c) \/ Fail(c) \/ \E o \in Owners : Asks(c, o)
    \/ \E o \in Owners : AddCredential(o) \/ RevokeCredential(o)

ProvSpec == ProvInit /\ [][ProvNext]_provVars

-----------------------------------------------------------------------------
ProvTypeOK ==
    /\ identity \in [Owners -> Token] /\ registered \in [Owners -> Token]
    /\ minted \subseteq Tokens /\ revoked \subseteq minted
    /\ pod \in [Owners -> [status : PodStatus, token : Token]]
    /\ sandbox \in [Owners -> SandboxStatus]
    /\ keyed \subseteq Owners
    /\ \A c \in Clients : op[c].owner \in Owners \cup {None} /\ op[c].token \in Token
                          /\ op[c].old \in Token /\ op[c].seen \in SandboxStatus
    /\ faults \in 0..MaxFaults

\* Once a rotation or an approval has gone through, the pair the relay has
\* registered is the stored one and the relay accepts it, whatever failed
\* before it (provisioning.py:166-193, agent_onboarding.py:152-213).
Finishes(c) == op[c].kind \in {"rotate", "approve"} /\ ~At(c, "done") /\ op'[c].at = "done"
FinishedIsUsable ==
    [][\A c \in Clients : Finishes(c) =>
          LET o == op[c].owner IN
          identity'[o] # None /\ registered'[o] = identity'[o] /\ identity'[o] \notin revoked']_provVars

\* Until an operation fails half way, the only pair that opens the relay for an
\* owner at rest is the stored one: the machine a rotation or a new pairing
\* replaces is shut out (provisioning.py:169).
Rest == \A c \in Clients : op[c].kind \notin Exclusive
OldTokensDie ==
    Rest /\ faults = 0 => minted \ revoked \subseteq {identity[o] : o \in Owners}

\* The lock keeps its own connection because "identity records must commit
\* before external side effects" (repository.py:1713): whatever fails, the
\* stored pair is one the relay accepts.
StoredIsUsable == Rest => \A o \in Owners : identity[o] \notin revoked

\* A sandbox that is reclaimed is not counted (repository.py:1954): with nobody
\* at it, an owner whose pod is gone does not take room from the others.
Untouched(o) == \A c \in Clients : op[c].owner # o
ReclaimedIsFree == \A o \in Owners : Untouched(o) /\ pod[o].status = "absent" => o \notin Counted
CapacityKept == Cardinality({o \in Owners : pod[o].status # "absent"}) <= Limit
=============================================================================
