------------------------------- MODULE Pairing ------------------------------
(* Pairing a machine with a user (agent_onboarding.py): the agent on the       *)
(* machine asks for a code and polls, the user approves or denies the code in   *)
(* the browser, and the token of the relay identity goes to the machine that     *)
(* asked.  Approving is an operation of Provisioning.tla on the owner's          *)
(* identity, all of it inside one database transaction; the codes and the        *)
(* device secrets are right, since a wrong one changes nothing.                  *)
EXTENDS Provisioning

CONSTANTS
    Pairings,   \* requests to pair, one machine each
    MaxPending  \* pending_limit of create_agent_pairing

ASSUME PairingAssumption == None \notin Pairings /\ MaxPending \in Nat \ {0}

VARIABLES
    pairing,    \* rows of workbench_agent_pairings
    due,        \* open rows whose expires_at has passed
    recent,     \* open rows polled less than three seconds ago
    got         \* the token each machine has been given

pairVars == <<pairing, due, recent, got>>
allVars == <<provVars, pairVars>>

PairingStatus == {"none", "pending", "approved", "denied", "delivered", "expired", "cancelled"}
Open == {"pending", "approved"}
Ended == {"denied", "delivered", "expired", "cancelled"}
NoPairing == [status |-> "none", owner |-> None, token |-> None]

\* The row is locked by the transaction of an approval.
Held(p) == \E c \in Clients : op[c].pairing = p

PairingInit ==
    /\ ProvInit
    /\ pairing = [p \in Pairings |-> NoPairing]
    /\ due = {} /\ recent = {}
    /\ got = [p \in Pairings |-> None]

Over == {p \in due : pairing[p].status \in Open}

\* Every row that is open and over becomes "expired" and loses its token.
Swept == [p \in Pairings |-> IF p \in Over THEN [pairing[p] EXCEPT !.status = "expired", !.token = None]
                             ELSE pairing[p]]

\* Of a row that has ended neither time is read again.
Closing(ps) == due' = due \ ps /\ recent' = recent \ ps

\* create_agent_pairing: capacity, sweep and insert under one advisory lock.
Request(p) ==
    /\ pairing[p].status = "none"
    /\ \A q \in Over : ~Held(q)
    /\ Cardinality({q \in Pairings : Swept[q].status = "pending"}) < MaxPending
    /\ pairing' = [Swept EXCEPT ![p].status = "pending"]
    /\ Closing(Over)
    /\ UNCHANGED <<got, provVars>>

\* Five minutes pass.
Lapse(p) ==
    /\ pairing[p].status \in Open /\ p \notin due
    /\ due' = due \cup {p}
    /\ UNCHANGED <<pairing, recent, got, provVars>>

\* Three seconds pass.
Tick ==
    /\ recent # {}
    /\ recent' = {}
    /\ UNCHANGED <<pairing, due, got, provVars>>

Decidable(p) == pairing[p].status = "pending" /\ p \notin due /\ ~Held(p)

\* approve, up to the first call to the relay.
Approve(c, o, p, t) ==
    /\ Free(c) /\ ~Locked(o)
    /\ Decidable(p)
    /\ minted' = minted \cup {t}
    /\ op' = [op EXCEPT ![c] = [Blank EXCEPT !.kind = "approve", !.owner = o, !.pairing = p, !.token = t,
                                             !.old = identity[o],
                                             !.at = IF identity[o] = None THEN "register" ELSE "revoke"]]
    /\ UNCHANGED <<identity, registered, revoked, pod, sandbox, keyed, faults, pairVars>>

\* The end of its transaction: identity, sandbox row and pairing together.
CommitApprove(c) ==
    LET o == op[c].owner IN
    /\ At(c, "record") /\ op[c].kind = "approve"
    /\ identity' = [identity EXCEPT ![o] = op[c].token]
    /\ sandbox' = Written(o, op[c].seen)
    /\ pairing' = [pairing EXCEPT ![op[c].pairing] =
                      [status |-> "approved", owner |-> o, token |-> op[c].token]]
    /\ op' = [op EXCEPT ![c].at = "done", ![c].pairing = None]
    /\ UNCHANGED <<minted, registered, revoked, pod, keyed, faults, due, recent, got>>

Deny(o, p) ==
    /\ Decidable(p)
    /\ pairing' = [pairing EXCEPT ![p].status = "denied", ![p].owner = o]
    /\ Closing({p})
    /\ UNCHANGED <<got, provVars>>

Cancel(p) ==
    /\ Decidable(p)
    /\ pairing' = [pairing EXCEPT ![p].status = "cancelled"]
    /\ Closing({p})
    /\ UNCHANGED <<got, provVars>>

\* poll: a row that is over is closed first, a poll that comes too soon is
\* turned away, and an approved row gives its token once.
PollOver(p) ==
    /\ p \in Over /\ ~Held(p)
    /\ pairing' = [pairing EXCEPT ![p].status = "expired", ![p].token = None]
    /\ Closing({p})
    /\ UNCHANGED <<got, provVars>>

MayPoll(p) == p \notin due \cup recent /\ ~Held(p)

PollPending(p) ==
    /\ MayPoll(p) /\ pairing[p].status = "pending"
    /\ recent' = recent \cup {p}
    /\ UNCHANGED <<pairing, due, got, provVars>>

HandedAgain(p) == [pairing EXCEPT ![p].token = pairing[p].token]

\* mark_agent_pairing_delivered commits; the answer may be lost on its way.
Handed(p) == [pairing EXCEPT ![p].status = "delivered", ![p].token = None]
PollApproved(p) ==
    /\ MayPoll(p) /\ pairing[p].status = "approved"
    /\ pairing' = Handed(p)
    /\ Closing({p})
    /\ \E t \in {None, pairing[p].token} : got' = [got EXCEPT ![p] = IF t = None THEN got[p] ELSE t]
    /\ UNCHANGED provVars

\* The scheduled cleanup_agent_onboarding.
Cleanup ==
    /\ Over # {} /\ \A p \in Over : ~Held(p)
    /\ pairing' = Swept
    /\ Closing(Over)
    /\ UNCHANGED <<got, provVars>>

Polls(p) == PollOver(p) \/ PollPending(p) \/ PollApproved(p)

PairingNext ==
    \/ ProvNext /\ UNCHANGED pairVars
    \/ \E p \in Pairings : Request(p) \/ Lapse(p) \/ Cancel(p) \/ Polls(p)
    \/ \E p \in Pairings, o \in Owners : Deny(o, p) \/ \E c \in Clients, t \in Tokens \ minted : Approve(c, o, p, t)
    \/ \E c \in Clients : CommitApprove(c)
    \/ Tick \/ Cleanup

PairingSpec == PairingInit /\ [][PairingNext]_allVars

\* Requests go on, the agent polls, time passes and the scheduler cleans up.
PairingFairness ==
    /\ \A c \in Clients : WF_allVars((Steps(c) /\ UNCHANGED pairVars) \/ CommitApprove(c))
    /\ \A p \in Pairings : WF_allVars(Polls(p)) /\ WF_allVars(Lapse(p))
    /\ WF_allVars(Tick) /\ WF_allVars(Cleanup)

FairPairingSpec == PairingSpec /\ PairingFairness

-----------------------------------------------------------------------------
PairingTypeOK ==
    /\ ProvTypeOK
    /\ pairing \in [Pairings -> [status : PairingStatus, owner : Owners \cup {None}, token : Token]]
    /\ due \subseteq Pairings /\ recent \subseteq Pairings
    /\ got \in [Pairings -> Token]

\* A token reaches a machine only while its pairing is approved and not over,
\* once, and no second machine has it (agent_onboarding.py:267).
HandedOnce ==
    [][\A p \in Pairings : got'[p] # got[p] =>
          /\ got[p] = None /\ pairing[p].status = "approved" /\ p \notin due
          /\ pairing'[p].status = "delivered"
          /\ \A q \in Pairings \ {p} : got[q] # got'[p]]_allVars

\* Every request to pair ends: fetched, refused or swept away.
EveryPairingEnds == \A p \in Pairings : pairing[p].status \in Open ~> pairing[p].status \in Ended
=============================================================================
