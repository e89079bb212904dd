------------------------------ MODULE Mailbox -------------------------------
(***************************************************************************)
(* What durable delivery promises to those who enqueue a task: an accepted *)
(* message takes effect at most once, and it is settled, that is done or   *)
(* set aside as a dead letter that an operator may put back.               *)
(***************************************************************************)
EXTENDS Naturals

CONSTANT Messages

VARIABLES
  accepted,   \* messages whose enqueueing transaction has committed
  taken,      \* how often each message has taken effect
  aside       \* dead letters that have not been replayed

mailVars == <<accepted, taken, aside>>

MailInit == accepted = {} /\ taken = [m \in Messages |-> 0] /\ aside = {}

Accept(m) ==
  /\ accepted' = accepted \cup {m}
  /\ UNCHANGED <<taken, aside>>

\* It takes effect once; a dead letter may still do so if it was under way.
TakeEffect(m) ==
  /\ m \in accepted /\ taken[m] = 0
  /\ taken' = [taken EXCEPT ![m] = 1]
  /\ UNCHANGED <<accepted, aside>>

\* One round of housekeeping sets any number of messages aside.
SetAside(S) ==
  /\ S \subseteq accepted
  /\ aside' = aside \cup S
  /\ UNCHANGED <<accepted, taken>>

PutBack(m) ==
  /\ m \in aside
  /\ aside' = aside \ {m}
  /\ UNCHANGED <<accepted, taken>>

MailNext ==
  \/ \E m \in Messages : Accept(m) \/ TakeEffect(m) \/ PutBack(m)
  \/ \E S \in SUBSET Messages : SetAside(S)

MailSpec == MailInit /\ [][MailNext]_mailVars

Settled(m) == taken[m] = 1 \/ m \in aside

\* Nothing that was accepted stays neither done nor set aside.
EverySettled == \A m \in Messages : m \in accepted ~> Settled(m)

=============================================================================
