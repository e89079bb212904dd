------------------------------- MODULE MCDesk -------------------------------
(* The tasks of a project in line (Ledger), and one task with the pages that show   *)
(* it (Desk).  The two have rows of their own, so an initial state chooses the part    *)
(* that moves; a task on the desk has either a budget and a person who answers, or      *)
(* a driver that may die.                                                                *)
EXTENDS MCLedger, Desk

CONSTANT MaxWindow      \* bound: events that are written while a page is read

VARIABLE side
mcVars == <<side, ledgerVars, deskVars>>

QueueInitial == side = "queue" /\ Init /\ DeskInit /\ row.limit = NoCap
DeskInitial ==
    /\ side = "desk" /\ Init
    /\ \E cap \in Caps :
          /\ row = [state |-> "QUEUED", why |-> "", step |-> 0, active |-> 0, used |-> 0,
                    limit |-> cap, cancel |-> FALSE]
          /\ asks = IF cap = NoCap THEN MaxAsks ELSE 0
          /\ deaths = IF cap = NoCap THEN 0 ELSE MaxDeaths
    /\ tries = <<>> /\ log = <<>> /\ latest = [k \in Index |-> 0]
    /\ ask = NoQuestion /\ phase = "off" /\ page = NoPage
MCInit == QueueInitial \/ DeskInitial

\* A page that is complete stays as it is.
Watched == page = NoPage \/ (page.left # <<>> /\ Len(log') <= page.since + MaxWindow)
MCNext ==
    \/ side = "queue" /\ Next /\ UNCHANGED <<side, deskVars>>
    \/ side = "desk" /\ DeskNext /\ Watched /\ UNCHANGED <<side, ledgerVars>>
MCSpec == MCInit /\ [][MCNext]_mcVars

\* The desk without these bounds.
DeskOnly == /\ side = "desk" /\ Init /\ DeskInit
            /\ [][DeskNext /\ UNCHANGED <<side, ledgerVars>>]_mcVars
=============================================================================
