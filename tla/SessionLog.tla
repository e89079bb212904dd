----------------------------- MODULE SessionLog -----------------------------
(* The event log of one conversation (workbench_session_events) and the pages  *)
(* that follow it.  append_event takes an advisory lock that is held until its   *)
(* transaction ends, gives the event the next cursor and inserts it; so the log   *)
(* is a sequence of committed events and the cursor of an event is its place.    *)
(* A page lists what there is and then streams: each round fetches, from the      *)
(* database, what comes after the last cursor it has sent.                        *)
EXTENDS Integers, Sequences, SequencesExt, FiniteSetsExt

CONSTANTS
    Readers,    \* pages that follow the conversation
    Limit       \* events of one list_events query

ASSUME SessionLogAssumption == Limit \in Nat \ {0}

VARIABLES
    log,        \* committed events
    reader      \* per page: what it has been given, and its stream's `last`

Away == [on |-> FALSE, last |-> 0, sent |-> <<>>]

LogInit ==
    /\ log = <<>>
    /\ reader = [r \in Readers |-> Away]

Usages == {i \in DOMAIN log : log[i].type = "usage"}
Permissions == {i \in DOMAIN log : log[i].type = "permission"}

\* list_events: at most Limit events after a cursor, in the order of cursors.
After(last) == SubSeq(log, last + 1, Min({Len(log), last + Limit}))

LastOfAll(r, events) == Len(log)
\* The cursor of the last frame that was sent.
LastOf(r, events) == reader[r].last + Len(events)

Given(r, events) ==
    reader' = [reader EXCEPT ![r] = [on |-> TRUE, last |-> LastOf(r, events), sent |-> @.sent \o events]]

\* GET .../events: the first page; next_cursor is where the stream starts.
OpenPage(r) ==
    /\ ~reader[r].on
    /\ Given(r, After(0))
    /\ UNCHANGED log

\* One round of stream_session_events: the wakeup of Redis and the two seconds
\* of polling both end in it, and neither carries an event.
Fetch(r) ==
    /\ reader[r].on
    /\ After(reader[r].last) # <<>>
    /\ Given(r, After(reader[r].last))
    /\ UNCHANGED log

LogNext == \E r \in Readers : OpenPage(r) \/ Fetch(r)

\* What a page has is a prefix of the log, whoever appends meanwhile and
\* however long the backlog was: no event is skipped, repeated or moved
\* (workbench_routes.py:616, "the database is the only source of the order").
ReaderMissesNothing ==
    \A r \in Readers : reader[r].sent = SubSeq(log, 1, reader[r].last)

\* And an open page gets to every event, also one nobody published.
ReaderCatchesUp ==
    \A r \in Readers : \A n \in 1..4 : reader[r].on /\ Len(log) >= n ~> reader[r].last >= n
=============================================================================
