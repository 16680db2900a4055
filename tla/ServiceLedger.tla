---------------------------- MODULE ServiceLedger ----------------------------
(***************************************************************************)
(* What the execution boundary promises to the household: a ledger with a  *)
(* page for every turn and a book of what was reported.  A service call is *)
(* entered only while it is permitted, and never for a request that is     *)
(* already in the book; what a turn reports tells of all its calls but the *)
(* last at least, and is what a repeat of the request will be told.        *)
(***************************************************************************)
EXTENDS Naturals

CONSTANTS
  Turns,
  Refusals,  \* reports of a turn that was turned away
  Unrecorded \* reports that leave the request open

VARIABLES
  permitted, \* revisions under which service calls may be made
  page,      \* state, request, revision, calls and report of every turn
  book       \* reports by request

vars == <<permitted, page, book>>

Init ==
  /\ \A t \in Turns : page[t].state = "idle" /\ page[t].calls = 0
  /\ book = {}

Only(t) == \A u \in Turns \ {t} : page'[u] = page[u]

SameRequest(t) ==
  /\ page'[t].request = page[t].request
  /\ page'[t].rev = page[t].rev
  /\ page'[t].replays = page[t].replays

\* What the book says of a request that must not be acted on twice.
Entries(entry) ==
  {r \in book : entry.replays /\ r.key = entry.request}

\* The first call of a turn.
Begin(t) ==
  /\ page[t].state = "idle"
  /\ page'[t].state = "calling"
  /\ page'[t].rev \in permitted
  /\ Entries(page'[t]) = {}
  /\ page'[t].calls = 1
  /\ Only(t)
  /\ UNCHANGED <<permitted, book>>

\* One call more.
Continue(t) ==
  /\ page[t].state = "calling" /\ page'[t].state = "calling"
  /\ SameRequest(t)
  /\ page[t].rev \in permitted
  /\ page'[t].calls = page[t].calls + 1
  /\ Only(t)
  /\ UNCHANGED <<permitted, book>>

Report(t) ==
  LET report == page'[t].report
  IN /\ page[t].state = "calling" /\ page'[t].state = "answered"
     /\ SameRequest(t)
     /\ page'[t].calls = page[t].calls
     /\ report.key \notin Refusals
     /\ IF report.key \in Unrecorded
          THEN book' = book
          ELSE /\ report.verified \in {page[t].calls - 1, page[t].calls}
               /\ book' =
                    IF page[t].replays
                      THEN {r \in book : r.key # page[t].request}
                             \cup {[key |-> page[t].request, answer |-> report]}
                      ELSE book
     /\ Only(t)
     /\ UNCHANGED permitted

\* Refused, or told what an earlier turn was told.
TurnAway(t) ==
  /\ page[t].state = "idle"
  /\ page'[t].state = "answered"
  /\ page'[t].calls = 0
  /\ \/ page'[t].report.key \in Refusals
     \/ \E r \in Entries(page'[t]) : r.answer = page'[t].report
  /\ Only(t)
  /\ UNCHANGED <<permitted, book>>

\* Permission comes and goes as it likes.
Permit == UNCHANGED <<page, book>>

Next ==
  \/ \E t \in Turns : Begin(t) \/ Continue(t) \/ Report(t) \/ TurnAway(t)
  \/ Permit

Spec == Init /\ [][Next]_vars
=============================================================================
