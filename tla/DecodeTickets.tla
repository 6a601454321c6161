--------------------------- MODULE DecodeTickets ---------------------------
(***************************************************************************)
(* What the decode scheduler promises its caller, without a heap, a lock or *)
(* a worker.  Asking for a page opens a ticket, at most one per key.  An    *)
(* open ticket is either answered once or withdrawn, and a withdrawn ticket *)
(* is never answered: a page asked for again gets a new ticket.  Once the   *)
(* scheduler is closed nothing is open and nothing is ever answered.        *)
(***************************************************************************)
EXTENDS Integers

CONSTANTS Key, MaxTickets

VARIABLES
    next,       \* the number of the next ticket
    open,       \* tickets neither answered nor withdrawn
    answered,   \* tickets whose result was adopted
    closed

vars == <<next, open, answered, closed>>

Init ==
    /\ next = 0
    /\ open = {}
    /\ answered = {}
    /\ closed = FALSE

Ask(k) ==
    /\ ~closed
    /\ next < MaxTickets
    /\ \A t \in open : t.key # k
    /\ open' = open \cup {[id |-> next, key |-> k]}
    /\ next' = next + 1
    /\ UNCHANGED <<answered, closed>>

Withdraw ==
    /\ open' \in SUBSET open
    /\ UNCHANGED <<next, answered, closed>>

Answer(t) ==
    /\ open' = open \ {t}
    /\ answered' = answered \cup {t}
    /\ UNCHANGED <<next, closed>>

Close ==
    /\ closed' = TRUE
    /\ open' = {}
    /\ UNCHANGED <<next, answered>>

Next ==
    \/ \E k \in Key : Ask(k)
    \/ Withdraw
    \/ \E t \in open : Answer(t)
    \/ Close

Spec == Init /\ [][Next]_vars

=============================================================================
