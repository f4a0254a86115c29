----------------------------- MODULE SingleFlight -----------------------------
(***************************************************************************)
(* What coalescing promises the callers of a service: of one search at     *)
(* most one flight is under way, and whoever needs the search meanwhile    *)
(* waits for it; it is canceled by the last of those that wait, when that  *)
(* one leaves, and by nobody else; an answer is that of a flight that has  *)
(* landed, and only the caller that started it is told of a miss.          *)
(***************************************************************************)
CONSTANTS
    Callers,    \* those that need a search; a flight is named after its starter
    Searches,
    None        \* no flight, no search

VARIABLES
    flight,     \* "none", "flying" or "landed"
    search,     \* what a flight is for
    canceled,   \* the flights that have been called off
    waits,      \* the flight a caller waits for
    misses      \* the callers that were told of a miss

vars == <<flight, search, canceled, waits, misses>>

Init ==
    /\ flight = [f \in Callers |-> "none"]
    /\ search = [f \in Callers |-> None]
    /\ canceled = {}
    /\ waits = [c \in Callers |-> None]
    /\ misses = {}

Flying(k) == {f \in Callers : flight[f] = "flying" /\ search[f] = k}

\* A caller that has been aborted starts the flight and does not wait for it.
Start(c, k) ==
    /\ flight[c] = "none" /\ waits[c] = None /\ Flying(k) = {}
    /\ flight' = [flight EXCEPT ![c] = "flying"]
    /\ search' = [search EXCEPT ![c] = k]
    /\ waits' \in {waits, [waits EXCEPT ![c] = c]}
    /\ UNCHANGED <<canceled, misses>>

Join(c, k) ==
    /\ waits[c] = None
    /\ \E f \in Flying(k) : waits' = [waits EXCEPT ![c] = f]
    /\ UNCHANGED <<flight, search, canceled, misses>>

Land(f) ==
    /\ flight[f] = "flying"
    /\ flight' = [flight EXCEPT ![f] = "landed"]
    /\ UNCHANGED <<search, canceled, waits, misses>>

Answer(c) ==
    /\ waits[c] # None /\ flight[waits[c]] = "landed"
    /\ waits' = [waits EXCEPT ![c] = None]
    /\ misses' \in {misses} \cup {misses \cup {w} : w \in {c} \cap {waits[c]}}
    /\ UNCHANGED <<flight, search, canceled>>

\* The last that leaves calls off a flight that has not landed.
Leave(c) ==
    LET f == waits[c]
        abandoned == flight[f] = "flying" /\ \A d \in Callers \ {c} : waits[d] # f
    IN  /\ f # None
        /\ waits' = [waits EXCEPT ![c] = None]
        /\ canceled' = IF abandoned THEN canceled \cup {f} ELSE canceled
        /\ UNCHANGED <<flight, search, misses>>

Next ==
    \E c \in Callers :
        \/ \E k \in Searches : Start(c, k) \/ Join(c, k)
        \/ Land(c) \/ Answer(c) \/ Leave(c)

Spec == Init /\ [][Next]_vars
=============================================================================
