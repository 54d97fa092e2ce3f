------------------------------ MODULE BasisBook ------------------------------
(***************************************************************************)
(* What the Runtime promises about the set of open basis positions, with   *)
(* no mention of legs, venues, ticks or rows: while it runs, positions     *)
(* come and go one at a time and none is opened beyond the limit, keys     *)
(* that a decision trades both ways excepted; a restart restores the book  *)
(* except where a change could not be saved.                               *)
(***************************************************************************)
EXTENDS Naturals, FiniteSets

CONSTANTS Keys, MaxConcurrentPositions, StoreFaults

VARIABLES
    book,      \* the open positions
    unsaved,   \* keys whose last change may not survive a restart
    running,   \* is a Runtime of the agent alive?
    twoWay,    \* keys that the decision at hand trades both ways
    unseen     \* those of them that it opened, which the limit does not count yet

bookVars == <<book, unsaved, running, twoWay, unseen>>

TypeOK == /\ book \subseteq Keys /\ unsaved \subseteq Keys /\ running \in BOOLEAN
          /\ twoWay \subseteq Keys /\ unseen \subseteq book \intersect twoWay

NoDecision == twoWay = {} /\ unseen = {}

Init == book = {} /\ unsaved = {} /\ running = TRUE /\ NoDecision

HasRoom == \/ MaxConcurrentPositions = 0
           \/ Cardinality(book \ unseen) < MaxConcurrentPositions

\* A decision comes or has been carried out: every position counts.
Decide ==
    /\ running
    /\ twoWay' \subseteq Keys /\ unseen' = {}
    /\ UNCHANGED <<book, unsaved, running>>

\* A change of k is saved or not.
Saves(k) == unsaved' = unsaved \ {k} \/ unsaved' = unsaved \union {k}

Open(k) ==
    /\ running /\ k \notin book
    /\ k \in twoWay \/ HasRoom
    /\ book' = book \union {k}
    /\ unseen' = unseen \union ({k} \intersect twoWay)
    /\ Saves(k)
    /\ UNCHANGED <<running, twoWay>>

Close(k) ==
    /\ running /\ k \in book
    /\ book' = book \ {k}
    /\ unseen' = unseen \ {k}
    /\ Saves(k)
    /\ UNCHANGED <<running, twoWay>>

\* A crash or a shutdown changes neither what was open nor what was saved.
Halt ==
    /\ running /\ running' = FALSE
    /\ NoDecision'
    /\ UNCHANGED <<book, unsaved>>

\* A restart restores every key whose last change was saved.
Restore ==
    /\ ~running /\ running' = TRUE
    /\ book' \subseteq Keys
    /\ book' \ unsaved = book \ unsaved
    /\ unsaved' = {}
    /\ UNCHANGED <<twoWay, unseen>>

\* A restart that cannot read the store starts with an empty book.
Forget ==
    /\ StoreFaults
    /\ ~running /\ running' = TRUE
    /\ book' = {}
    /\ unsaved' \subseteq Keys
    /\ book \ unsaved \subseteq unsaved'
    /\ UNCHANGED <<twoWay, unseen>>

Next == (\E k \in Keys : Open(k) \/ Close(k)) \/ Decide \/ Halt \/ Restore \/ Forget

Spec == Init /\ [][Next]_bookVars
=============================================================================
