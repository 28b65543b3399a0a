-------------------------------- MODULE Ledger --------------------------------
(***************************************************************************)
(* What emission identity amounts to for an examiner: a book of emissions  *)
(* that only grows, and in which a page, once written, is not contradicted *)
(* by a later one.                                                         *)
(***************************************************************************)
CONSTANTS
    Examiners,
    Emissions,          \* what may be written
    Contradict(_, _)    \* the two cannot both have been emitted

VARIABLE book           \* book[x]: the emissions x has accepted

Init == book = [x \in Examiners |-> {}]

Write(x) ==
    \E S \in SUBSET Emissions :
        /\ \A e, f \in book[x] \cup S : ~Contradict(e, f)
        /\ book' = [book EXCEPT ![x] = @ \cup S]

Next == \E x \in Examiners : Write(x)

Spec == Init /\ [][Next]_book
=============================================================================
