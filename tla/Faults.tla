--------------------------------- MODULE Faults ---------------------------------
(***************************************************************************)
(* How the verifier reports: a check yields a reason code or nothing, and  *)
(* the first code found, in the order of the source, is the answer.        *)
(***************************************************************************)
EXTENDS Integers, FiniteSets, SequencesExt

CONSTANT None       \* an absent field, a lookup without a result

OK == "ok"

\* A member that is present, but null or of another type than its own.
Null == "null"

\* The `??` of TypeScript on B1Failure | undefined.
a ?? b == IF a = OK THEN b ELSE a

Require(condition, code) == IF condition THEN OK ELSE code

\* The first code of an array of them.
FirstCode(codes) ==
    LET bad == {i \in DOMAIN codes : codes[i] # OK}
    IN IF bad = {} THEN OK ELSE codes[Min(bad)]

\* for (const x of s) { const issue = Fault(x); if (issue) return issue; }
ForEach(s, Fault(_)) == FirstCode([i \in DOMAIN s |-> Fault(s[i])])

\* The same over a nested array: a receipt and one of its parent edges.
ForEachEdge(receipts, Fault(_, _)) ==
    ForEach(receipts, LAMBDA r : ForEach(r.parents, LAMBDA e : Fault(r, e)))

\* Array.map().  TLC evaluates a function when it is applied, a concatenation at once.
Mapped(s, F(_)) == [i \in DOMAIN s |-> F(s[i])] \o <<>>

Elements(s) == {s[i] : i \in DOMAIN s}

\* Array.find, for a carried artifact that is known to exist.
Find(s, id) == s[CHOOSE i \in DOMAIN s : s[i].id = id]
Carries(s, id) == \E i \in DOMAIN s : s[i].id = id

\* The places of the edges of one type among the parents of a receipt, and the first.
EdgesOfType(r, type) == {k \in DOMAIN r.parents : r.parents[k].type = type}
EdgeOfType(r, type) == r.parents[Min(EdgesOfType(r, type))]
Sole(places) == \E k \in places : places = {k}

-----------------------------------------------------------------------------
\* The loops of the source that a bound on the rounds makes functions

\* F over and over again: a round that has nothing to do leaves its argument alone.
Loop(rounds, F(_), x) ==
    LET after[n \in 0 .. rounds] == IF n = 0 THEN x ELSE F(after[n - 1])
    IN after[rounds]

\* What `start` leads to over the links next[x], in any number of steps.
Reach(next, start) ==
    LET reached[n \in 0 .. Cardinality(DOMAIN next)] ==
            IF n = 0 THEN start
            ELSE LET before == reached[n - 1]
                 IN before \cup UNION {next[x] : x \in before \cap DOMAIN next}
    IN reached[Cardinality(DOMAIN next)]
=============================================================================
