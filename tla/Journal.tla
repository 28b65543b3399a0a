------------------------------- MODULE Journal -------------------------------
(***************************************************************************)
(* The enforcement point's invocation journal (demo/ep/journal.ts): one    *)
(* JSON-lines file, opened for append and fsynced for every record, read   *)
(* back in full before a dispatch.                                         *)
(*                                                                         *)
(* A record is abstracted to its invocation and its event.  The file is    *)
(* kept as one sequence of events per invocation, because every reader     *)
(* filters by invocation and none compares records of two invocations;     *)
(* what the invocations do share is `torn': a line of the file that does   *)
(* not parse, after which records() throws for all of them.                *)
(***************************************************************************)
EXTENDS Deployment, Sequences

VARIABLES
    journal,                    \* journal[i]: the events recorded for i, in file order
    torn                        \* some line of the file is not a JSON value

journalVars == <<journal, torn>>

Events == {"request_signed", "authorization_evaluated", "refusal_persisted",
           "action_attempt_committed", "dispatch_intent_persisted",
           "dispatch_observed", "pre_transport_refusal_observed",
           "bundle_emitted"}

JournalTypeOK ==
    /\ journal \in [Inv -> Seq(Events)]
    /\ torn \in BOOLEAN

JournalInit ==
    /\ journal = [i \in Inv |-> <<>>]
    /\ torn = FALSE

\* Mutant: an intent alone does not forbid another dispatch.
OpensDispatchLate(e) == e = "dispatch_observed"

OpensDispatch(e)  == e \in {"dispatch_intent_persisted", "dispatch_observed"}
ClosesDispatch(e) == e = "pre_transport_refusal_observed"

(***************************************************************************)
(* mustNotRedispatch: the loop keeps TRUE from the last opening record     *)
(* that no closing record follows.                                         *)
(***************************************************************************)
PendingIn(log) ==
    \E k \in DOMAIN log :
        /\ OpensDispatch(log[k])
        /\ \A m \in DOMAIN log : m > k => ~ClosesDispatch(log[m])

MustNotRedispatch(i) == PendingIn(journal[i])

\* The whole line reached the file.
Persist(i, e) ==
    /\ journal' = [journal EXCEPT ![i] = Append(@, e)]
    /\ UNCHANGED torn

\* Part of the line reached the file (a short write, or a crash in the write).
Tear ==
    /\ torn' = TRUE
    /\ UNCHANGED journal

\* append() returns: write() does not check how much of the line it wrote.
AppendReturns(i, e) == Persist(i, e) \/ Tear

\* append() throws: nothing, a part, or all of the line was written before
\* open, write, sync or close failed.
AppendThrows(i, e) == UNCHANGED journalVars \/ Persist(i, e) \/ Tear
=============================================================================
