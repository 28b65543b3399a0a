------------------------------- MODULE GraphSteps -------------------------------
(***************************************************************************)
(* Steps 12 and 13 of the verifier: the receipts of a bundle form a graph  *)
(* whose edges are typed and rooted, and every dispatch is dominated by    *)
(* one authorization with a delegation that contains it.  Also the report  *)
(* on the declared origins of what dispatched actions rest on.             *)
(***************************************************************************)
EXTENDS Faults

CONSTANTS
    DagDepth,       \* LIMITS.dagDepth
    DagWidth        \* LIMITS.dagWidth

ASSUME LimitsAssumption == DagDepth \in Nat /\ DagWidth \in Nat

Parent(b, e) == Find(b.receipts, e.parent)

EdgeMatrix ==
    [derived_from |-> <<{"observation", "inference"}, {"observation", "inference"}>>,
     requested_by |-> <<{"observation", "inference"}, {"inference", "authorization", "action_attempt"}>>,
     authorized_by |-> <<{"authorization"}, {"action_attempt"}>>,
     triggered_by |-> <<{"observation", "inference"}, {"authorization", "action_attempt"}>>,
     attempted_as |-> <<{"action_attempt"}, {"dispatch"}>>,
     observed_outcome |-> <<{"action_attempt", "dispatch"}, {"outcome_observation"}>>,
     supports |-> <<{"observation", "inference", "outcome_observation"},
                    {"inference", "authorization", "outcome_observation"}>>]

RootKinds ==
    [agent_request |-> {"observation", "inference"},
     human_request |-> {"observation", "inference", "authorization"},
     standing_condition_trigger |-> {"observation", "authorization"}]

-----------------------------------------------------------------------------
\* Step 12, pass by pass

Dangling(b) ==
    ForEachEdge(b.receipts, LAMBDA r, e :
        Require(Carries(b.receipts, e.parent), "graph/dangling-parent"))

Metadata(b) ==
    ForEachEdge(b.receipts, LAMBDA r, e :
        LET p == Parent(b, e)
        IN Require(<<e.kind, e.tenant, e.site, e.epoch>> = <<p.kind, p.tenant, p.site, p.epoch>>,
                   "graph/parent-metadata-mismatch"))

Typed(b) ==
    ForEachEdge(b.receipts, LAMBDA r, e :
        Require(/\ e.type \in DOMAIN EdgeMatrix
                /\ Parent(b, e).kind \in EdgeMatrix[e.type][1]
                /\ r.kind \in EdgeMatrix[e.type][2],
                "graph/edge-illegal"))

Rooted(b) ==
    ForEach(b.receipts, LAMBDA r :
        IF r.parents = <<>>
        THEN Require(r.root # None, "graph/root-missing")
             ?? Require(r.root.kind \in DOMAIN RootKinds /\ r.kind \in RootKinds[r.root.kind],
                        "graph/root-forbidden")
        ELSE Require(r.root = None, "graph/root-forbidden"))

\* A parent of another epoch: why, and which anchored manifest it is found in.
CrossReason(e) ==
    /\ e.cross # None
    /\ \/ e.type \in {"derived_from", "supports"} /\ e.cross.reason = "historical_evidence"
       \/ e.type = "observed_outcome" /\ e.cross.reason \in {"long_running_action", "late_outcome"}

\* Mutant: the manifest is not compared with the parent's owner and epoch.
CrossAnchoredAnywhere(b, r, e) ==
    /\ Parent(b, e).epoch < r.epoch
    /\ Carries(b.manifests, e.cross.manifest) /\ Carries(b.anchors, e.cross.anchor)
    /\ Find(b.anchors, e.cross.anchor).manifest = e.cross.manifest

CrossAnchored(b, r, e) ==
    LET p == Parent(b, e)
    IN /\ p.epoch < r.epoch
       /\ Carries(b.manifests, e.cross.manifest) /\ Carries(b.anchors, e.cross.anchor)
       /\ LET m == Find(b.manifests, e.cross.manifest)
          IN <<m.epoch, m.owner, m.tenant, m.site>> = <<p.epoch, p.owner, p.tenant, p.site>>
       /\ Find(b.anchors, e.cross.anchor).manifest = e.cross.manifest

Spliced(b) ==
    ForEachEdge(b.receipts, LAMBDA r, e :
        LET p == Parent(b, e)
        IN Require(r.tenant = p.tenant /\ r.site = p.site, "graph/tenant-site-splice")
           ?? (IF r.epoch = p.epoch
               THEN Require(e.cross = None, "graph/cross-epoch-forbidden")
               ELSE Require(CrossReason(e), "graph/cross-epoch-forbidden")
                    ?? Require(CrossAnchored(b, r, e), "graph/cross-epoch-unanchored")))

-----------------------------------------------------------------------------
\* Ranks in the order of Kahn's queue

Indegree(b) == [i \in DOMAIN b.receipts |-> Len(b.receipts[i].parents)]

\* One pass over the edges to the children of i (an edge counts each time it is carried).
EdgesTo(b, i, j) == Cardinality({k \in DOMAIN b.receipts[j].parents :
                                    b.receipts[j].parents[k].parent = b.receipts[i].id})

\* The receipt at the head of the queue raises its children, and queues those whose
\* parents have all been there.
Kahn(b, s) ==
    IF s.queue = <<>> THEN s
    ELSE LET i == Head(s.queue)
             children == {j \in DOMAIN b.receipts : EdgesTo(b, i, j) > 0}
             left == [j \in DOMAIN b.receipts |-> s.indegree[j] - EdgesTo(b, i, j)] \o <<>>
         IN [queue |-> Tail(s.queue) \o SetToSeq({j \in children : left[j] = 0}), indegree |-> left,
             ranks |-> [j \in DOMAIN b.receipts |->
                           IF j \in children THEN Max({s.ranks[j], s.ranks[i] + 1}) ELSE s.ranks[j]] \o <<>>]

\* Receipts on or behind a cycle are never queued; content ids rule them out.
Ranks(b) ==
    LET roots == {i \in DOMAIN b.receipts : b.receipts[i].parents = <<>>}
        Dequeue(s) == Kahn(b, s)
    IN Loop(Len(b.receipts), Dequeue,
            [queue |-> SetToSeq(roots), indegree |-> Indegree(b), ranks |-> [i \in DOMAIN b.receipts |-> 0]]).ranks

Bounded(b) ==
    LET ranks == Ranks(b)
        Width(k) == Cardinality({i \in DOMAIN ranks : ranks[i] = k})
    IN Require(\A i \in DOMAIN ranks : ranks[i] + 1 <= DagDepth, "resource/dag-depth")
       ?? Require(\A i \in DOMAIN ranks : Width(ranks[i]) <= DagWidth, "resource/dag-width")

Graph(b) == Dangling(b) ?? Metadata(b) ?? Typed(b) ?? Rooted(b) ?? Spliced(b) ?? Bounded(b)

-----------------------------------------------------------------------------
\* Step 13: delegation chains

ScopeLists == {"actions", "targets", "purposes", "profiles"}

\* Mutant: the window of the child may be longer.
LinkValidForever(parent, child) ==
    /\ parent.from <= child.from
    /\ \A name \in ScopeLists : child.scope[name] \subseteq parent.scope[name]
    /\ parent.tenant = child.tenant /\ parent.site = child.site
    /\ parent.use = "one_time" => child.use = "one_time"
    /\ parent.invocation # None => parent.invocation = child.invocation

LinkValid(parent, child) ==
    /\ parent.from <= child.from /\ parent.until >= child.until
    /\ \A name \in ScopeLists : child.scope[name] \subseteq parent.scope[name]
    /\ parent.tenant = child.tenant /\ parent.site = child.site
    /\ parent.use = "one_time" => child.use = "one_time"
    /\ parent.invocation # None => parent.invocation = child.invocation

\* The depth-first walk over parent_delegations: a frame of the stack is a delegation
\* and the index of its next parent; of the memo, `open` are the ids that were entered
\* and `done` those that were left.
Walked(stack, open, done) == [stack |-> stack, valid |-> TRUE, open |-> open, done |-> done]

\* One round of the loop.
Walk(known, s) ==
    IF s.stack = <<>> \/ ~s.valid THEN s
    ELSE LET top == Len(s.stack)
             node == s.stack[top].node
             index == s.stack[top].index
         IN IF index > Len(node.parents)
            THEN Walked(SubSeq(s.stack, 1, top - 1), s.open \ {node.id}, s.done \cup {node.id})
            ELSE LET id == node.parents[index]
                     rest == [s.stack EXCEPT ![top].index = index + 1]
                 IN IF ~Carries(known, id) \/ ~LinkValid(Find(known, id), node) \/ id \in s.open
                    THEN [s EXCEPT !.valid = FALSE]
                    ELSE IF id \in s.done THEN Walked(rest, s.open, s.done)
                    ELSE Walked(Append(rest, [node |-> Find(known, id), index |-> 1]), s.open \cup {id}, s.done)

\* chainValid() ends when the stack is empty: each delegation is entered at most once,
\* and takes a round for each of its parents and one to be left.
ChainRounds(known, child) ==
    Cardinality({<<0, k>> : k \in 0 .. Len(child.parents)}
                \cup UNION {{<<i, k>> : k \in 0 .. Len(known[i].parents)} : i \in DOMAIN known})

DelegationChain(known, child, memo) ==
    LET Round(s) == Walk(known, s)
    IN Loop(ChainRounds(known, child), Round,
            Walked(<<[node |-> child, index |-> 1]>>, memo.open \cup {child.id}, memo.done \ {child.id}))

ChainValid(chain) == chain.valid /\ chain.stack = <<>>

-----------------------------------------------------------------------------
\* Step 13: domination

Attempt(b, d) == Find(b.receipts, EdgeOfType(d, "attempted_as").parent)
Authorization(b, attempt) == Find(b.receipts, EdgeOfType(attempt, "authorized_by").parent)

Subject(b, delegation) == Find(b.credentials, delegation.subject)

NamesSigner(b, delegation, attempt) ==
    Carries(b.credentials, delegation.subject) /\ Subject(b, delegation).subject = attempt.by

Covers(delegation, decision, attempt) ==
    /\ attempt.body.action.name \in delegation.scope.actions
    /\ attempt.body.action.target \in delegation.scope.targets
    /\ attempt.purpose \in delegation.scope.purposes
    /\ decision.profile \in delegation.scope.profiles
    /\ delegation.tenant = attempt.tenant /\ delegation.site = attempt.site
    /\ delegation.invocation # None => delegation.invocation = attempt.invocation
    /\ delegation.use = "one_time" => delegation.invocation # None

\* Mutant: the times are not compared.
CommittedBeforeBySequence(attempt, d) ==
    attempt.owner = d.owner /\ attempt.epoch = d.epoch /\ attempt.eseq < d.eseq

CommittedBefore(attempt, d) ==
    /\ attempt.owner = d.owner /\ attempt.epoch = d.epoch
    /\ attempt.eseq < d.eseq
    /\ attempt.at <= d.body.at

Excused(attempt) ==
    attempt.body.action.hazard = "life_safety" /\ attempt.body.degraded = "journal/unavailable"

Dominator(b, d) ==
    Require(/\ Sole(EdgesOfType(d, "attempted_as"))
            /\ Carries(b.receipts, EdgeOfType(d, "attempted_as").parent)
            /\ Attempt(b, d).kind = "action_attempt",
            "graph/dominator-missing")
    ?? LET attempt == Attempt(b, d)
           edges == EdgesOfType(attempt, "authorized_by")
       IN Require(edges # {}, "graph/dominator-missing")
          ?? Require(Sole(edges), "graph/dominator-ambiguous")
          ?? Require(/\ Authorization(b, attempt).kind = "authorization"
                     /\ attempt.body.authorization = Authorization(b, attempt).id,
                     "graph/dominator-missing")

\* All of step 13 for dispatch d but the chain.
Dominated(b, d) ==
    Dominator(b, d)
    ?? LET attempt == Attempt(b, d)
           body == Authorization(b, attempt).body
           delegation == body.delegation
       IN Require(body.decision.delegation = delegation.id, "graph/dominator-missing")
          ?? Require(NamesSigner(b, delegation, attempt), "delegation/scope")
          ?? Require(Covers(delegation, body.decision, attempt), "delegation/scope")
          ?? Require(attempt.at >= delegation.from, "delegation/not-yet-valid")
          ?? Require(attempt.at < delegation.until, "delegation/expired")

Journaled(b, d) ==
    LET attempt == Attempt(b, d)
    IN Require(b.profile = "AAR-3" => CommittedBefore(attempt, d) \/ Excused(attempt),
               "journal/uncommitted-dispatch")

Dispatches(b) == {d \in Elements(b.receipts) : d.kind = "dispatch"}

\* One dispatch after the other; what is known of the chains is passed on.
Dominate(b, d, memo) ==
    LET chain == DelegationChain(b.delegations, Authorization(b, Attempt(b, d)).body.delegation, memo)
        dominated == Dominated(b, d)
    IN IF dominated # OK THEN [issue |-> dominated, memo |-> memo]
       ELSE [issue |-> Require(ChainValid(chain), "delegation/chain-invalid") ?? Journaled(b, d),
             memo |-> [open |-> chain.open, done |-> chain.done]]

Dominance(b) ==
    LET after[i \in 0 .. Len(b.receipts)] ==
            IF i = 0 THEN [issue |-> OK, memo |-> [open |-> {}, done |-> {}]]
            ELSE LET before == after[i - 1]
                 IN IF before.issue # OK \/ b.receipts[i].kind # "dispatch" THEN before
                    ELSE Dominate(b, b.receipts[i], before.memo)
    IN after[Len(b.receipts)].issue

\* What AAR-3 reports of dispatches without a journal, and of refusals for its lack.
Degraded(b) ==
    b.profile = "AAR-3" /\ \E d \in Dispatches(b) : ~CommittedBefore(Attempt(b, d), d)

RefusedPreDispatch(b) ==
    b.profile = "AAR-3" /\ \E r \in Elements(b.receipts) :
        /\ r.kind = "action_attempt" /\ r.body.disposition = "not_dispatched"
        /\ r.body.refusal = "journal/unavailable"
        /\ \A d \in Dispatches(b) : Attempt(b, d).id # r.id

-----------------------------------------------------------------------------
\* Declared origins of what an attempt rests on

RestsOn(e) == e.type \notin {"attempted_as", "observed_outcome"}

Ancestry(b, ids) ==
    Reach([id \in {r.id : r \in Elements(b.receipts)} |->
              {e.parent : e \in {e \in Elements(Find(b.receipts, id).parents) : RestsOn(e)}}], ids)

\* The slots of a receipt: each is the set of its declared origins, or None.
Slots(r) ==
    IF r.kind = "inference" THEN <<r.body.origins>>
    ELSE IF r.kind = "observation"
    THEN LET used == SelectSeq(r.body.items, LAMBDA item : item.disposition = "used")
         IN [i \in DOMAIN used |-> IF used[i].origin = None THEN None ELSE {used[i].origin}]
    ELSE <<>>

SlotsOf(b, ids) == UNION {Elements(Slots(Find(b.receipts, id))) : id \in ids}

Dispatched(b) == {Attempt(b, d).id : d \in Dispatches(b)}

InputOrigins(b) ==
    LET slots == SlotsOf(b, Ancestry(b, Dispatched(b)))
        declared == slots \ {None}
    IN [limit |-> IF slots = {} THEN "not_evaluated"
                  ELSE IF declared = {} THEN "not_declared"
                  ELSE IF None \notin slots THEN "declared_only" ELSE "partially_declared",
        untrusted |-> (UNION declared) \cap {"third_party", "device_sensed", "unknown"} # {}]
=============================================================================
