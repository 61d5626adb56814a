----------------------------- MODULE AiEvidence -----------------------------
(***************************************************************************)
(* How an analysis is created: a create key is claimed, the sources are    *)
(* observed one by one while they change, what was seen is kept under the  *)
(* key, and a pack of what was known at the cutoff is frozen with the gate *)
(* (ai/analysis_service.py, analysis_freeze.py, analysis_context.py,       *)
(* analysis_memory.py, source_resolvers.py, packs.py, cases.py, retrieval, *)
(* gates.py, and attach and recover of analysis_repository.py).            *)
(*                                                                         *)
(* An observation stands for the items of all fields of one source.  Its   *)
(* "since" and "files" are not in the code: the instants at which the rows *)
(* and the artifacts seen had been written.  The row of a run is read in a *)
(* transaction before the one that reads its artifacts.  A source whose    *)
(* market, currency or data end does not fit the request is in Misfits.    *)
(* Any other error of a build (a source that the policy forbids, a prompt  *)
(* that is not approved, a lost file) is Fail.  A definition that carries  *)
(* the name of the one after it and a suffix is a faulty variant.          *)
(***************************************************************************)
EXTENDS ResearchExperiment

CONSTANTS
  Clients,      \* calls of create, one at a time each
  Keys,         \* create keys
  Requests,     \* bound: what clients ask for; a request is [type, runs, rows, cutoff,
                \* cases, rules], its cutoff None if it is SERVER_FROZEN_CURRENT
  Earlier,      \* bound: the runs that an analysis before time 0 had seen
  Projections,  \* bound: which of a run, its diagnostic and its report are observed
  Experiment, Session,  \* the sources of those names
  Misfits,      \* sources that the request's market or data cutoff excludes
  Crashes       \* bound: restarts of the Core

RowKinds == {"DATASET_VERSION", "MARKET_DATA_SNAPSHOT", "STRATEGY_VERSION",
             "PAPER_ACCOUNT_SNAPSHOT", "RISK_DECISION"}

ASSUME EvidenceAssumption ==
  /\ \A q \in Requests : /\ q.cutoff \in Nat \cup {None} /\ q.runs \subseteq Runs
                          /\ \A s \in q.rows : s[1] \in RowKinds
  /\ Earlier \subseteq Runs
  /\ Projections \subseteq {"BACKTEST_RUN", "RESEARCH_DIAGNOSTIC", "RESEARCH_REPORT"}

VARIABLES
  freeze,       \* AIAnalysisContextFreeze of each key: request, owner, status, stored; or Unclaimed
  analysis,     \* the analysis of each key: None, or request, cutoff, pack, gate
  cases,        \* research cases by identity: when they were created
  packs,        \* evidence packs: case and items
  documents,    \* cases that have a document
  call,         \* the create call of each client
  claims,       \* how often each key was taken to observe (not in the code)
  crashes

store == <<freeze, analysis, cases, packs, documents, claims>>
evidenceVars == <<world, store, call, crashes>>

Idle == [at |-> "idle"]
\* a key that has no row
Unclaimed == [request |-> None, owner |-> None, status |-> "NONE", stored |-> None]
InCall(c, at) == call[c].at = at
Ends(c) == call' = [call EXCEPT ![c] = Idle]

Item(s, known, since, ranking, runs) ==
  [from |-> s, known |-> known, since |-> since, status |-> "NONE", files |-> None,
   ranking |-> ranking, runs |-> runs]

\* a run is known since it last ended, and before that since it was created;
\* its row was read before, its artifacts are read now
RunItem(s, row) ==
  [Item(s, IF row.completed = None THEN 0 ELSE row.completed, row.changed, FALSE, {s[2]})
     EXCEPT !.status = row.status, !.files = run[s[2]].written]

\* the same content is the same pack
PackOf(case, items) == [case |-> case, items |-> items]

EvidenceInit ==
  /\ WorldInit
  /\ freeze = [k \in Keys |-> Unclaimed] /\ analysis = [k \in Keys |-> None]
  /\ LET before == [request |-> None, sources |-> Earlier] IN
       /\ cases = (before :> 0) /\ documents = {}
       /\ packs = {PackOf(before, {RunItem(<<"BACKTEST_RUN", r>>, run[r]) : r \in Earlier})}
  /\ call = [c \in Clients |-> Idle]
  /\ claims = [k \in Keys |-> 0] /\ crashes = 0

-----------------------------------------------------------------------------
(* The create key                                                          *)

MovingKinds == {"RESEARCH_EXPERIMENT", "RESEARCH_COMPARISON"}
RunKinds == {"BACKTEST_RUN", "RESEARCH_DIAGNOSTIC", "RESEARCH_REPORT"}

\* find_create: an analysis under the key, or a conflict with it, ends the call
Begin(c) ==
  /\ InCall(c, "idle")
  /\ \E k \in Keys, q \in Requests :
       /\ analysis[k] = None
       /\ call' = [call EXCEPT ![c] = [at |-> "claim", key |-> k, request |-> q]]
  /\ UNCHANGED <<world, store, crashes>>

\* AnalysisContextBuilder._requests
Selected(q) ==
  q.rows \cup
  (IF q.type = "MARKET_DIAGNOSIS" THEN {}
   ELSE (({"BACKTEST_RUN", "RESEARCH_DIAGNOSTIC"} \cap Projections)
           \cup {"MARKET_DATA_SNAPSHOT"}) \X q.runs) \cup
  (IF q.type = "EXPERIMENT_REVIEW" THEN MovingKinds \X {Experiment} ELSE {}) \cup
  (IF q.type = "PAPER_REVIEW" THEN {"PAPER_SESSION", "MARKET_DATA_SNAPSHOT"} \X {Session} ELSE {})

\* a row that never changes says the same whenever it is read: it is read at once
RowItem(s) == Item(s, 0, 0, FALSE, {})
Rows(sources) == {s \in sources : s[1] \in RowKinds}

\* which frozen row lets a caller take the key
ClaimableAgain(f) == f.status \in {"NONE", "FAILED"}
Claimable(f) == f.status = "NONE"

\* ContextFreezeRepository.claim
Claim(c) ==
  /\ InCall(c, "claim") /\ Claimable(freeze[call[c].key])
  /\ LET k == call[c].key
         q == call[c].request
     IN /\ freeze' = [freeze EXCEPT ![k] = [request |-> q, owner |-> c,
                                            status |-> "OBSERVING", stored |-> None]]
        /\ claims' = [claims EXCEPT ![k] = @ + 1]
        /\ call' = [call EXCEPT ![c] = [at |-> "observe", key |-> k, request |-> q,
                      begun |-> now, todo |-> Selected(q) \ Rows(Selected(q)),
                      done |-> Rows(Selected(q)), reading |-> None,
                      items |-> {RowItem(s) : s \in Rows(Selected(q))}, faults |-> {}]]
  /\ UNCHANGED <<world, analysis, cases, packs, documents, crashes>>

\* the analysis of a key that froze is found now; a key that failed, that has
\* another request, or that another call observes for too long is refused
Refused(c) == /\ InCall(c, "claim") /\ ~Claimable(freeze[call[c].key])
              /\ Ends(c)
              /\ UNCHANGED <<world, store, crashes>>

-----------------------------------------------------------------------------
(* Observing the sources                                                   *)

\* evidence is read in the order of the names of its kinds
Rank == [BACKTEST_RUN |-> 1, PAPER_SESSION |-> 2, RESEARCH_COMPARISON |-> 3,
         RESEARCH_DIAGNOSTIC |-> 4, RESEARCH_EXPERIMENT |-> 5, RESEARCH_REPORT |-> 6]
Due(todo) == CHOOSE s \in todo : \A t \in todo : Rank[s[1]] <= Rank[t[1]]

SessionItem(s) == Item(s, session, session, FALSE, {})
LastOf(read) == Max({experiment} \cup {read.links[i].created : i \in DOMAIN read.links}
                    \cup {run[r].completed : r \in {x \in Linked(read.links) :
                                                      run[x].completed # None}})

\* links have no revisions: what was seen is known when it was seen
KnownAtUpdate(read) == LastOf(read)
Known(read) == Max({now, LastOf(read)})

\* the links were read before, the runs and the clock now
MovingItem(s, read) ==
  Item(s, Known(read),
       IF s[1] = "RESEARCH_EXPERIMENT" THEN read.since
       ELSE Max({read.since} \cup {run[r].changed : r \in Linked(read.links)}),
       s[1] = "RESEARCH_COMPARISON" /\ RankingAllowed(read.links, [r \in Runs |-> run[r].status]),
       Linked(read.links))

Links == [links |-> links, since |-> Max({experiment, relinked})]

\* a linked run is observed unless it was before
OfLinked(read, done) == ((Projections \cup {"MARKET_DATA_SNAPSHOT"}) \X Linked(read.links)) \ done

Keeps(c, s, new, more) ==
  call' = [call EXCEPT ![c].todo = (@ \ {s}) \cup (more \ Rows(more)),
                       ![c].done = @ \cup {s} \cup Rows(more), ![c].reading = None,
                       ![c].items = @ \cup {new} \cup {RowItem(r) : r \in Rows(more)}]

Looks(c, kinds) == /\ InCall(c, "observe") /\ call[c].todo # {}
                   /\ Due(call[c].todo)[1] \in kinds

LookAtSession(c) ==
  /\ Looks(c, {"PAPER_SESSION"})
  /\ LET s == Due(call[c].todo) IN Keeps(c, s, SessionItem(s), {})
  /\ UNCHANGED <<world, store, crashes>>

LookAtRow(c) ==
  /\ Looks(c, RunKinds) /\ call[c].reading = None
  /\ LET s == Due(call[c].todo) IN call' = [call EXCEPT ![c].reading = run[s[2]]]
  /\ UNCHANGED <<world, store, crashes>>

LookAtArtifacts(c) ==
  /\ Looks(c, RunKinds) /\ call[c].reading # None
  /\ LET s == Due(call[c].todo) IN Keeps(c, s, RunItem(s, call[c].reading), {})
  /\ UNCHANGED <<world, store, crashes>>

\* the experiment and its links; without a linked run there is no context
LookAtLinks(c) ==
  /\ Looks(c, MovingKinds) /\ call[c].reading = None
  /\ LET s == Due(call[c].todo) IN
       call' = IF links = <<>>
               THEN [call EXCEPT ![c].todo = @ \ {s}, ![c].done = @ \cup {s},
                                 ![c].faults = @ \cup {"TEMPORAL_METADATA_UNAVAILABLE"}]
               ELSE [call EXCEPT ![c].reading = Links]
  /\ UNCHANGED <<world, store, crashes>>

LookAtLinkedRuns(c) ==
  /\ Looks(c, MovingKinds) /\ call[c].reading # None
  /\ LET s == Due(call[c].todo) IN
       Keeps(c, s, MovingItem(s, call[c].reading),
             IF s[1] = "RESEARCH_EXPERIMENT" THEN OfLinked(call[c].reading, call[c].done) ELSE {})
  /\ UNCHANGED <<world, store, crashes>>

Owns(c) == LET f == freeze[call[c].key] IN f.owner = c /\ f.status = "OBSERVING"

\* ContextFreezeRepository.observe
Persist(c) ==
  /\ InCall(c, "observe") /\ call[c].todo = {} /\ Owns(c)
  /\ freeze[call[c].key].stored = None
  /\ freeze' = [freeze EXCEPT ![call[c].key].stored = call[c].items]
  /\ call' = [call EXCEPT ![c].at = "cut"]
  /\ UNCHANGED <<world, analysis, cases, packs, documents, claims, crashes>>

-----------------------------------------------------------------------------
(* The pack                                                                *)

\* EvidencePackService._validate_item
Valid(i, cutoff) == i.known <= cutoff /\ i.from \notin Misfits
Refusals(items, cutoff) ==
  (IF \E i \in items : i.known > cutoff THEN {"FUTURE_KNOWLEDGE"} ELSE {}) \cup
  (IF \E i \in items : i.known <= cutoff /\ i.from \in Misfits THEN {"MISFIT"} ELSE {})

\* what each type of analysis cannot do without
Lacks(q, valid) ==
  LET of(kind) == {i \in valid : i.from[1] = kind}
      ranking == of("RESEARCH_COMPARISON")
  IN (IF \/ valid = {} \/ q.type = "MARKET_DIAGNOSIS"
         \/ q.type = "STRATEGY_REVIEW" /\ of("BACKTEST_RUN") = {}
         \/ q.type = "EXPERIMENT_REVIEW" /\ ranking = {}
         \/ q.type = "PAPER_REVIEW" /\ of("PAPER_ACCOUNT_SNAPSHOT") = {}
      THEN {"INSUFFICIENT_EVIDENCE"} ELSE {}) \cup
     (IF q.type = "EXPERIMENT_REVIEW" /\ \E i \in ranking : ~i.ranking
      THEN {"NOT_COMPARABLE"} ELSE {})

\* the server's own cutoff is read after everything was observed
CutoffAtClaim(c) == call[c].begun
Cutoff(c) == now

\* a case is the same if the same is asked of sources that say the same
Case(q, items) == [request |-> q, sources |-> {<<i.from, i.since>> : i \in items}]

\* the cutoff, the items it lets through and the case
Cut(c) ==
  /\ InCall(c, "cut")
  /\ LET q == call[c].request
         cutoff == IF q.cutoff = None THEN Cutoff(c) ELSE q.cutoff
         valid == {i \in call[c].items : Valid(i, cutoff)}
         id == Case(q, valid)
     IN /\ cases' = IF id \in DOMAIN cases THEN cases ELSE (id :> now) @@ cases
        /\ call' = [call EXCEPT ![c] =
             [at |-> "recall", key |-> call[c].key, request |-> q, done |-> call[c].done,
              seen |-> call[c].items, rows |-> None,
              items |-> valid, cutoff |-> cutoff, case |-> id,
              faults |-> call[c].faults \cup Refusals(call[c].items, cutoff) \cup Lacks(q, valid)]]
  /\ UNCHANGED <<world, freeze, analysis, packs, documents, claims, crashes>>

CaseKinds(type) ==
  CASE type = "MARKET_DIAGNOSIS" -> {"DATASET_VERSION", "MARKET_DATA_SNAPSHOT"}
    [] type = "STRATEGY_REVIEW" -> {"STRATEGY_VERSION", "BACKTEST_RUN", "MARKET_DATA_SNAPSHOT",
                                    "RESEARCH_DIAGNOSTIC", "RESEARCH_COMPARISON"}
    [] type = "EXPERIMENT_REVIEW" -> RunKinds \cup MovingKinds \cup {"MARKET_DATA_SNAPSHOT"}
    [] type = "PAPER_REVIEW" -> {"PAPER_SESSION", "PAPER_ACCOUNT_SNAPSHOT", "RISK_DECISION",
                                 "STRATEGY_VERSION", "BACKTEST_RUN", "MARKET_DATA_SNAPSHOT"}

\* the row of a run that is asked again
Reread(c) ==
  /\ InCall(c, "recall")
  /\ call' = [call EXCEPT ![c].at = "reread", ![c].rows = run]
  /\ UNCHANGED <<world, freeze, analysis, cases, packs, documents, claims, crashes>>

\* what a source says: remembered if this call tried it before, else read now
Again(c, s) == IF s \in call[c].done THEN {i \in call[c].seen : i.from = s}
               ELSE IF s[1] \in RowKinds THEN {RowItem(s)}
               ELSE IF s[1] = "PAPER_SESSION" THEN {SessionItem(s)}
               ELSE IF s[1] \in RunKinds THEN {RunItem(s, call[c].rows[s[2]])}
               ELSE IF links = <<>> THEN {} ELSE {MovingItem(s, Links)}

\* resolve_case_evidence: an old item counts if its source still says the same
Recalled(c, case) ==
  {i \in UNION {p.items : p \in {x \in packs : x.case = case}} :
     /\ i.from[1] \in CaseKinds(call[c].request.type)
     /\ i \in Again(c, i.from) /\ Valid(i, call[c].cutoff)}

\* as many documented cases as asked, the ranking left open
Retrievals(c) ==
  LET eligible == {d \in documents : cases[d] <= call[c].cutoff}
  IN kSubset(Min({call[c].request.cases, Cardinality(eligible)}), eligible)

Recall(c) ==
  /\ InCall(c, "reread")
  /\ \E retrieved \in Retrievals(c) :
          LET pack == PackOf(call[c].case,
                           call[c].items \cup UNION {Recalled(c, d) : d \in retrieved})
          IN /\ packs' = packs \cup {pack}
             /\ call' = [call EXCEPT ![c] =
                  [at |-> "attach", key |-> call[c].key, request |-> call[c].request,
                   cutoff |-> call[c].cutoff, faults |-> call[c].faults, pack |-> pack]]
  /\ UNCHANGED <<world, freeze, analysis, cases, documents, claims, crashes>>

\* ResearchGate.decide
Gate(q, faults) ==
  IF faults \cap {"FUTURE_KNOWLEDGE", "MISFIT"} # {} THEN "REJECT"
  ELSE IF faults \cap {"TEMPORAL_METADATA_UNAVAILABLE", "INSUFFICIENT_EVIDENCE"} # {} \/ q.rules
       THEN "WAIT_FOR_EVIDENCE"
  ELSE IF faults # {} THEN "ABSTAIN" ELSE "PROCEED"

Attach(c) ==
  /\ InCall(c, "attach")
  /\ LET k == call[c].key
         made == [request |-> call[c].request, cutoff |-> call[c].cutoff,
                  pack |-> call[c].pack, gate |-> Gate(call[c].request, call[c].faults)]
     IN /\ analysis[k] = None /\ Owns(c)
        /\ analysis' = [analysis EXCEPT ![k] = made]
        /\ freeze' = [freeze EXCEPT ![k].status = "FROZEN"]
        /\ Ends(c)
  /\ UNCHANGED <<world, cases, packs, documents, claims, crashes>>

\* any error while the key is owned ends it
Fail(c) ==
  /\ call[c].at \in {"observe", "cut", "recall", "reread", "attach"}
  /\ freeze' = IF Owns(c) THEN [freeze EXCEPT ![call[c].key].status = "FAILED"] ELSE freeze
  /\ Ends(c)
  /\ UNCHANGED <<world, analysis, cases, packs, documents, claims, crashes>>

\* ResearchCaseDocumentService.create: once for a case
Document == /\ \E d \in DOMAIN cases \ documents : documents' = documents \cup {d}
            /\ UNCHANGED <<world, freeze, analysis, cases, packs, claims, call, crashes>>

\* the calls are lost; the next start fails the keys that were being observed
Crash == /\ crashes < Crashes /\ crashes' = crashes + 1
         /\ call' = [c \in Clients |-> Idle]
         /\ freeze' = [k \in Keys |->
              IF freeze[k].status = "OBSERVING"
              THEN [freeze[k] EXCEPT !.status = "FAILED"] ELSE freeze[k]]
         /\ UNCHANGED <<world, analysis, cases, packs, documents, claims>>

EvidenceNext ==
  \/ WorldNext /\ UNCHANGED <<store, call, crashes>>
  \/ \E c \in Clients :
       \/ Begin(c) \/ Claim(c) \/ Refused(c)
       \/ LookAtSession(c) \/ LookAtRow(c) \/ LookAtArtifacts(c)
       \/ LookAtLinks(c) \/ LookAtLinkedRuns(c) \/ Persist(c)
       \/ Cut(c) \/ Reread(c) \/ Recall(c) \/ Attach(c) \/ Fail(c)
  \/ Document \/ Crash

EvidenceSpec == EvidenceInit /\ [][EvidenceNext]_evidenceVars

-----------------------------------------------------------------------------
EvidenceTypeOK == /\ now \in 0..Horizon
          /\ \A k \in Keys :
               /\ freeze[k].status \in {"NONE", "OBSERVING", "FROZEN", "FAILED"}
               /\ claims[k] \in Nat
               /\ analysis[k] = None \/ analysis[k].pack \in packs
          /\ documents \subseteq DOMAIN cases

\* No pack tells the model what had not happened by its cutoff: whatever the
\* changes between the reads and the memory it recalled, the rows that it
\* tells of were written by then, and so were the artifacts of a run that it
\* says succeeded.  Excepted are a run that has not ended, which is known
\* since it was created, and the artifacts of one that failed, which another
\* request may have written after it failed.
NoHindsight ==
  \A k \in Keys : analysis[k] # None =>
    \A i \in analysis[k].pack.items :
      /\ i.status \notin {"PENDING", "RUNNING"} => i.since <= analysis[k].cutoff
      /\ i.status = "SUCCEEDED" => i.files <= analysis[k].cutoff

\* A create key is observed once, through failures, restarts and calls that
\* race: the analysis of a key has what was stored under it, and a key that
\* failed has none.
ObservedOnce ==
  \A k \in Keys :
    /\ claims[k] <= 1
    /\ analysis[k] # None =>
         /\ freeze[k].status = "FROZEN"
         /\ \A i \in freeze[k].stored : Valid(i, analysis[k].cutoff) => i \in analysis[k].pack.items

\* An analysis of the present never loses what it just observed to its own
\* cutoff, however long it took to observe.
PresentIsKnown ==
  \A k \in Keys : analysis[k] # None /\ analysis[k].request.cutoff = None =>
    \A i \in freeze[k].stored : i.from \notin Misfits => i \in analysis[k].pack.items

\* The gate lets an experiment pass only on a comparison with a baseline in
\* which every other run ended well, as the baseline did, in the same
\* environment and on the same terms, and still stands so.
ProceedsOnComparable ==
  \A k \in Keys :
    analysis[k] # None /\ analysis[k].request.type = "EXPERIMENT_REVIEW"
      /\ analysis[k].gate = "PROCEED" =>
    \E i \in analysis[k].pack.items :
      /\ i.from = <<"RESEARCH_COMPARISON", Experiment>>
      /\ \E b \in i.runs : \A r \in i.runs \ {b} :
           /\ run[b].status = "SUCCEEDED" /\ run[r].status = "SUCCEEDED"
           /\ Environment[b] = Environment[r] /\ Terms[b] = Terms[r]
=============================================================================
