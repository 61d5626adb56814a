---------------------------- MODULE AiEvidenceMC ----------------------------
(* Two runs in one environment and on the same terms, one of them not over. *)
EXTENDS AiEvidence
CONSTANTS r1, r2

SameEnvironment == [r \in Runs |-> "market"]
SameTerms == [r \in Runs |-> "terms"]
Link(r, role) == [run |-> r, role |-> role, created |-> 0]
World(second, l) == [status |-> (r1 :> "SUCCEEDED" @@ r2 :> second), links |-> l]
Worlds == {World("PENDING", <<Link(r1, "BASELINE")>>),
           World("RUNNING", <<Link(r1, "BASELINE"), Link(r2, "CANDIDATE")>>)}
Asks(type, runs, rows, cutoff) ==
  [type |-> type, runs |-> runs, rows |-> rows, cutoff |-> cutoff, cases |-> 1, rules |-> FALSE]
Asked == {Asks("EXPERIMENT_REVIEW", {}, {}, None),
          Asks("EXPERIMENT_REVIEW", {}, {}, 1),
          Asks("PAPER_REVIEW", {}, {<<"PAPER_ACCOUNT_SNAPSHOT", "snapshot">>}, 1)}
NoMisfits == {}
Sym == Permutations(Clients)
=============================================================================
