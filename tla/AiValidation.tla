----------------------------- MODULE AiValidation -----------------------------
(***************************************************************************)
(* What the two stages of an analysis accept of a model's answers          *)
(* (ai/validation.py, and the loop of analysis_execution._stage around     *)
(* it).  Each answer is judged against the frozen evidence pack and        *)
(* against the words of all earlier answers; an accepted diagnosis is      *)
(* followed by the recommendation, a refused answer by another one or by   *)
(* the end of the analysis.                                                *)
(*                                                                         *)
(* What AiAnalysis models is left out: budget, lost calls, cancellations,  *)
(* restarts and the gate between the stages.  The words of earlier answers *)
(* are read from the validation results, which survive them.  TEMPORAL_LEAK*)
(* and the freshness findings are left out too: what was not known at the  *)
(* cutoff is never in a pack (AiEvidence), and the preflight stops every   *)
(* request for more than historical data.                                  *)
(*                                                                         *)
(* Numbers are whole; ratios are in percent, and cut to it.  A text may    *)
(* read as a number, as an infinity or as a date with its time.  Booleans, *)
(* lists and the literals Infinity and NaN are left out.                   *)
(*                                                                         *)
(* A definition named after the one that follows it (SafetyKnown before    *)
(* Safety) is a faulty variant: the run must fail when it takes the        *)
(* other's place.                                                          *)
(***************************************************************************)
EXTENDS Integers, Sequences, SequencesExt, FiniteSets

CONSTANTS
  Pack,      \* the evidence: [value, semantic, unit, subject, note] of each reference
  Words,     \* values that are not numbers
  Recast,    \* texts that read as a number, and that number
  Plain,     \* those of them that the canonical form writes for the number
  NotFinite, \* texts that read as an infinity, and its sign, or as no number: 0
  Instant,   \* texts that read as a time with its zone, and that time
  Flat,      \* the absolute tolerance of each type of number
  Part,      \* a relative tolerance is one in so many
  Answers    \* bound: what the model may answer in stages 1 and 2

Relative == {"NUMBER", "RATIO"}
Numeric == Relative \cup {"MONEY", "COUNT"}

Predicates == {"EQ", "NE", "GT", "GTE", "LT", "LTE", "DELTA", "PERCENT_CHANGE"}

\* the schema of a claim, as far as it tells claims apart here
ClaimFits(c) == /\ c.type \in {"FACT", "INFERENCE", "HYPOTHESIS"} /\ c.predicate \in Predicates
                /\ c.value \in Int \cup Words
                /\ c.refs \in Seq(STRING) /\ c.operands \in Seq(STRING)
                /\ c.float => c.value \in Int
                /\ c.veiled # {} => c.form = "lost"

ASSUME ValidationAssumption ==
  /\ \A w \in Words : w \notin Int
  /\ DOMAIN Recast \subseteq Words /\ \A w \in DOMAIN Recast : Recast[w] \in Int
  /\ Plain \subseteq DOMAIN Recast
  /\ DOMAIN NotFinite \subseteq Words \ DOMAIN Recast
  /\ \A w \in DOMAIN NotFinite : NotFinite[w] \in {-1, 0, 1}
  /\ DOMAIN Instant \subseteq Words /\ \A w \in DOMAIN Instant : Instant[w] \in Int
  /\ Flat \in [Numeric -> Nat] /\ Part \in Nat \ {0}
  /\ \A r \in DOMAIN Pack :
       /\ Pack[r].value \in Int \cup Words
       /\ Pack[r].semantic \in Numeric => Pack[r].value \notin DOMAIN NotFinite
  /\ \A n \in {1, 2} : \A a \in Answers[n] :
       /\ Len(a.claims) \in Nat /\ DOMAIN a.claims = 1 .. Len(a.claims)
       /\ \A i \in DOMAIN a.claims : ClaimFits(a.claims[i])
       /\ a.veiled # {} => ~a.whole

VARIABLES
  stage,     \* 1: diagnosis, 2: recommendation
  records,   \* the validation results: stage, answer, codes and words of each
  outcome    \* "OPEN", the outcome of the analysis, or "KILLED" by an error

vars == <<stage, records, outcome>>

Init == stage = 1 /\ records = <<>> /\ outcome = "OPEN"

-----------------------------------------------------------------------------
(* Claims.  One is [id, type, subject, predicate, value, float, unit, refs, *)
(* operands, veiled, form]; its form is "sound", "display" if no more is    *)
(* wrong than its id, its text or a key too many, and else "lost".  What is *)
(* veiled, of "refs" and "operands", is not a list of texts; of a list with *)
(* other things in it, refs and operands hold the texts.                    *)

Derived(c) == c.predicate \in {"DELTA", "PERCENT_CHANGE"}
IsFact(c) == c.type = "FACT"
Named(c) == ToSet(c.refs) \cup ToSet(c.operands)

\* _decimal: a text may read as a number
Kept(v) == IF v \in DOMAIN Recast THEN Recast[v] ELSE v
IsFinite(v) == Kept(v) \notin Words
IsNumber(v) == IsFinite(v) \/ v \in DOMAIN NotFinite

Distance(a, b) == IF a < b THEN b - a ELSE a - b
Tolerance(semantic, right) ==
  LET part == Distance(right, 0) \div Part
  IN IF semantic \in Relative /\ part > Flat[semantic] THEN part ELSE Flat[semantic]

\* _values_equal; an infinite right side makes a relative tolerance infinite
Equal(a, b, semantic) ==
  IF semantic \in Numeric /\ IsNumber(a) /\ IsNumber(b)
  THEN IF IsFinite(a) /\ IsFinite(b)
       THEN Distance(Kept(a), Kept(b)) <= Tolerance(semantic, Kept(b))
       ELSE semantic \in Relative /\ ~IsFinite(b)
  ELSE a = b

\* where it fails: no number compares, and no infinity is subtracted from itself
Fails(a, b, semantic) ==
  /\ semantic \in Numeric /\ IsNumber(a) /\ IsNumber(b)
  /\ \/ \E v \in {a, b} : ~IsFinite(v) /\ NotFinite[v] = 0
     \/ ~IsFinite(a) /\ ~IsFinite(b) /\ NotFinite[a] = NotFinite[b]

\* _ordered_value
Comparable(item, v) ==
  \/ item.semantic = "DATETIME" /\ item.value \in DOMAIN Instant /\ v \in DOMAIN Instant
  \/ item.semantic \in Numeric /\ IsNumber(item.value) /\ IsNumber(v)
Sign(v) == IF IsFinite(v) THEN 0 ELSE NotFinite[v]
Before(a, b, semantic) ==
  IF semantic = "DATETIME" THEN Instant[a] < Instant[b]
  ELSE IF IsFinite(a) /\ IsFinite(b) THEN Kept(a) < Kept(b) ELSE Sign(a) < Sign(b)

\* _predicate_matches
Holds(predicate, item, v) ==
  LET equal == Equal(item.value, v, item.semantic)
      above == Before(v, item.value, item.semantic)
      below == Before(item.value, v, item.semantic)
  IN CASE predicate = "EQ"  -> equal
       [] predicate = "NE"  -> ~equal
       [] predicate = "GT"  -> above
       [] predicate = "GTE" -> above \/ equal
       [] predicate = "LT"  -> below
       [] predicate = "LTE" -> below \/ equal
Unsupported(predicate, item, v) ==
  \/ Fails(item.value, v, item.semantic)
  \/ predicate \notin {"EQ", "NE"} /\ ~Comparable(item, v)

Operand(c, n) == Pack[c.operands[n]]
Computed(c) ==
  LET first == Kept(Operand(c, 1).value)
      second == Kept(Operand(c, 2).value)
  IN IF c.predicate = "DELTA" THEN first - second
     ELSE (100 * (second - first)) \div Distance(first, 0)
ResultSemantic(c) == IF c.predicate = "DELTA" THEN Operand(c, 1).semantic ELSE "RATIO"

-----------------------------------------------------------------------------
(* What is wrong with a claim.                                             *)

Compared(c) == IF Derived(c) THEN c.operands ELSE c.refs
UnitsFit(c) ==
  /\ Cardinality({Pack[r].unit : r \in ToSet(Compared(c))}) = 1
  /\ c.unit = IF c.predicate = "PERCENT_CHANGE" THEN "RATIO" ELSE Pack[Compared(c)[1]].unit

FromNotesOnly(c) == \A r \in Named(c) : Pack[r].note
FromNotes(c) == \E r \in Named(c) : Pack[r].note

\* the checks after which a claim is not looked at any further
Unfit(c) ==
  IF IsFact(c) /\ Compared(c) = <<>> THEN {"FACT_EVIDENCE_REQUIRED"}
  ELSE IF c.type = "INFERENCE" /\ c.refs = <<>> THEN {"INFERENCE_EVIDENCE_REQUIRED"}
  ELSE IF Derived(c) /\ Len(c.operands) # 2 THEN {"DERIVED_OPERANDS_INVALID"}
  ELSE IF ~ (Named(c) \subseteq DOMAIN Pack) THEN {"EVIDENCE_REF_NOT_FOUND"}
  ELSE IF (Derived(c) \/ IsFact(c)) /\ ~UnitsFit(c) THEN {"EVIDENCE_UNIT_MISMATCH"}
  ELSE IF IsFact(c) /\ FromNotes(c) THEN {"USER_NOTE_CANNOT_SUPPORT_FACT"}
  ELSE IF Derived(c) /\ \E n \in {1, 2} : \/ Operand(c, n).semantic \notin Numeric
                                          \/ ~IsNumber(Operand(c, n).value)
    THEN {"DERIVED_OPERAND_NOT_NUMERIC"}
  ELSE IF c.predicate = "PERCENT_CHANGE" /\ Kept(Operand(c, 1).value) = 0
    THEN {"DERIVED_DIVISION_BY_ZERO"}
  ELSE {}

Unproved(c) ==
  IF Derived(c)
  THEN IF Equal(c.value, Computed(c), ResultSemantic(c)) THEN {} ELSE {"EVIDENCE_VALUE_MISMATCH"}
  ELSE IF ~IsFact(c) THEN {}
  ELSE UNION {IF Unsupported(c.predicate, Pack[r], c.value)
              THEN {"SEMANTIC_PREDICATE_NOT_SUPPORTED"}
              ELSE IF Holds(c.predicate, Pack[r], c.value) THEN {}
              ELSE {"EVIDENCE_VALUE_MISMATCH"} : r \in ToSet(c.refs)}

-----------------------------------------------------------------------------
(* What a claim says, and what was said before.                            *)

\* _canonical_subject
Subject(c) ==
  LET subjects == {Pack[r].subject : r \in Named(c) \cap DOMAIN Pack}
  IN IF Cardinality(subjects) = 1 THEN CHOOSE s \in subjects : TRUE ELSE c.subject

\* _drift_group: a claim that the same evidence was cited for in other words
Times(s) == [r \in ToSet(s) |-> Cardinality({i \in DOMAIN s : s[i] = r})]
Group(c) == <<c.type, Subject(c), c.predicate, c.unit, ToSet(c.refs),
              Len(c.operands), Times(c.operands)>>

\* a decimal is remembered as its text
Word(c, value, text) ==
  [group |-> Group(c), operands |-> c.operands, value |-> value, text |-> text]

\* the assertions and observations of every result so far; of a group the last counts
SaidIn(i, group) == {k \in DOMAIN records[i].words : records[i].words[k].group = group}
SaidOf(group) == {i \in DOMAIN records : SaidIn(i, group) # {}}
LastSaid(group) == LET i == Max(SaidOf(group))
                   IN records[i].words[Max(SaidIn(i, group))]

\* the type by which two words are compared
Semantic(c) == IF c.operands # <<>> /\ c.operands[1] \in DOMAIN Pack THEN Operand(c, 1).semantic
               ELSE IF c.refs # <<>> /\ c.refs[1] \in DOMAIN Pack THEN Pack[c.refs[1]].semantic
               ELSE "NUMBER"

Repeats(c, prior) ==
  IF prior.text /\ ~ (Semantic(c) \in Numeric /\ IsNumber(c.value))
  THEN c.value \in Plain /\ Kept(c.value) = prior.value
  ELSE Equal(prior.value, c.value, Semantic(c))

Drifts(c) ==
  /\ SaidOf(Group(c)) # {}
  /\ LET prior == LastSaid(Group(c)) IN prior.operands # c.operands \/ ~Repeats(c, prior)

\* a comparison outside of what catches its failure
Breaks(c) ==
  /\ Unfit(c) = {}
  /\ \/ Derived(c) /\ Fails(c.value, Computed(c), ResultSemantic(c))
     \/ /\ SaidOf(Group(c)) # {}
        /\ LET prior == LastSaid(Group(c))
           IN prior.operands = c.operands /\ Fails(prior.value, c.value, Semantic(c))

-----------------------------------------------------------------------------
(* Answers.  One is [parses, whole, actions, offtopic, misbound, cited,     *)
(* claims, veiled]: whether it is JSON, whether the envelope around its     *)
(* claims fits the schema, the actions named anywhere in it, whether it     *)
(* names another analysis type or another diagnosis, the evidence its       *)
(* envelope cites, its claims, and which of "cited" and "claims" is no list.*)

\* a diagnosis asks for nothing, a recommendation for research only
Allowed == {"CREATE_EXPERIMENT_DRAFT", "ADD_RESEARCH_JOURNAL_DRAFT", "CREATE_THESIS_REVISION_DRAFT",
            "WAIT_FOR_MORE_DATA", "REVIEW_STRATEGY", "REVIEW_PAPER_RESULTS"}
Oversteps(a, n) == IF n = 1 THEN a.actions # {} ELSE ~ (a.actions \subseteq Allowed)

Malformed(a) == ~a.whole \/ \E i \in DOMAIN a.claims : a.claims[i].form # "sound"
Listed(a) == IF "claims" \in a.veiled THEN {} ELSE DOMAIN a.claims
Recognized(a) == {i \in Listed(a) : a.claims[i].form # "lost"}
Readable(a) == {a.claims[i] : i \in Recognized(a)}

\* _reference_safety_findings: of a malformed answer too, as far as it is a list
Open(c) == (IF "refs" \in c.veiled THEN {} ELSE ToSet(c.refs))
             \cup (IF "operands" \in c.veiled THEN {} ELSE ToSet(c.operands))
SafetyKnown(a, n) == UNION {Named(c) : c \in Readable(a)} \subseteq DOMAIN Pack
Safety(a, n) ==
  /\ \A i \in Listed(a) : Open(a.claims[i]) \subseteq DOMAIN Pack
  /\ n = 2 /\ "cited" \notin a.veiled => a.cited \subseteq DOMAIN Pack

ClaimCodes(c) ==
  IF Unfit(c) # {} THEN Unfit(c)
  ELSE Unproved(c) \cup (IF Drifts(c) THEN {"IMMUTABLE_FACT_DRIFT"} ELSE {})

EnvelopeCodes(a, n) ==
  {code \in {"SCHEMA_INVALID", "FORBIDDEN_AI_AUTHORITY", "EVIDENCE_REF_NOT_FOUND",
             "ANALYSIS_TYPE_MISMATCH", "DIAGNOSIS_REF_MISMATCH", "DUPLICATE_CLAIM_ID"} :
     \/ code = "SCHEMA_INVALID" /\ Malformed(a)
     \/ code = "FORBIDDEN_AI_AUTHORITY" /\ Oversteps(a, n)
     \/ code = "EVIDENCE_REF_NOT_FOUND" /\ ~Safety(a, n)
     \/ code = "ANALYSIS_TYPE_MISMATCH" /\ a.offtopic
     \/ code = "DIAGNOSIS_REF_MISMATCH" /\ n = 2 /\ a.misbound
     \/ code = "DUPLICATE_CLAIM_ID"
        /\ \E i, j \in Recognized(a) : i # j /\ a.claims[i].id = a.claims[j].id}

\* ValidationService.validate
Codes(a, n) ==
  IF ~a.parses THEN {"SYNTAX_INVALID"}
  ELSE EnvelopeCodes(a, n) \cup (UNION {ClaimCodes(c) : c \in Readable(a)})

Retryable == {"SYNTAX_INVALID", "SCHEMA_INVALID", "DUPLICATE_CLAIM_ID", "FACT_EVIDENCE_REQUIRED",
              "INFERENCE_EVIDENCE_REQUIRED", "DERIVED_OPERANDS_INVALID"}

\* what is grounded is what is kept
Grounded(c) == IF Derived(c) THEN Computed(c) ELSE IF IsFact(c) THEN Kept(c.value) ELSE c.value

AsText(c) == Derived(c) \/ (IsFact(c) /\ IsNumber(c.value))

\* what a result remembers: an answer refused for anything but its form leaves nothing
WordsOfAccepted(a, codes) ==
  IF codes = {}
  THEN [i \in DOMAIN a.claims |-> Word(a.claims[i], Grounded(a.claims[i]), AsText(a.claims[i]))]
  ELSE <<>>
WordsOf(a, codes) ==
  IF codes = {}
  THEN [i \in DOMAIN a.claims |-> Word(a.claims[i], Grounded(a.claims[i]), AsText(a.claims[i]))]
  ELSE IF a.parses /\ Malformed(a)
  THEN [i \in Recognized(a) |-> Word(a.claims[i], a.claims[i].value, FALSE)]
  ELSE <<>>

\* the canonical form of a result has no floats and no infinite decimals, and
\* only a FACT's value and what was computed are made decimals
Unwritable(a, codes) ==
  {i \in Recognized(a) :
     LET c == a.claims[i]
     IN IF codes = {} /\ (IsFact(c) \/ Derived(c))
        THEN ~Derived(c) /\ c.value \in DOMAIN NotFinite
        ELSE c.float /\ (codes = {} \/ Malformed(a))}

-----------------------------------------------------------------------------
(* One turn of the loop of _stage: the answer of a completed attempt is     *)
(* validated, the result recorded, and the analysis goes on or ends.  An    *)
(* error of a value ends it as rejected.  Any other kills the execution,    *)
(* and each later one meets it again: a comparison that fails, a float that *)
(* cannot be recorded, and one in an accepted answer, of which the recorded *)
(* result says only the decimal, when the answer itself is kept (_accept).  *)

OfStage(n) == {i \in DOMAIN records : records[i].stage = n}

Goes(n, codes) ==
  IF codes = {} THEN IF n = 1 THEN "OPEN" ELSE "COMPLETED"
  ELSE IF codes \subseteq Retryable
  THEN IF Cardinality(OfStage(n)) < 2 THEN "OPEN" ELSE "VALIDATION_FAILED"
  ELSE "REJECTED"

Judge(a) ==
  /\ outcome = "OPEN"
  /\ LET codes == Codes(a, stage)
         unwritable == Unwritable(a, codes)
         fails == a.parses /\ \E c \in Readable(a) : Breaks(c)
         kept == codes = {} => \A c \in ToSet(a.claims) : ~c.float
     IN IF ~fails /\ unwritable = {}
        THEN /\ records' = Append(records, [stage |-> stage, answer |-> a, codes |-> codes,
                                            words |-> WordsOf(a, codes)])
             /\ outcome' = IF kept THEN Goes(stage, codes) ELSE "KILLED"
             /\ stage' = IF codes = {} /\ kept THEN 2 ELSE stage
        ELSE /\ outcome' = IF fails \/ a.claims[Min(unwritable)].float THEN "KILLED" ELSE "REJECTED"
             /\ UNCHANGED <<stage, records>>

Next == \E a \in Answers[stage] : Judge(a)

Spec == Init /\ [][Next]_vars

-----------------------------------------------------------------------------
TypeOK == /\ stage \in {1, 2}
          /\ outcome \in {"OPEN", "COMPLETED", "REJECTED", "VALIDATION_FAILED", "KILLED"}
          /\ \A i \in DOMAIN records : /\ records[i].stage \in {1, 2}
                                       /\ records[i].answer \in Answers[records[i].stage]

AcceptedAnswers == {i \in DOMAIN records : records[i].codes = {}}

\* the truth of a claim in the pack, by itself: texts that read as numbers
\* are numbers where the evidence is one, and a ratio is cut to the percent
Close(x, y, semantic) ==
  \/ Distance(x, y) <= Flat[semantic]
  \/ semantic \in Relative /\ Part * Distance(x, y) <= Distance(y, 0)
True(c) ==
  LET v == Kept(c.value)
  IN /\ c.value \notin DOMAIN NotFinite
     /\ IF Derived(c)
        THEN /\ v \in Int
             /\ \A r \in ToSet(c.operands) :
                  Pack[r].semantic \in Numeric /\ Kept(Pack[r].value) \in Int
             /\ LET x == Kept(Operand(c, 1).value)
                    y == Kept(Operand(c, 2).value)
                    base == IF x < 0 THEN -x ELSE x
                IN IF c.predicate = "DELTA"
                   THEN c.unit = Operand(c, 1).unit /\ Close(v, x - y, Operand(c, 1).semantic)
                   ELSE /\ c.unit = "RATIO"
                        /\ base # 0 /\ Close(v, (100 * (y - x)) \div base, "RATIO")
        ELSE \A r \in ToSet(c.refs) :
               LET x == Kept(Pack[r].value)
                   near == Close(x, v, Pack[r].semantic)
                   from == Pack[r].value
               IN /\ c.unit = Pack[r].unit
                  /\ IF Pack[r].semantic \in Numeric /\ x \in Int /\ v \in Int
                     THEN \/ c.predicate = "EQ" /\ near
                          \/ c.predicate = "NE" /\ ~near
                          \/ c.predicate = "GT" /\ x > v
                          \/ c.predicate = "GTE" /\ (x > v \/ near)
                          \/ c.predicate = "LT" /\ x < v
                          \/ c.predicate = "LTE" /\ (x < v \/ near)
                     ELSE \/ c.predicate = "EQ" /\ c.value = from
                          \/ c.predicate = "NE" /\ c.value # from
                          \/ /\ Pack[r].semantic = "DATETIME"
                             /\ {c.value, from} \subseteq DOMAIN Instant
                             /\ \/ c.predicate = "GT" /\ Instant[from] > Instant[c.value]
                                \/ c.predicate = "GTE" /\ Instant[from] >= Instant[c.value]
                                \/ c.predicate = "LT" /\ Instant[from] < Instant[c.value]
                                \/ c.predicate = "LTE" /\ Instant[from] <= Instant[c.value]

\* What is accepted is supported: in neither stage, after whatever retries, is
\* a fact accepted that the pack does not prove or that rests on what the user
\* wrote, nor a claim that names no evidence but a hypothesis.  No fact is an
\* infinity, although a comparison calls it equal to any ratio: its result
\* cannot be written.
AcceptedIsSupported ==
  \A i \in AcceptedAnswers : \A c \in ToSet(records[i].answer.claims) :
    /\ c.form = "sound" /\ Named(c) \subseteq DOMAIN Pack
    /\ Named(c) = {} => c.type = "HYPOTHESIS"
    /\ IsFact(c) => \A r \in Named(c) : ~Pack[r].note
    /\ IsFact(c) \/ Derived(c) => True(c)

\* An answer that makes evidence up, asks for what it may not or answers
\* another question is the last one, also when its claims do not fit the
\* schema: the model is not asked again until it hides it better.  Evidence
\* counts that is named in a list of references of a list of claims, or in
\* the list its envelope cites.
UnsafeIsFinal ==
  \A i \in DOMAIN records :
    LET a == records[i].answer
        known(refs) == \A k \in DOMAIN refs : refs[k] \in DOMAIN Pack
    IN /\ a.parses
       /\ \/ /\ "claims" \notin a.veiled
             /\ \E c \in ToSet(a.claims) :
                  \/ "refs" \notin c.veiled /\ ~known(c.refs)
                  \/ "operands" \notin c.veiled /\ ~known(c.operands)
          \/ Oversteps(a, records[i].stage) \/ a.offtopic
          \/ records[i].stage = 2 /\ a.misbound
          \/ records[i].stage = 2 /\ "cited" \notin a.veiled /\ ~ (a.cited \subseteq DOMAIN Pack)
       => i = Len(records) /\ outcome = "REJECTED"

\* what an answer says on a matter that was accepted or could not be read whole
Said(i, group) ==
  LET a == records[i].answer
  IN {c \in Readable(a) : /\ i \in AcceptedAnswers \/ (a.parses /\ Malformed(a))
                          /\ Group(c) = group}

\* two values that a comparison of their type does not tell apart: numbers by
\* their tolerance, texts not at all; and every number is near an infinity
Alike(a, b, semantic) ==
  IF semantic \in Numeric /\ IsNumber(a) /\ IsNumber(b)
  THEN IF IsFinite(a) /\ IsFinite(b) THEN Close(Kept(a), Kept(b), semantic)
       ELSE semantic \in Relative /\ ~IsFinite(b)
  ELSE Kept(a) = Kept(b)
Agrees(earlier, later) ==
  /\ earlier.operands = later.operands
  /\ IF Derived(later)
     THEN \A c \in {earlier, later} : Alike(c.value, Computed(later), ResultSemantic(later))
     ELSE Alike(earlier.value, later.value, Semantic(later))

\* A retry does not change what was said: what could be read of a malformed
\* answer, or was accepted in the diagnosis, stands in every later accepted
\* answer that says anything of it.  From the one to the other there are
\* answers each of which says what one before it said, up to the tolerance:
\* a text or a count never changes, money and ratios by that much at each.
\* An answer that says two things at once is held to one of them.
RetryKeepsWord ==
  \A j \in AcceptedAnswers : \A i \in 1 .. (j - 1) :
    \A c \in ToSet(records[j].answer.claims) :
      Said(i, Group(c)) # {} =>
        \E path \in SUBSET (i .. j) :
          /\ {i, j} \subseteq path
          /\ \A k \in path \ {i} : \A later \in Said(k, Group(c)) :
               \E h \in path : \E earlier \in Said(h, Group(c)) :
                 h < k /\ Agrees(earlier, later)

-----------------------------------------------------------------------------
(* What a comment says and the code does not do.                            *)

\* "Reference safety is independent of claim/schema completeness": an answer
\* that names evidence there is not is the last one, however it names it.
\* References that are not a list of texts are passed over.
NoEvidenceMadeUp ==
  \A i \in DOMAIN records :
    LET a == records[i].answer
    IN a.parses /\ (\E c \in ToSet(a.claims) : ~ (Named(c) \subseteq DOMAIN Pack))
       => i = Len(records) /\ outcome = "REJECTED"
=============================================================================
