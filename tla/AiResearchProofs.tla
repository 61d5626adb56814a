-------------------------- MODULE AiResearchProofs --------------------------
(***************************************************************************)
(* Proofs about AiEvidence, for every value of its constants: any number   *)
(* of clients, keys, runs, links, requests, changes and restarts.  Then    *)
(* about AiValidation: any pack and any answers, as many as the loop asks  *)
(* for.                                                                    *)
(***************************************************************************)
EXTENDS AiEvidence, AiValidation, SequenceTheorems, FiniteSetTheorems, WellFoundedInduction,
        TLAPS

-----------------------------------------------------------------------------
(* The least and the greatest of some numbers.                              *)

LEMMA LeastExists ==
  ASSUME NEW S \in SUBSET Nat, S # {}
  PROVE  Min(S) \in S /\ \A x \in S : Min(S) <= x
<1>1. PICK m \in S : \A x \in S : ~ (<<x, m>> \in OpToRel(<, Nat))
  BY NatLessThanWellFounded, WFMin
<1>2. \A x \in S : m <= x
  <2>1. TAKE x \in S
  <2>2. x \in Nat /\ m \in Nat
    OBVIOUS
  <2>3. ~ (x < m)
    BY <1>1, <2>2, Zenon DEF OpToRel
  <2> QED BY <2>2, <2>3
<1> QED
  BY <1>2 DEF Min

LEMMA GreatestExists ==
  ASSUME NEW n \in Nat, NEW S \in SUBSET (0 .. n), S # {}
  PROVE  Max(S) \in S /\ \A x \in S : x <= Max(S)
<1>. DEFINE T == {n - x : x \in S}
<1>1. \A x \in S : n - x \in Nat /\ x \in Int
  OBVIOUS
<1>2. T \in SUBSET Nat /\ T # {}
  BY <1>1, Zenon
<1>3. PICK t \in T : \A u \in T : t <= u
  <2>. HIDE DEF T
  <2> QED BY <1>2, LeastExists
<1>4. PICK m \in S : t = n - m
  BY <1>3
<1>5. \A x \in S : m >= x
  <2>1. TAKE x \in S
  <2>2. n - x \in T
    OBVIOUS
  <2>3. n - m <= n - x
    BY <1>3, <1>4, <2>2
  <2> QED BY <1>1, <2>3
<1> QED
  BY <1>5 DEF Max

-----------------------------------------------------------------------------
(* The records that are observed: none says that it changed, ended or was   *)
(* linked later than now, and a run that succeeded had its artifacts before *)
(* it did.                                                                  *)

Link(n) == [run : Runs, role : Roles \cup {"CANDIDATE"}, created : 0 .. n]

RowInv(row) ==
  /\ DOMAIN row = {"status", "changed", "completed", "written"}
  /\ row.status \in Ended \cup {"PENDING", "RUNNING"}
  /\ row.changed \in 0 .. now
  /\ row.completed \in (0 .. now) \cup {None} /\ row.written \in (0 .. now) \cup {None}
  /\ row.status \in Ended => row.completed = row.changed
  /\ row.status = "SUCCEEDED" => row.written \in 0 .. row.completed

RunInv(r) == RowInv(run[r])

WorldInv ==
  /\ now \in Nat
  /\ DOMAIN run = Runs /\ \A r \in Runs : RunInv(r)
  /\ experiment \in 0 .. now /\ relinked \in 0 .. now /\ session \in 0 .. now
  /\ links \in Seq(Link(now))

(* What a step leaves as it was: time goes on, and what succeeded stays. *)
WorldGoesOn == /\ now <= now'
               /\ \A r \in Runs : run[r].status = "SUCCEEDED" => run'[r] = run[r]

LEMMA LinksLater ==
  ASSUME NEW n \in Nat, NEW m \in Nat, n <= m, NEW ls \in Seq(Link(n))
  PROVE  ls \in Seq(Link(m))
<1>1. Link(n) \subseteq Link(m)
  BY DEF Link
<1> QED
  BY <1>1, SeqMonotonic

LEMMA WorldInitially == WorldInit => WorldInv
<1> SUFFICES ASSUME WorldInit PROVE WorldInv
  OBVIOUS
<1>1. PICK start \in Starts :
        /\ run = [r \in Runs |-> [status |-> start.status[r], changed |-> 0,
                                  completed |-> IF start.status[r] \in Ended THEN 0 ELSE None,
                                  written |-> IF start.status[r] = "SUCCEEDED" THEN 0 ELSE None]]
        /\ links = start.links
  BY DEF WorldInit
<1>2. now = 0 /\ experiment = 0 /\ relinked = 0 /\ session = 0
  BY DEF WorldInit
<1>3. links \in Seq([run : Runs, role : Roles \cup {"CANDIDATE"}, created : {0}])
  BY <1>1, ExperimentAssumption
<1>4. [run : Runs, role : Roles \cup {"CANDIDATE"}, created : {0}] \subseteq Link(0)
  BY DEF Link
<1>5. links \in Seq(Link(now))
  BY <1>2, <1>3, <1>4, SeqMonotonic
<1>6. \A r \in Runs : RunInv(r)
  BY <1>1, <1>2, ExperimentAssumption DEF RunInv, RowInv, Ended
<1> QED
  BY <1>1, <1>2, <1>5, <1>6 DEF WorldInv

(* Links that are given other roles, or one less, are still links. *)
LEMMA DemotedLinks ==
  ASSUME NEW n \in Nat, links \in Seq(Link(n)), NEW role
  PROVE  Demoted(role) \in Seq(Link(n)) /\ DOMAIN Demoted(role) = DOMAIN links
<1>. DEFINE link(i) == IF links[i].role = "BASELINE"
                       THEN [links[i] EXCEPT !.role = "CANDIDATE"] ELSE links[i]
<1>1. DOMAIN links = 1 .. Len(links) /\ Len(links) \in Nat
  BY LenProperties
<1>2. \A i \in 1 .. Len(links) : links[i] \in Link(n)
  BY ElementOfSeq
<1>3. \A i \in 1 .. Len(links) : link(i) \in Link(n)
  BY <1>2 DEF Link
<1>4. [i \in 1 .. Len(links) |-> link(i)] \in Seq(Link(n))
  <2>. HIDE DEF link
  <2> QED BY <1>1, <1>3, IsASeq
<1>5. CASE role # "BASELINE"
  BY <1>5 DEF Demoted
<1>6. CASE role = "BASELINE"
  BY <1>1, <1>4, <1>6 DEF Demoted
<1> QED
  BY <1>5, <1>6

LEMMA OneLinkLess ==
  ASSUME NEW n \in Nat, links \in Seq(Link(n)), NEW i \in DOMAIN links
  PROVE  RemoveAt(links, i) \in Seq(Link(n))
<1>1. DOMAIN links = 1 .. Len(links) /\ Len(links) \in Nat
  BY LenProperties
<1>2. \A j \in 1 .. Len(links) : links[j] \in Link(n)
  BY ElementOfSeq
<1>3. SubSeq(links, 1, i - 1) \in Seq(Link(n))
  BY <1>1, <1>2, SubSeqProperties
<1>4. SubSeq(links, i + 1, Len(links)) \in Seq(Link(n))
  BY <1>1, <1>2, SubSeqProperties
<1> QED
  BY <1>3, <1>4, ConcatProperties DEF RemoveAt

LEMMA WorldStep ==
  ASSUME WorldInv, WorldNext
  PROVE  WorldInv' /\ WorldGoesOn
<1>1. now \in Nat /\ now' = now + 1 /\ links \in Seq(Link(now))
  BY DEF WorldInv, WorldNext, RunBacktest, ChangeSession, UpdateExperiment, AddRun,
         UpdateRunLink, RemoveRunLink, Change
<1>2. /\ now' \in Nat /\ now <= now' /\ now' \in 0 .. now' /\ links \in Seq(Link(now'))
      /\ \A x \in 0 .. now : x \in 0 .. now'
  BY <1>1, LinksLater
<1>3. /\ DOMAIN run = Runs /\ \A r \in Runs : RunInv(r)
      /\ experiment \in 0 .. now /\ relinked \in 0 .. now /\ session \in 0 .. now
  BY DEF WorldInv
<1>4. CASE UNCHANGED run
  <2>1. \A r \in Runs : RunInv(r)'
    BY <1>2, <1>3, <1>4 DEF RunInv, RowInv
  <2>2. /\ links' \in Seq(Link(now'))
        /\ experiment' \in 0 .. now' /\ relinked' \in 0 .. now' /\ session' \in 0 .. now'
    <3>1. CASE \/ ChangeSession
               \/ UpdateExperiment
      BY <1>2, <1>3, <3>1 DEF ChangeSession, UpdateExperiment
    <3>2. CASE AddRun
      <4>1. PICK r \in Runs, role \in Roles :
              links' = Append(Demoted(role), [run |-> r, role |-> role, created |-> now'])
        BY <3>2 DEF AddRun
      <4>2. [run |-> r, role |-> role, created |-> now'] \in Link(now')
        BY <1>2 DEF Link
      <4>3. Demoted(role) \in Seq(Link(now'))
        BY <1>2, DemotedLinks
      <4>4. links' \in Seq(Link(now'))
        BY <4>1, <4>2, <4>3, AppendProperties
      <4> QED BY <1>2, <1>3, <3>2, <4>4 DEF AddRun
    <3>3. CASE UpdateRunLink
      <4>1. PICK i \in DOMAIN links, role \in Roles :
              links' = [IF links[i].role = "BASELINE" THEN links ELSE Demoted(role)
                          EXCEPT ![i].role = role]
        BY <3>3 DEF UpdateRunLink
      <4>. DEFINE ls == IF links[i].role = "BASELINE" THEN links ELSE Demoted(role)
      <4>2. ls \in Seq(Link(now')) /\ DOMAIN ls = DOMAIN links
        BY <1>2, DemotedLinks
      <4>. HIDE DEF ls
      <4>3. i \in 1 .. Len(ls) /\ ls[i] \in Link(now')
        BY <4>2, LenProperties, ElementOfSeq
      <4>4. [ls[i] EXCEPT !.role = role] \in Link(now')
        BY <4>3 DEF Link
      <4>5. links' = [ls EXCEPT ![i] = [ls[i] EXCEPT !.role = role]]
        BY <4>1 DEF ls
      <4>6. links' \in Seq(Link(now'))
        BY <4>2, <4>3, <4>4, <4>5, ExceptSeq
      <4> QED BY <1>2, <1>3, <3>3, <4>6 DEF UpdateRunLink
    <3>4. CASE RemoveRunLink
      <4>1. links' \in Seq(Link(now'))
        BY <1>2, <3>4, OneLinkLess DEF RemoveRunLink
      <4> QED BY <1>2, <1>3, <3>4, <4>1 DEF RemoveRunLink
    <3>5. CASE \E r \in Runs : RunBacktest(r)
      BY <1>2, <1>3, <3>5 DEF RunBacktest
    <3> QED BY <3>1, <3>2, <3>3, <3>4, <3>5 DEF WorldNext
  <2>3. DOMAIN run' = Runs /\ WorldGoesOn
    BY <1>2, <1>3, <1>4 DEF WorldGoesOn
  <2> QED BY <1>2, <2>1, <2>2, <2>3 DEF WorldInv
<1>5. ASSUME NEW r \in Runs, RunBacktest(r) PROVE WorldInv' /\ WorldGoesOn
  <2>1. PICK row : /\ run' = [run EXCEPT ![r] = row] /\ row = run'[r]
                   /\ run[r].status # "SUCCEEDED" /\ RowInv(row)'
    <3>1. /\ run[r].status \in {"PENDING", "RUNNING", "FAILED"} /\ RowInv(run[r])
          /\ "SUCCEEDED" \in Ended /\ "FAILED" \in Ended /\ "RUNNING" \notin Ended
          /\ None \notin Int
      BY <1>3, <1>5, ExperimentAssumption DEF RunBacktest, RunInv, Ended
    <3>2. ASSUME NEW status \in {"RUNNING", "FAILED", "SUCCEEDED"}, NEW ended,
                 ended = (status \in Ended), Transition(r, status, ended),
                 status = "SUCCEEDED" => run[r].written # None
          PROVE  \E row : /\ run' = [run EXCEPT ![r] = row] /\ row = run'[r]
                         /\ run[r].status # "SUCCEEDED" /\ RowInv(row)'
      <4>1. PICK row : row = [run[r] EXCEPT !.status = status, !.changed = now',
                                !.completed = IF status \in Ended THEN now' ELSE @]
        OBVIOUS
      <4>2. run' = [run EXCEPT ![r] = row] /\ row = run'[r]
        BY <1>3, <3>2, <4>1 DEF Transition
      <4>3. /\ DOMAIN row = DOMAIN run[r] /\ row.status = status /\ row.changed = now'
            /\ row.completed = (IF status \in Ended THEN now' ELSE run[r].completed)
            /\ row.written = run[r].written
        BY <3>1, <4>1 DEF RowInv
      <4>4. status = "SUCCEEDED" => row.written \in 0 .. now'
        BY <1>2, <3>1, <3>2, <4>3 DEF RowInv
      <4>5. RowInv(row)'
        BY <1>2, <3>1, <4>3, <4>4 DEF RowInv
      <4> QED BY <3>1, <4>2, <4>5
    <3>3. CASE AddArtifacts(r) /\ run[r].status \in {"RUNNING", "FAILED"}
      <4>1. PICK row : row = [run[r] EXCEPT !.written = now']
        OBVIOUS
      <4>2. run' = [run EXCEPT ![r] = row] /\ row = run'[r]
        BY <1>3, <3>3, <4>1 DEF AddArtifacts
      <4>3. /\ DOMAIN row = DOMAIN run[r] /\ row.status = run[r].status
            /\ row.changed = run[r].changed /\ row.completed = run[r].completed
            /\ row.written = now'
        BY <3>1, <4>1 DEF RowInv
      <4>4. RowInv(row)'
        BY <1>2, <3>1, <3>3, <4>3 DEF RowInv
      <4> QED BY <3>1, <4>2, <4>4
    <3>4. CASE Transition(r, "RUNNING", FALSE)
      <4>1. ("RUNNING" \in Ended) = FALSE
        BY <3>1
      <4> QED BY <3>2, <3>4, <4>1
    <3>5. CASE Transition(r, "FAILED", TRUE)
      BY <3>1, <3>2, <3>5
    <3>6. CASE run[r].written # None /\ Transition(r, "SUCCEEDED", TRUE)
      BY <3>1, <3>2, <3>6
    <3>7. \/ Transition(r, "RUNNING", FALSE) \/ Transition(r, "FAILED", TRUE)
          \/ run[r].written # None /\ Transition(r, "SUCCEEDED", TRUE)
          \/ AddArtifacts(r) /\ run[r].status \in {"RUNNING", "FAILED"}
      BY <1>5 DEF RunBacktest
    <3> QED BY <3>3, <3>4, <3>5, <3>6, <3>7
  <2>2. RunInv(r)'
    BY <2>1 DEF RunInv
  <2>3. \A q \in Runs \ {r} : RunInv(q)'
    BY <1>2, <1>3, <2>1 DEF RunInv, RowInv
  <2>4. DOMAIN run' = Runs /\ WorldGoesOn
    BY <1>2, <1>3, <2>1 DEF WorldGoesOn
  <2>5. UNCHANGED <<experiment, links, relinked, session>>
    BY <1>5 DEF RunBacktest
  <2> QED BY <1>2, <1>3, <2>2, <2>3, <2>4, <2>5 DEF WorldInv
<1>6. UNCHANGED run \/ \E r \in Runs : RunBacktest(r)
  BY DEF WorldNext, ChangeSession, UpdateExperiment, AddRun, UpdateRunLink, RemoveRunLink
<1> QED
  BY <1>4, <1>5, <1>6

-----------------------------------------------------------------------------
(* What is seen.                                                            *)

(* Runs that a ranking is made of: all but one against it, on equal terms. *)
Ranked(runs) == \E b \in runs : \A r \in runs \ {b} :
  /\ run[b].status = "SUCCEEDED" /\ run[r].status = "SUCCEEDED"
  /\ Environment[b] = Environment[r] /\ Terms[b] = Terms[r]

(* An item says nothing that is later than what it is known since, which is *)
(* not later than now, unless it is of a run that has not ended; nor are    *)
(* the artifacts of a run that succeeded later than that; and a ranking     *)
(* keeps its ground, as runs that succeeded stay so.                        *)
ItemInv(i) ==
  /\ i.known \in Nat /\ i.known <= now
  /\ i.status \notin {"PENDING", "RUNNING"} => i.since \in Nat /\ i.since <= i.known
  /\ i.status = "SUCCEEDED" => i.files \in Nat /\ i.files <= i.known
  /\ i.from[1] = "RESEARCH_COMPARISON" => i.from = <<"RESEARCH_COMPARISON", Experiment>>
  /\ i.ranking => i.runs \subseteq Runs /\ Ranked(i.runs)

SourceInv(s) == \/ s[1] = "PAPER_SESSION"
                \/ s[1] \in MovingKinds /\ s[2] = Experiment /\ s = <<s[1], s[2]>>
                \/ s[1] \in Projections /\ s[2] \in Runs

ReadingInv(read) == read.links \in Seq(Link(now)) /\ read.since \in 0 .. now

(* The row of a run that was read before is the row of now if it said that  *)
(* the run succeeded.                                                       *)
RowReadInv(row, r) == RowInv(row) /\ (row.status = "SUCCEEDED" => run[r] = row)

LEMMA ItemLater ==
  ASSUME WorldInv, WorldInv', WorldGoesOn, NEW i, ItemInv(i)
  PROVE  ItemInv(i)'
<1>1. now \in Nat /\ now' \in Nat /\ now <= now'
  BY DEF WorldInv, WorldGoesOn
<1>2. i.ranking => Ranked(i.runs)'
  BY DEF ItemInv, Ranked, WorldGoesOn
<1> QED
  BY <1>1, <1>2 DEF ItemInv

LEMMA ReadingLater ==
  ASSUME WorldInv, WorldInv', WorldGoesOn, NEW read, ReadingInv(read)
  PROVE  ReadingInv(read)'
<1>1. now \in Nat /\ now' \in Nat /\ now <= now'
  BY DEF WorldInv, WorldGoesOn
<1>2. read.links \in Seq(Link(now'))
  BY <1>1, LinksLater DEF ReadingInv
<1> QED
  BY <1>1, <1>2 DEF ReadingInv

LEMMA RowReadLater ==
  ASSUME WorldInv, WorldInv', WorldGoesOn, NEW r \in Runs, NEW row, RowReadInv(row, r)
  PROVE  RowReadInv(row, r)'
<1>1. now \in Nat /\ now' \in Nat /\ now <= now'
  BY DEF WorldInv, WorldGoesOn
<1>2. row.status = "SUCCEEDED" => run'[r] = row
  BY DEF RowReadInv, WorldGoesOn
<1>3. RowInv(row) /\ None \notin Int
  BY ExperimentAssumption DEF RowReadInv
<1> QED
  BY <1>1, <1>2, <1>3 DEF RowReadInv, RowInv

LEMMA RowIsSound ==
  ASSUME now \in Nat, NEW s, s[1] \in RowKinds
  PROVE  ItemInv(RowItem(s))
BY DEF ItemInv, RowItem, Item, RowKinds

LEMMA RunIsSound ==
  ASSUME WorldInv, NEW s, s[1] \in RunKinds, NEW row, RowReadInv(row, s[2])
  PROVE  ItemInv(RunItem(s, row))
<1>1. RowInv(row) /\ now \in Nat /\ None \notin Int
  BY ExperimentAssumption DEF WorldInv, RowReadInv
<1>2. s[1] # "RESEARCH_COMPARISON"
  BY DEF RunKinds
<1>. DEFINE item == RunItem(s, row)
<1>3. /\ item.known = (IF row.completed = None THEN 0 ELSE row.completed)
      /\ item.since = row.changed /\ item.from = s /\ ~ item.ranking
      /\ item.status = row.status /\ item.files = run[s[2]].written
  BY DEF RunItem, Item
<1>4. item.known \in Nat /\ item.known <= now
  BY <1>1, <1>3 DEF RowInv
<1>. HIDE DEF item
<1>5. item.status \notin {"PENDING", "RUNNING"} => item.since \in Nat /\ item.since <= item.known
  BY <1>1, <1>3 DEF RowInv
<1>6. item.status = "SUCCEEDED" => item.files \in Nat /\ item.files <= item.known
  <2>1. SUFFICES ASSUME row.status = "SUCCEEDED"
                 PROVE  item.files \in Nat /\ item.files <= item.known
    BY <1>3
  <2>2. item.files = row.written /\ row.written \in 0 .. row.completed
    BY <1>1, <1>3, <2>1 DEF RowReadInv, RowInv
  <2>3. row.completed \in 0 .. now /\ item.known = row.completed
    BY <1>1, <1>3, <2>1 DEF RowInv, Ended
  <2> QED BY <2>2, <2>3
<1> QED
  BY <1>2, <1>3, <1>4, <1>5, <1>6 DEF ItemInv, item

LEMMA SessionIsSound ==
  ASSUME WorldInv, NEW s, s[1] = "PAPER_SESSION"
  PROVE  ItemInv(SessionItem(s))
BY DEF ItemInv, SessionItem, Item, WorldInv

(* What was linked by then is known now, and its ranking stands.           *)
LEMMA LinkedAreRuns ==
  ASSUME NEW n, NEW ls \in Seq(Link(n))
  PROVE  Linked(ls) \subseteq Runs /\ \A i \in DOMAIN ls : ls[i].created \in 0 .. n
<1>1. \A i \in DOMAIN ls : ls[i] \in Link(n)
  BY ElementOfSeq, LenProperties
<1> QED
  BY <1>1 DEF Linked, Link

LEMMA BaselineIsLinked ==
  ASSUME NEW n, NEW ls \in Seq(Link(n)), Baseline(ls) # None
  PROVE  Baseline(ls) \in Linked(ls)
<1>. DEFINE B == {i \in DOMAIN ls : ls[i].role = "BASELINE"}
<1>1. B # {} /\ Baseline(ls) = ls[Min(B)].run
  BY DEF Baseline
<1>2. B \in SUBSET Nat
  BY LenProperties
<1>3. Min(B) \in B
  <2>. HIDE DEF B
  <2> QED BY <1>1, <1>2, LeastExists
<1> QED
  BY <1>1, <1>3 DEF Linked

LEMMA KnownNow ==
  ASSUME WorldInv, NEW read, ReadingInv(read)
  PROVE  Known(read) = now
<1>. DEFINE S == {experiment} \cup {read.links[i].created : i \in DOMAIN read.links}
                   \cup {run[r].completed : r \in {x \in Linked(read.links) :
                                                     run[x].completed # None}}
<1>1. now \in Nat /\ experiment \in 0 .. now /\ \A r \in Runs : RunInv(r)
  BY DEF WorldInv
<1>2. /\ Linked(read.links) \subseteq Runs
      /\ \A i \in DOMAIN read.links : read.links[i].created \in 0 .. now
  BY LinkedAreRuns DEF ReadingInv
<1>3. \A r \in Linked(read.links) : run[r].completed # None => run[r].completed \in 0 .. now
  BY <1>1, <1>2 DEF RunInv, RowInv
<1>4. S \in SUBSET (0 .. now) /\ S # {}
  BY <1>1, <1>2, <1>3
<1>5. LastOf(read) = Max(S)
  BY DEF LastOf
<1>6. LastOf(read) \in 0 .. now
  <2>. HIDE DEF S
  <2> QED BY <1>1, <1>4, <1>5, GreatestExists
<1>7. {now, LastOf(read)} \in SUBSET (0 .. now) /\ now \in {now, LastOf(read)}
  BY <1>1, <1>6
<1>8. Max({now, LastOf(read)}) \in 0 .. now /\ now <= Max({now, LastOf(read)})
  BY <1>1, <1>7, GreatestExists
<1> QED
  BY <1>1, <1>8 DEF Known

LEMMA MovingIsSound ==
  ASSUME WorldInv, NEW read, ReadingInv(read), NEW s, s[1] \in MovingKinds,
         s[2] = Experiment, s = <<s[1], s[2]>>
  PROVE  ItemInv(MovingItem(s, read))
<1>. DEFINE since == Max({read.since} \cup {run[r].changed : r \in Linked(read.links)})
            item == MovingItem(s, read)
<1>1. now \in Nat /\ \A r \in Runs : RunInv(r)
  BY DEF WorldInv
<1>2. Linked(read.links) \subseteq Runs
  BY LinkedAreRuns DEF ReadingInv
<1>3. {read.since} \cup {run[r].changed : r \in Linked(read.links)} \in SUBSET (0 .. now)
  BY <1>1, <1>2 DEF ReadingInv, RunInv, RowInv
<1>4. since \in 0 .. now /\ read.since \in 0 .. now
  BY <1>1, <1>3, GreatestExists DEF ReadingInv
<1>5. item.known = now
  BY KnownNow DEF MovingItem, Item
<1>6. item.since \in Nat /\ item.since <= now
  BY <1>1, <1>4 DEF MovingItem, Item
<1>7. item.ranking => item.runs \subseteq Runs /\ Ranked(item.runs)
  <2>1. SUFFICES ASSUME RankingAllowed(read.links, [r \in Runs |-> run[r].status])
                 PROVE  Ranked(Linked(read.links))
    BY <1>2 DEF MovingItem, Item
  <2>. DEFINE b == Baseline(read.links)
              status == [r \in Runs |-> run[r].status]
  <2>2. b \in Linked(read.links)
    BY <2>1, BaselineIsLinked DEF RankingAllowed, ReadingInv
  <2>3. ASSUME NEW r \in Linked(read.links) \ {b}
        PROVE  /\ run[b].status = "SUCCEEDED" /\ run[r].status = "SUCCEEDED"
               /\ Environment[b] = Environment[r] /\ Terms[b] = Terms[r]
    <3>1. Comparability(b, r, status) = "STRICTLY_COMPARABLE"
      BY <2>1, <2>3 DEF RankingAllowed
    <3>2. Environment[b] = Environment[r] /\ Terms[b] = Terms[r]
          /\ {status[b], status[r]} = {"SUCCEEDED"}
      BY <3>1 DEF Comparability
    <3> QED BY <1>2, <2>2, <2>3, <3>2
  <2> QED BY <2>2, <2>3 DEF Ranked
<1>8. item.from = s /\ item.status = "NONE"
  BY DEF MovingItem, Item
<1> QED
  BY <1>1, <1>5, <1>6, <1>7, <1>8 DEF ItemInv

-----------------------------------------------------------------------------
(* The invariant.                                                           *)

(* Of what was stored, the items lack nothing that the cutoff lets through, *)
(* which is all of it if the cutoff is the present.                         *)
Complete(q, stored, items, cutoff) == \A i \in stored :
  /\ Valid(i, cutoff) => i \in items
  /\ q.cutoff = None => i.known <= cutoff

(* An experiment that has no fault has a comparison that ranks it.          *)
Compares(q, faults, items) ==
  q.type = "EXPERIMENT_REVIEW" /\ faults = {} =>
    \E i \in items : i.from[1] = "RESEARCH_COMPARISON" /\ i.ranking

Judged(q, items, cutoff, faults) ==
  /\ \A i \in items : ItemInv(i) /\ Valid(i, cutoff)
  /\ cutoff \in Int
  /\ Compares(q, faults, items)

KeyInv(k) == /\ DOMAIN freeze[k] = {"request", "owner", "status", "stored"}
             /\ claims[k] \in {0, 1}
             /\ freeze[k].status = "NONE" => claims[k] = 0

AnalysisInv(k) == analysis[k] # None =>
  LET a == analysis[k] IN
    /\ freeze[k].status = "FROZEN"
    /\ Complete(a.request, freeze[k].stored, a.pack.items, a.cutoff)
    /\ \A i \in a.pack.items : ItemInv(i) /\ Valid(i, a.cutoff)
    /\ a.cutoff \in Int
    /\ a.gate = "PROCEED" => Compares(a.request, {}, a.pack.items)

(* What was read first of the source that is due.                           *)
ReadInv(s, read) == /\ s[1] \in MovingKinds => ReadingInv(read)
                    /\ s[1] \in RunKinds => s[2] \in Runs /\ RowReadInv(read, s[2])

(* A call in each of its states: what it has seen, and, as long as it owns  *)
(* its key, that what is stored under the key is what it has seen.          *)
ObservesInv(c) ==
  /\ DOMAIN call[c] = {"at", "key", "request", "begun", "todo", "done", "reading", "items", "faults"}
  /\ \A s \in call[c].todo : SourceInv(s)
  /\ call[c].reading # None => ReadInv(Due(call[c].todo), call[c].reading)
  /\ \A i \in call[c].items : ItemInv(i)

CutsInv(c) ==
  /\ \A i \in call[c].items : ItemInv(i)
  /\ Owns(c) => freeze[call[c].key].stored = call[c].items

RecallsInv(c) ==
  /\ DOMAIN call[c] = {"at", "key", "request", "done", "seen", "rows", "items", "cutoff",
                       "case", "faults"}
  /\ Judged(call[c].request, call[c].items, call[c].cutoff, call[c].faults)
  /\ Owns(c) => Complete(call[c].request, freeze[call[c].key].stored, call[c].items, call[c].cutoff)

AttachesInv(c) ==
  LET items == call[c].pack.items IN
    /\ Judged(call[c].request, items, call[c].cutoff, call[c].faults)
    /\ Owns(c) => Complete(call[c].request, freeze[call[c].key].stored, items, call[c].cutoff)

CallInv(c) ==
  /\ ~ InCall(c, "idle") => call[c].key \in Keys /\ call[c].request \in Requests
  /\ InCall(c, "observe") => ObservesInv(c)
  /\ InCall(c, "cut") => CutsInv(c)
  /\ InCall(c, "recall") \/ InCall(c, "reread") => RecallsInv(c)
  /\ InCall(c, "attach") => AttachesInv(c)

EvidenceInv ==
  /\ WorldInv
  /\ DOMAIN freeze = Keys /\ DOMAIN claims = Keys /\ DOMAIN analysis = Keys
  /\ \A k \in Keys : KeyInv(k) /\ AnalysisInv(k)
  /\ \A p \in packs : \A i \in p.items : ItemInv(i)
  /\ DOMAIN call = Clients /\ \A c \in Clients : CallInv(c)

-----------------------------------------------------------------------------
(* What stays.                                                              *)

LEMMA ItemsLater ==
  ASSUME WorldInv, WorldInv', WorldGoesOn, NEW items, \A i \in items : ItemInv(i)
  PROVE  \A i \in items : ItemInv(i)'
BY ItemLater

LEMMA AnalysisStays ==
  ASSUME WorldInv, WorldInv', WorldGoesOn, NEW k \in Keys, AnalysisInv(k),
         analysis'[k] = analysis[k], freeze[k].status = "FROZEN" => freeze'[k] = freeze[k]
  PROVE  AnalysisInv(k)'
<1>1. SUFFICES ASSUME analysis[k] # None PROVE AnalysisInv(k)'
  BY DEF AnalysisInv
<1>2. \A i \in analysis[k].pack.items : ItemInv(i)'
  BY <1>1, ItemLater DEF AnalysisInv
<1>3. freeze'[k] = freeze[k]
  BY <1>1 DEF AnalysisInv
<1> QED
  BY <1>1, <1>2, <1>3 DEF AnalysisInv, Complete, Compares, Valid

(* A call that does not step keeps what holds of it, if its key does.      *)
LEMMA CallStays ==
  ASSUME WorldInv, WorldInv', WorldGoesOn, NEW c \in Clients, CallInv(c), call'[c] = call[c],
         ~ InCall(c, "idle") /\ Owns(c)' =>
           Owns(c) /\ freeze'[call[c].key].stored = freeze[call[c].key].stored
  PROVE  CallInv(c)'
<1>1. CASE InCall(c, "observe")
  <2>1. ObservesInv(c)'
    <3>1. ObservesInv(c)
      BY <1>1 DEF CallInv
    <3>2. \A i \in call[c].items : ItemInv(i)'
      BY <3>1, ItemLater DEF ObservesInv
    <3>3. call[c].reading # None => ReadInv(Due(call[c].todo), call[c].reading)'
      <4>1. PICK s : s = Due(call[c].todo)
        OBVIOUS
      <4>2. PICK read : read = call[c].reading
        OBVIOUS
      <4>3. read # None => ReadInv(s, read)
        BY <3>1, <4>1, <4>2 DEF ObservesInv
      <4>4. ReadInv(s, read) => ReadInv(s, read)'
        BY ReadingLater, RowReadLater DEF ReadInv
      <4>5. s = Due(call'[c].todo) /\ read = call'[c].reading
        BY <4>1, <4>2
      <4> QED BY <4>2, <4>3, <4>4, <4>5
    <3>. HIDE DEF ReadInv
    <3> QED BY <3>1, <3>2, <3>3 DEF ObservesInv, SourceInv
  <2> QED BY <1>1, <2>1 DEF CallInv, InCall
<1>2. CASE InCall(c, "cut")
  <2>1. CutsInv(c)'
    <3>1. CutsInv(c)
      BY <1>2 DEF CallInv
    <3>2. \A i \in call[c].items : ItemInv(i)'
      BY <3>1, ItemLater DEF CutsInv
    <3> QED BY <1>2, <3>1, <3>2 DEF CutsInv, InCall
  <2> QED BY <1>2, <2>1 DEF CallInv, InCall
<1>3. CASE InCall(c, "recall") \/ InCall(c, "reread")
  <2>1. RecallsInv(c)'
    <3>1. RecallsInv(c)
      BY <1>3 DEF CallInv
    <3>2. \A i \in call[c].items : ItemInv(i)'
      BY <3>1, ItemLater DEF RecallsInv, Judged
    <3> QED BY <1>3, <3>1, <3>2 DEF InCall, RecallsInv, Judged, Complete, Compares, Valid
  <2> QED BY <1>3, <2>1 DEF CallInv, InCall
<1>4. CASE InCall(c, "attach")
  <2>1. AttachesInv(c)'
    <3>1. AttachesInv(c)
      BY <1>4 DEF CallInv
    <3>2. \A i \in call[c].pack.items : ItemInv(i)'
      BY <3>1, ItemLater DEF AttachesInv, Judged
    <3> QED BY <1>4, <3>1, <3>2 DEF InCall, AttachesInv, Judged, Complete, Compares, Valid
  <2> QED BY <1>4, <2>1 DEF CallInv, InCall
<1> QED
  BY <1>1, <1>2, <1>3, <1>4 DEF CallInv, InCall

LEMMA WorldStays == ASSUME WorldInv, UNCHANGED world PROVE WorldInv' /\ WorldGoesOn
<1>1. /\ now' = now /\ run' = run /\ experiment' = experiment /\ links' = links
      /\ relinked' = relinked /\ session' = session /\ now \in Nat
  BY DEF world, WorldInv
<1>2. \A r \in Runs : RunInv(r)'
  BY <1>1 DEF WorldInv, RunInv, RowInv
<1> QED
  BY <1>1, <1>2 DEF WorldInv, WorldGoesOn

(* A step of one call that leaves all keys alone. *)
LEMMA CallSteps ==
  ASSUME EvidenceInv, NEW c \in Clients, NEW next, call' = [call EXCEPT ![c] = next],
         UNCHANGED <<world, freeze, analysis, claims>>, CallInv(c)',
         \A p \in packs' \ packs : \A i \in p.items : ItemInv(i)
  PROVE  EvidenceInv'
<1>1. WorldInv' /\ WorldGoesOn /\ WorldInv
  BY WorldStays DEF EvidenceInv
<1>2. \A k \in Keys : KeyInv(k)' /\ AnalysisInv(k)'
  BY <1>1, AnalysisStays DEF EvidenceInv, KeyInv
<1>3. \A p \in packs' : \A i \in p.items : ItemInv(i)'
  BY <1>1, ItemLater DEF EvidenceInv
<1>4. \A d \in Clients \ {c} : CallInv(d)'
  BY <1>1, CallStays DEF EvidenceInv, Owns
<1>5. DOMAIN call' = Clients
  BY DEF EvidenceInv
<1> QED
  BY <1>1, <1>2, <1>3, <1>4, <1>5 DEF EvidenceInv

-----------------------------------------------------------------------------
(* The steps of a call.                                                     *)

(* A call that is in none of the four states owes nothing but its key. *)
LEMMA EndedCall ==
  ASSUME NEW c \in Clients, EvidenceInv, call' = [call EXCEPT ![c] = Idle]
  PROVE  CallInv(c)'
<1>1. call'[c] = Idle
  BY DEF EvidenceInv
<1> QED
  BY <1>1 DEF CallInv, InCall, Idle

LEMMA BeginStep ==
  ASSUME EvidenceInv, NEW c \in Clients, Begin(c) \/ Refused(c)
  PROVE  EvidenceInv'
<1>1. CASE Refused(c)
  BY <1>1, EndedCall, CallSteps DEF Refused, Ends, store
<1>2. CASE Begin(c)
  <2>1. PICK k \in Keys, q \in Requests :
          call' = [call EXCEPT ![c] = [at |-> "claim", key |-> k, request |-> q]]
    BY <1>2 DEF Begin
  <2>2. call'[c] = [at |-> "claim", key |-> k, request |-> q]
    BY <2>1 DEF EvidenceInv
  <2>3. CallInv(c)'
    BY <2>2 DEF CallInv, InCall
  <2> QED BY <1>2, <2>1, <2>3, CallSteps DEF Begin, store
<1> QED
  BY <1>1, <1>2

LEMMA SelectedSources ==
  ASSUME NEW q \in Requests, NEW s \in Selected(q) \ Rows(Selected(q))
  PROVE  SourceInv(s)
<1>1. /\ s[1] \notin RowKinds
      /\ q.runs \subseteq Runs /\ \A x \in q.rows : x[1] \in RowKinds
  BY EvidenceAssumption DEF Rows
<1>2. CASE s \in (({"BACKTEST_RUN", "RESEARCH_DIAGNOSTIC"} \cap Projections)
                   \cup {"MARKET_DATA_SNAPSHOT"}) \X q.runs
  BY <1>1, <1>2 DEF SourceInv, RowKinds
<1>3. CASE s \in MovingKinds \X {Experiment}
  BY <1>3 DEF SourceInv
<1>4. CASE s \in {"PAPER_SESSION", "MARKET_DATA_SNAPSHOT"} \X {Session}
  BY <1>1, <1>4 DEF SourceInv, RowKinds
<1>5. s \in q.rows \/ s \in (({"BACKTEST_RUN", "RESEARCH_DIAGNOSTIC"} \cap Projections)
                               \cup {"MARKET_DATA_SNAPSHOT"}) \X q.runs
      \/ s \in MovingKinds \X {Experiment}
      \/ s \in {"PAPER_SESSION", "MARKET_DATA_SNAPSHOT"} \X {Session}
  BY DEF Selected
<1> QED
  BY <1>1, <1>2, <1>3, <1>4, <1>5

LEMMA ClaimStep ==
  ASSUME EvidenceInv, NEW c \in Clients, Claim(c)
  PROVE  EvidenceInv'
<1>. DEFINE k == call[c].key
            q == call[c].request
            row == [request |-> q, owner |-> c, status |-> "OBSERVING", stored |-> None]
            begun == [at |-> "observe", key |-> k, request |-> q,
                      begun |-> now, todo |-> Selected(q) \ Rows(Selected(q)),
                      done |-> Rows(Selected(q)), reading |-> None,
                      items |-> {RowItem(s) : s \in Rows(Selected(q))}, faults |-> {}]
<1>1. k \in Keys /\ q \in Requests /\ freeze[k].status = "NONE" /\ KeyInv(k)
  BY DEF EvidenceInv, Claim, CallInv, InCall, Claimable
<1>2. /\ freeze' = [freeze EXCEPT ![k] = row] /\ claims' = [claims EXCEPT ![k] = @ + 1]
      /\ call' = [call EXCEPT ![c] = begun]
      /\ UNCHANGED <<world, analysis, cases, packs, documents, crashes>>
  BY DEF Claim
<1>3. WorldInv' /\ WorldGoesOn /\ WorldInv
  BY <1>2, WorldStays DEF EvidenceInv
<1>. HIDE DEF row, begun
<1>4. /\ DOMAIN freeze' = Keys /\ DOMAIN claims' = Keys /\ DOMAIN call' = Clients
      /\ freeze'[k] = row /\ claims'[k] = claims[k] + 1 /\ call'[c] = begun
      /\ \A j \in Keys \ {k} : freeze'[j] = freeze[j] /\ claims'[j] = claims[j]
      /\ \A d \in Clients \ {c} : call'[d] = call[d]
  BY <1>1, <1>2 DEF EvidenceInv
<1>5. \A j \in Keys : KeyInv(j)'
  BY <1>1, <1>4 DEF EvidenceInv, KeyInv, row
<1>6. \A j \in Keys : AnalysisInv(j)'
  BY <1>1, <1>2, <1>3, <1>4, AnalysisStays DEF EvidenceInv
<1>7. \A p \in packs' : \A i \in p.items : ItemInv(i)'
  BY <1>2, <1>3, ItemLater DEF EvidenceInv
<1>8. CallInv(c)'
  <2>1. \A s \in begun.todo : SourceInv(s)
    BY <1>1, SelectedSources DEF begun
  <2>2. \A i \in begun.items : ItemInv(i)
    BY <1>3, RowIsSound DEF begun, Rows, WorldInv
  <2>3. ObservesInv(c)'
    BY <1>2, <1>3, <1>4, <2>1, <2>2, ItemLater DEF ObservesInv, begun, SourceInv
  <2> QED BY <1>1, <1>4, <2>3 DEF CallInv, InCall, begun
<1>9. \A d \in Clients \ {c} : CallInv(d)'
  <2>1. TAKE d \in Clients \ {c}
  <2>2. ~ InCall(d, "idle") /\ Owns(d)' =>
          Owns(d) /\ freeze'[call[d].key].stored = freeze[call[d].key].stored
    <3>1. SUFFICES ASSUME Owns(d)', call[d].key \in Keys PROVE call[d].key # k
      BY <1>4 DEF Owns, EvidenceInv, CallInv
    <3>2. freeze'[call[d].key].owner = d /\ row.owner = c
      BY <1>4, <3>1 DEF Owns, row
    <3> QED BY <1>4, <3>2
  <2> QED BY <1>3, <1>4, <2>2, CallStays DEF EvidenceInv
<1> QED
  BY <1>2, <1>3, <1>4, <1>5, <1>6, <1>7, <1>8, <1>9 DEF EvidenceInv

(* What is seen of a source is kept, with the rows that come with it. *)
LEMMA KeepsStep ==
  ASSUME EvidenceInv, NEW c \in Clients, InCall(c, "observe"), UNCHANGED <<world, store>>,
         NEW s, NEW new, ItemInv(new), NEW more, \A x \in more \ Rows(more) : SourceInv(x),
         Keeps(c, s, new, more)
  PROVE  EvidenceInv'
<1>1. ObservesInv(c) /\ WorldInv /\ call[c].key \in Keys /\ call[c].request \in Requests
  BY DEF EvidenceInv, CallInv, InCall
<1>. DEFINE next == [call[c] EXCEPT !.todo = (@ \ {s}) \cup (more \ Rows(more)),
                                    !.done = @ \cup {s} \cup Rows(more), !.reading = None,
                                    !.items = @ \cup {new} \cup {RowItem(r) : r \in Rows(more)}]
<1>2. call' = [call EXCEPT ![c] = next]
  BY DEF Keeps
<1>3. /\ DOMAIN next = DOMAIN call[c] /\ next.at = "observe"
      /\ next.key = call[c].key /\ next.request = call[c].request /\ next.reading = None
      /\ next.todo = (call[c].todo \ {s}) \cup (more \ Rows(more))
      /\ next.items = call[c].items \cup {new} \cup {RowItem(r) : r \in Rows(more)}
  BY <1>1 DEF ObservesInv, InCall
<1>. HIDE DEF next
<1>4. call'[c] = next
  BY <1>2 DEF EvidenceInv
<1>5. WorldInv' /\ WorldGoesOn
  BY <1>1, WorldStays
<1>6. \A i \in next.items : ItemInv(i)
  BY <1>1, <1>3, RowIsSound DEF ObservesInv, Rows, WorldInv
<1>7. \A x \in next.todo : SourceInv(x)
  BY <1>1, <1>3 DEF ObservesInv
<1>8. ObservesInv(c)'
  BY <1>1, <1>3, <1>4, <1>5, <1>6, <1>7, ItemLater DEF ObservesInv, SourceInv
<1>9. CallInv(c)'
  BY <1>1, <1>3, <1>4, <1>8 DEF CallInv, InCall
<1> QED
  BY <1>2, <1>9, CallSteps DEF store

(* The source that is due is one that is to be read. *)
LEMMA DueIsToDo ==
  ASSUME NEW todo, todo # {}, \A s \in todo : SourceInv(s)
  PROVE  Due(todo) \in todo
<1>. DEFINE ranks == {Rank[s[1]] : s \in todo}
<1>1. \A s \in todo : s[1] \in {"BACKTEST_RUN", "PAPER_SESSION", "RESEARCH_COMPARISON",
                                "RESEARCH_DIAGNOSTIC", "RESEARCH_EXPERIMENT", "RESEARCH_REPORT"}
  BY EvidenceAssumption DEF SourceInv, MovingKinds
<1>2. \A s \in todo : Rank[s[1]] \in Nat
  BY <1>1 DEF Rank
<1>3. Min(ranks) \in ranks /\ \A n \in ranks : Min(ranks) <= n
  <2>1. ranks \in SUBSET Nat /\ ranks # {}
    BY <1>2
  <2>. HIDE DEF ranks
  <2> QED BY <2>1, LeastExists
<1>4. PICK s \in todo : \A t \in todo : Rank[s[1]] <= Rank[t[1]]
  BY <1>3
<1> QED
  BY <1>4 DEF Due

LEMMA LookAtSessionStep ==
  ASSUME EvidenceInv, NEW c \in Clients, LookAtSession(c)
  PROVE  EvidenceInv'
<1>. DEFINE s == Due(call[c].todo)
<1>1. /\ InCall(c, "observe") /\ s[1] = "PAPER_SESSION" /\ Keeps(c, s, SessionItem(s), {})
      /\ UNCHANGED <<world, store>>
  BY DEF LookAtSession, Looks
<1>2. ItemInv(SessionItem(s))
  BY <1>1, SessionIsSound DEF EvidenceInv
<1> QED
  BY <1>1, <1>2, KeepsStep

(* The row is read now, the artifacts when it may say other things. *)
LEMMA LookAtRowStep ==
  ASSUME EvidenceInv, NEW c \in Clients, LookAtRow(c)
  PROVE  EvidenceInv'
<1>. DEFINE s == Due(call[c].todo)
<1>1. /\ InCall(c, "observe") /\ s[1] \in RunKinds /\ call[c].todo # {}
      /\ UNCHANGED <<world, store>>
      /\ call' = [call EXCEPT ![c] = [call[c] EXCEPT !.reading = run[s[2]]]]
  BY DEF LookAtRow, Looks
<1>2. /\ ObservesInv(c) /\ WorldInv /\ c \in DOMAIN call
      /\ call[c].key \in Keys /\ call[c].request \in Requests
  BY <1>1 DEF EvidenceInv, CallInv, InCall
<1>3. WorldInv' /\ WorldGoesOn
  BY <1>1, <1>2, WorldStays
<1>4. \A i \in call[c].items : ItemInv(i)'
  BY <1>2, <1>3, ItemLater DEF ObservesInv
<1>5. SourceInv(s)
  BY <1>1, <1>2, DueIsToDo DEF ObservesInv
<1>6. s[2] \in Runs /\ s[1] \notin MovingKinds
  BY <1>1, <1>5 DEF SourceInv, RunKinds, MovingKinds
<1>7. PICK r \in Runs : r = s[2]
  BY <1>6
<1>8. PICK row : row = run[r]
  OBVIOUS
<1>9. RowReadInv(row, r)'
  BY <1>2, <1>3, <1>8, RowReadLater DEF RowReadInv, WorldInv, RunInv
<1>10. /\ DOMAIN call'[c] = DOMAIN call[c] /\ call'[c].at = "observe"
       /\ call'[c].key = call[c].key /\ call'[c].request = call[c].request
       /\ call'[c].reading = row /\ call'[c].todo = call[c].todo
       /\ call'[c].items = call[c].items /\ Due(call'[c].todo) = s
  BY <1>1, <1>2, <1>7, <1>8 DEF ObservesInv, InCall
<1>11. ObservesInv(c)'
  BY <1>2, <1>4, <1>6, <1>7, <1>9, <1>10 DEF ObservesInv, SourceInv, ReadInv
<1>12. CallInv(c)'
  BY <1>2, <1>10, <1>11 DEF CallInv, InCall
<1> QED
  BY <1>1, <1>12, CallSteps DEF store

LEMMA LookAtArtifactsStep ==
  ASSUME EvidenceInv, NEW c \in Clients, LookAtArtifacts(c)
  PROVE  EvidenceInv'
<1>. DEFINE s == Due(call[c].todo)
            row == call[c].reading
<1>1. /\ InCall(c, "observe") /\ s[1] \in RunKinds /\ row # None
      /\ Keeps(c, s, RunItem(s, row), {}) /\ UNCHANGED <<world, store>>
  BY DEF LookAtArtifacts, Looks
<1>2. ObservesInv(c) /\ WorldInv
  BY <1>1 DEF EvidenceInv, CallInv
<1>3. RowReadInv(row, s[2])
  BY <1>1, <1>2 DEF ObservesInv, ReadInv
<1>4. ItemInv(RunItem(s, row))
  <2>. HIDE DEF s, row
  <2> QED BY <1>1, <1>2, <1>3, RunIsSound
<1> QED
  BY <1>1, <1>4, KeepsStep

LEMMA LookAtLinksStep ==
  ASSUME EvidenceInv, NEW c \in Clients, LookAtLinks(c)
  PROVE  EvidenceInv'
<1>. DEFINE s == Due(call[c].todo)
            skipped == [call[c] EXCEPT !.todo = @ \ {s}, !.done = @ \cup {s},
                                       !.faults = @ \cup {"TEMPORAL_METADATA_UNAVAILABLE"}]
            read == [call[c] EXCEPT !.reading = Links]
<1>1. /\ InCall(c, "observe") /\ UNCHANGED <<world, store>>
      /\ call[c].reading = None /\ s[1] \in MovingKinds
  BY DEF LookAtLinks, Looks
<1>2. /\ ObservesInv(c) /\ WorldInv /\ c \in DOMAIN call
      /\ call[c].key \in Keys /\ call[c].request \in Requests
  BY <1>1 DEF EvidenceInv, CallInv, InCall
<1>3. WorldInv' /\ WorldGoesOn
  BY <1>1, <1>2, WorldStays
<1>4. \A i \in call[c].items : ItemInv(i)'
  BY <1>2, <1>3, ItemLater DEF ObservesInv
<1>5. CASE call' = [call EXCEPT ![c] = skipped]
  <2>1. /\ call'[c] = skipped
        /\ DOMAIN skipped = DOMAIN call[c] /\ skipped.at = "observe"
        /\ skipped.key = call[c].key /\ skipped.request = call[c].request
        /\ skipped.reading = call[c].reading /\ skipped.todo = call[c].todo \ {s}
        /\ skipped.items = call[c].items
    BY <1>1, <1>2, <1>5 DEF ObservesInv, InCall
  <2>. HIDE DEF skipped
  <2>2. ObservesInv(c)'
    BY <1>1, <1>2, <1>4, <2>1 DEF ObservesInv, SourceInv
  <2>3. CallInv(c)'
    BY <1>2, <2>1, <2>2 DEF CallInv, InCall
  <2> QED BY <1>1, <1>5, <2>3, CallSteps DEF store
<1>6. CASE call' = [call EXCEPT ![c] = read]
  <2>1. /\ call'[c] = read
        /\ DOMAIN read = DOMAIN call[c] /\ read.at = "observe"
        /\ read.key = call[c].key /\ read.request = call[c].request
        /\ read.reading = Links /\ read.todo = call[c].todo
        /\ read.items = call[c].items
    BY <1>1, <1>2, <1>6 DEF ObservesInv, InCall
  <2>. HIDE DEF read
  <2>2. ReadingInv(Links)
    <3>1. {experiment, relinked} \in SUBSET (0 .. now) /\ now \in Nat
      BY <1>2 DEF WorldInv
    <3>2. Max({experiment, relinked}) \in 0 .. now
      BY <3>1, GreatestExists
    <3>3. Links.links = links /\ Links.since = Max({experiment, relinked})
      BY DEF Links
    <3> QED BY <1>2, <3>2, <3>3 DEF ReadingInv, WorldInv
  <2>3. PICK x : x = Links
    OBVIOUS
  <2>4. ReadingInv(x)'
    BY <1>2, <1>3, <2>2, <2>3, ReadingLater
  <2>5. call'[c].reading = x /\ Due(call'[c].todo) = s /\ s[1] \notin RunKinds
    BY <1>1, <2>1, <2>3 DEF RunKinds, MovingKinds
  <2>6. ObservesInv(c)'
    BY <1>2, <1>4, <2>1, <2>4, <2>5 DEF ObservesInv, SourceInv, ReadInv
  <2>7. CallInv(c)'
    BY <1>2, <2>1, <2>6 DEF CallInv, InCall
  <2> QED BY <1>1, <1>6, <2>7, CallSteps DEF store
<1> QED
  BY <1>5, <1>6 DEF LookAtLinks

LEMMA LookAtLinkedRunsStep ==
  ASSUME EvidenceInv, NEW c \in Clients, LookAtLinkedRuns(c)
  PROVE  EvidenceInv'
<1>. DEFINE s == Due(call[c].todo)
            read == call[c].reading
            more == IF s[1] = "RESEARCH_EXPERIMENT" THEN OfLinked(read, call[c].done) ELSE {}
<1>1. /\ InCall(c, "observe") /\ UNCHANGED <<world, store>> /\ call[c].todo # {} /\ read # None
      /\ s[1] \in MovingKinds /\ Keeps(c, s, MovingItem(s, read), more)
  BY DEF LookAtLinkedRuns, Looks
<1>2. ObservesInv(c) /\ WorldInv
  BY <1>1 DEF EvidenceInv, CallInv
<1>3. SourceInv(s) /\ ReadingInv(read) /\ s[1] \in MovingKinds
  BY <1>1, <1>2, DueIsToDo DEF ObservesInv, ReadInv
<1>4. ItemInv(MovingItem(s, read))
  <2>1. s[2] = Experiment /\ s = <<s[1], s[2]>>
    BY <1>3, EvidenceAssumption DEF SourceInv, MovingKinds
  <2>. HIDE DEF s, read
  <2> QED BY <1>2, <1>3, <2>1, MovingIsSound
<1>5. \A x \in more \ Rows(more) : SourceInv(x)
  <2>1. SUFFICES ASSUME NEW x \in OfLinked(read, call[c].done), x[1] \notin RowKinds
                 PROVE  SourceInv(x)
    BY DEF Rows
  <2>2. Linked(read.links) \subseteq Runs
    BY <1>3, LinkedAreRuns DEF ReadingInv
  <2> QED BY <2>1, <2>2 DEF OfLinked, SourceInv, RowKinds
<1>. HIDE DEF more, s, read
<1> QED
  BY <1>1, <1>4, <1>5, KeepsStep

(* Two calls never own one key. *)
LEMMA OneOwner ==
  ASSUME NEW c \in Clients, NEW d \in Clients \ {c}, Owns(c), Owns(d)
  PROVE  call[d].key # call[c].key
BY DEF Owns

LEMMA PersistStep ==
  ASSUME EvidenceInv, NEW c \in Clients, Persist(c)
  PROVE  EvidenceInv'
<1>. DEFINE k == call[c].key
            next == [call[c] EXCEPT !.at = "cut"]
            row == [freeze[k] EXCEPT !.stored = call[c].items]
<1>1. /\ InCall(c, "observe") /\ Owns(c)
      /\ freeze' = [freeze EXCEPT ![k] = row]
      /\ call' = [call EXCEPT ![c] = next]
      /\ UNCHANGED <<world, analysis, cases, packs, documents, claims, crashes>>
  BY DEF Persist
<1>2. ObservesInv(c) /\ WorldInv /\ k \in Keys /\ call[c].request \in Requests /\ KeyInv(k)
  BY <1>1 DEF EvidenceInv, CallInv, InCall
<1>3. WorldInv' /\ WorldGoesOn
  BY <1>1, <1>2, WorldStays
<1>4. /\ DOMAIN row = DOMAIN freeze[k] /\ row.status = freeze[k].status
      /\ row.owner = freeze[k].owner /\ row.stored = call[c].items
      /\ next.at = "cut" /\ next.key = k /\ next.request = call[c].request
      /\ next.items = call[c].items
  BY <1>2 DEF ObservesInv, KeyInv
<1>. HIDE DEF next, row
<1>5. /\ DOMAIN freeze' = Keys /\ freeze'[k] = row /\ DOMAIN call' = Clients /\ call'[c] = next
      /\ \A j \in Keys \ {k} : freeze'[j] = freeze[j]
      /\ \A d \in Clients \ {c} : call'[d] = call[d]
  BY <1>1, <1>2 DEF EvidenceInv
<1>6. \A j \in Keys : KeyInv(j)'
  BY <1>1, <1>4, <1>5 DEF EvidenceInv, KeyInv
<1>7. \A j \in Keys : AnalysisInv(j)'
  BY <1>1, <1>2, <1>3, <1>5, AnalysisStays DEF EvidenceInv, Owns
<1>8. \A p \in packs' : \A i \in p.items : ItemInv(i)'
  BY <1>1, <1>2, <1>3, ItemLater DEF EvidenceInv
<1>9. CallInv(c)'
  <2>1. \A i \in call[c].items : ItemInv(i)'
    BY <1>2, <1>3, ItemLater DEF ObservesInv
  <2>2. CutsInv(c)'
    BY <1>4, <1>5, <2>1 DEF CutsInv
  <2> QED BY <1>2, <1>4, <1>5, <2>2 DEF CallInv, InCall
<1>10. \A d \in Clients \ {c} : CallInv(d)'
  <2>1. TAKE d \in Clients \ {c}
  <2>2. ~ InCall(d, "idle") /\ Owns(d)' =>
          Owns(d) /\ freeze'[call[d].key].stored = freeze[call[d].key].stored
    <3>1. SUFFICES ASSUME Owns(d)', call[d].key \in Keys PROVE call[d].key # k
      BY <1>5 DEF Owns, EvidenceInv, CallInv
    <3>2. freeze'[call[d].key].owner = d /\ row.owner = c
      BY <1>1, <1>4, <1>5, <3>1 DEF Owns
    <3> QED BY <1>5, <3>2
  <2> QED BY <1>2, <1>3, <1>5, <2>2, CallStays DEF EvidenceInv
<1> QED
  BY <1>1, <1>3, <1>5, <1>6, <1>7, <1>8, <1>9, <1>10 DEF EvidenceInv

LEMMA CutStep ==
  ASSUME EvidenceInv, NEW c \in Clients, Cut(c)
  PROVE  EvidenceInv'
<1>. DEFINE q == call[c].request
            cutoff == IF q.cutoff = None THEN Cutoff(c) ELSE q.cutoff
            valid == {i \in call[c].items : Valid(i, cutoff)}
            faults == call[c].faults \cup Refusals(call[c].items, cutoff) \cup Lacks(q, valid)
            next == [at |-> "recall", key |-> call[c].key, request |-> q, done |-> call[c].done,
                     seen |-> call[c].items, rows |-> None, items |-> valid, cutoff |-> cutoff,
                     case |-> Case(q, valid), faults |-> faults]
<1>1. /\ InCall(c, "cut") /\ call' = [call EXCEPT ![c] = next]
      /\ UNCHANGED <<world, freeze, analysis, packs, documents, claims, crashes>>
  BY DEF Cut
<1>2. /\ CutsInv(c) /\ WorldInv /\ call[c].key \in Keys /\ q \in Requests /\ c \in DOMAIN call
      /\ call'[c] = next /\ now \in Nat
  BY <1>1 DEF EvidenceInv, CallInv, InCall, WorldInv
<1>3. WorldInv' /\ WorldGoesOn
  BY <1>1, <1>2, WorldStays
<1>4. cutoff \in Int /\ (q.cutoff = None => cutoff = now)
  BY <1>2, EvidenceAssumption DEF Cutoff
<1>5. Compares(q, faults, valid)
  <2>1. SUFFICES ASSUME q.type = "EXPERIMENT_REVIEW", faults = {}
                 PROVE  \E i \in valid : i.from[1] = "RESEARCH_COMPARISON" /\ i.ranking
    BY DEF Compares
  <2>. DEFINE ranking == {i \in valid : i.from[1] = "RESEARCH_COMPARISON"}
  <2>2. Lacks(q, valid) = {}
    BY <2>1
  <2>. HIDE DEF valid
  <2>3. ranking # {} /\ \A i \in ranking : i.ranking
    BY <2>1, <2>2 DEF Lacks
  <2> QED BY <2>3
<1>6. Owns(c) => Complete(q, freeze[call[c].key].stored, valid, cutoff)
  BY <1>2, <1>4 DEF CutsInv, Complete, ItemInv
<1>. HIDE DEF faults
<1>7. RecallsInv(c)'
  <2>1. \A i \in valid : ItemInv(i)' /\ Valid(i, cutoff)
    BY <1>2, <1>3, ItemLater DEF CutsInv
  <2>2. PICK x : x = valid
    OBVIOUS
  <2>3. PICK y : y = cutoff
    OBVIOUS
  <2>4. PICK z : z = faults
    OBVIOUS
  <2>5. /\ call'[c].items = x /\ call'[c].cutoff = y /\ call'[c].faults = z
        /\ call'[c].request = q /\ call'[c].key = call[c].key
    BY <1>2, <2>2, <2>3, <2>4
  <2>6. Compares(q, z, x) /\ y \in Int /\ \A i \in x : ItemInv(i)' /\ Valid(i, y)
    BY <1>4, <1>5, <2>1, <2>2, <2>3, <2>4
  <2>7. Owns(c)' => Complete(q, freeze[call[c].key].stored, x, y)
    BY <1>1, <1>6, <2>2, <2>3, <2>5 DEF Owns
  <2>. HIDE DEF q, valid, cutoff
  <2>8. DOMAIN call'[c] = {"at", "key", "request", "done", "seen", "rows", "items", "cutoff",
                           "case", "faults"}
    BY <1>2
  <2> QED BY <1>1, <2>5, <2>6, <2>7, <2>8 DEF RecallsInv, Judged, Compares, Complete, Valid
<1>8. CallInv(c)'
  BY <1>2, <1>7 DEF CallInv, InCall
<1> QED
  BY <1>1, <1>8, CallSteps

LEMMA RereadStep ==
  ASSUME EvidenceInv, NEW c \in Clients, Reread(c)
  PROVE  EvidenceInv'
<1>. DEFINE next == [call[c] EXCEPT !.at = "reread", !.rows = run]
<1>1. /\ InCall(c, "recall") /\ RecallsInv(c) /\ WorldInv /\ c \in DOMAIN call
      /\ call[c].key \in Keys /\ call[c].request \in Requests
  BY DEF EvidenceInv, CallInv, InCall, Reread
<1>2. /\ call' = [call EXCEPT ![c] = next]
      /\ UNCHANGED <<world, freeze, analysis, cases, packs, documents, claims, crashes>>
  BY DEF Reread
<1>3. WorldInv' /\ WorldGoesOn
  BY <1>1, <1>2, WorldStays
<1>4. /\ call'[c] = next /\ DOMAIN next = DOMAIN call[c] /\ next.at = "reread"
      /\ next.key = call[c].key /\ next.request = call[c].request
      /\ next.items = call[c].items /\ next.cutoff = call[c].cutoff
      /\ next.faults = call[c].faults
  BY <1>1, <1>2 DEF RecallsInv
<1>. HIDE DEF next
<1>5. \A i \in call[c].items : ItemInv(i)'
  BY <1>1, <1>3, ItemLater DEF RecallsInv, Judged
<1>6. Owns(c)' => Owns(c)
  BY <1>2, <1>4 DEF Owns
<1>7. RecallsInv(c)'
  BY <1>1, <1>2, <1>4, <1>5, <1>6 DEF RecallsInv, Judged, Complete, Compares, Valid
<1>8. CallInv(c)'
  BY <1>1, <1>4, <1>7 DEF CallInv, InCall
<1> QED
  BY <1>2, <1>8, CallSteps

(* What is recalled was sound when it was packed, and is let through now. *)
LEMMA RecallStep ==
  ASSUME EvidenceInv, NEW c \in Clients, Recall(c)
  PROVE  EvidenceInv'
<1>1. InCall(c, "reread") /\ RecallsInv(c) /\ WorldInv /\ c \in DOMAIN call
      /\ call[c].key \in Keys /\ call[c].request \in Requests
  BY DEF EvidenceInv, CallInv, InCall, Recall
<1>2. PICK retrieved \in Retrievals(c) :
        LET pack == PackOf(call[c].case,
                           call[c].items \cup UNION {Recalled(c, d) : d \in retrieved})
        IN /\ packs' = packs \cup {pack}
           /\ call' = [call EXCEPT ![c] =
                [at |-> "attach", key |-> call[c].key, request |-> call[c].request,
                 cutoff |-> call[c].cutoff, faults |-> call[c].faults, pack |-> pack]]
  BY DEF Recall
<1>. DEFINE items == call[c].items \cup UNION {Recalled(c, d) : d \in retrieved}
            pack == PackOf(call[c].case, items)
            next == [at |-> "attach", key |-> call[c].key, request |-> call[c].request,
                     cutoff |-> call[c].cutoff, faults |-> call[c].faults, pack |-> pack]
<1>3. packs' = packs \cup {pack} /\ call' = [call EXCEPT ![c] = next] /\ call'[c] = next
  BY <1>1, <1>2
<1>4. UNCHANGED <<world, freeze, analysis, cases, documents, claims, crashes>>
  BY DEF Recall
<1>5. WorldInv' /\ WorldGoesOn
  BY <1>1, <1>4, WorldStays
<1>6. \A i \in items : ItemInv(i) /\ Valid(i, call[c].cutoff)
  <2>1. \A i \in call[c].items : ItemInv(i) /\ Valid(i, call[c].cutoff)
    BY <1>1 DEF RecallsInv, Judged
  <2>2. ASSUME NEW d \in retrieved, NEW i \in Recalled(c, d)
        PROVE  ItemInv(i) /\ Valid(i, call[c].cutoff)
    <3>1. \E p \in packs : i \in p.items
      BY <2>2 DEF Recalled
    <3>2. Valid(i, call[c].cutoff)
      BY <2>2 DEF Recalled
    <3> QED BY <3>1, <3>2 DEF EvidenceInv
  <2> QED BY <2>1, <2>2
<1>7. pack.items = items
  BY DEF PackOf
<1>8. PICK x : x = items
  OBVIOUS
<1>. HIDE DEF items, pack
<1>9. AttachesInv(c)'
  <2>1. /\ call'[c].pack.items = x /\ call'[c].cutoff = call[c].cutoff
        /\ call'[c].faults = call[c].faults
        /\ call'[c].request = call[c].request /\ call'[c].key = call[c].key
    BY <1>3, <1>7, <1>8
  <2>2. \A i \in x : ItemInv(i)' /\ Valid(i, call[c].cutoff)
    BY <1>1, <1>5, <1>6, <1>8, ItemLater
  <2>3. call[c].items \subseteq x
    BY <1>8 DEF items
  <2>4. Compares(call[c].request, call[c].faults, x) /\ call[c].cutoff \in Int
    BY <1>1, <2>3 DEF RecallsInv, Judged, Compares
  <2>5. Owns(c)' => Complete(call[c].request, freeze[call[c].key].stored, x, call[c].cutoff)
    BY <1>1, <1>4, <2>1, <2>3 DEF RecallsInv, Complete, Owns
  <2> QED BY <1>4, <2>1, <2>2, <2>4, <2>5 DEF AttachesInv, Judged, Compares, Complete, Valid
<1>10. CallInv(c)'
  BY <1>1, <1>3, <1>9 DEF CallInv, InCall
<1>11. \A p \in packs' \ packs : \A i \in p.items : ItemInv(i)
  BY <1>3, <1>6, <1>7
<1> QED
  BY <1>3, <1>4, <1>10, <1>11, CallSteps

(* A key whose row changes only in its status, while its owner's call ends. *)
LEMMA OwnerEnds ==
  ASSUME EvidenceInv, NEW c \in Clients, NEW k \in Keys, k = call[c].key, Owns(c),
         NEW status \in {"FROZEN", "FAILED"},
         freeze' = [freeze EXCEPT ![k].status = status],
         call' = [call EXCEPT ![c] = Idle],
         UNCHANGED <<world, cases, packs, documents, claims, crashes>>,
         DOMAIN analysis' = Keys, AnalysisInv(k)',
         \A j \in Keys \ {k} : analysis'[j] = analysis[j]
  PROVE  EvidenceInv'
<1>. DEFINE row == [freeze[k] EXCEPT !.status = status]
<1>1. WorldInv /\ KeyInv(k) /\ WorldInv' /\ WorldGoesOn
  BY WorldStays DEF EvidenceInv
<1>2. /\ DOMAIN row = DOMAIN freeze[k] /\ row.status = status
      /\ row.owner = freeze[k].owner /\ row.stored = freeze[k].stored
  BY <1>1 DEF KeyInv
<1>. HIDE DEF row
<1>3. /\ DOMAIN freeze' = Keys /\ freeze'[k] = row /\ DOMAIN call' = Clients /\ call'[c] = Idle
      /\ \A j \in Keys \ {k} : freeze'[j] = freeze[j]
      /\ \A d \in Clients \ {c} : call'[d] = call[d]
  BY DEF EvidenceInv, row
<1>4. \A j \in Keys : KeyInv(j)'
  BY <1>1, <1>2, <1>3 DEF EvidenceInv, KeyInv
<1>5. \A j \in Keys : AnalysisInv(j)'
  BY <1>1, <1>3, AnalysisStays DEF EvidenceInv
<1>6. \A p \in packs' : \A i \in p.items : ItemInv(i)'
  BY <1>1, ItemLater DEF EvidenceInv
<1>7. CallInv(c)'
  BY EndedCall
<1>8. \A d \in Clients \ {c} : CallInv(d)'
  <2>1. TAKE d \in Clients \ {c}
  <2>2. ~ InCall(d, "idle") /\ Owns(d)' =>
          Owns(d) /\ freeze'[call[d].key].stored = freeze[call[d].key].stored
    <3>1. SUFFICES ASSUME Owns(d)', call[d].key \in Keys PROVE call[d].key # k
      BY <1>3 DEF Owns, EvidenceInv, CallInv
    <3>2. freeze'[call[d].key].owner = d /\ row.owner = c
      BY <1>2, <1>3, <3>1 DEF Owns
    <3> QED BY <1>3, <3>2
  <2> QED BY <1>1, <1>3, <2>2, CallStays DEF EvidenceInv
<1> QED
  BY <1>1, <1>3, <1>4, <1>5, <1>6, <1>7, <1>8 DEF EvidenceInv

LEMMA AttachStep ==
  ASSUME EvidenceInv, NEW c \in Clients, Attach(c)
  PROVE  EvidenceInv'
<1>. DEFINE k == call[c].key
            q == call[c].request
            made == [request |-> q, cutoff |-> call[c].cutoff,
                     pack |-> call[c].pack, gate |-> Gate(q, call[c].faults)]
<1>1. /\ InCall(c, "attach") /\ Owns(c) /\ call' = [call EXCEPT ![c] = Idle]
      /\ freeze' = [freeze EXCEPT ![k].status = "FROZEN"]
      /\ analysis' = [analysis EXCEPT ![k] = made]
      /\ UNCHANGED <<world, cases, packs, documents, claims, crashes>>
  BY DEF Attach, Ends
<1>2. /\ AttachesInv(c) /\ WorldInv /\ k \in Keys /\ q \in Requests
      /\ DOMAIN analysis = Keys /\ DOMAIN freeze = Keys /\ KeyInv(k)
  BY <1>1 DEF EvidenceInv, CallInv, InCall
<1>3. WorldInv' /\ WorldGoesOn
  BY <1>1, <1>2, WorldStays
<1>4. PICK m : m = made
  OBVIOUS
<1>5. /\ m.request = q /\ m.cutoff = call[c].cutoff /\ m.pack = call[c].pack
      /\ m.gate = Gate(q, call[c].faults)
  BY <1>4
<1>6. m.gate = "PROCEED" => call[c].faults = {}
  BY <1>5 DEF Gate
<1>7. /\ analysis'[k] = m /\ DOMAIN analysis' = Keys
      /\ \A j \in Keys \ {k} : analysis'[j] = analysis[j]
      /\ freeze'[k].status = "FROZEN" /\ freeze'[k].stored = freeze[k].stored
  BY <1>1, <1>2, <1>4 DEF KeyInv
<1>8. PICK x : x = call[c].pack.items
  OBVIOUS
<1>9. \A i \in x : ItemInv(i)' /\ Valid(i, m.cutoff)
  BY <1>2, <1>3, <1>5, <1>8, ItemLater DEF AttachesInv, Judged
<1>10. /\ Complete(q, freeze[k].stored, x, m.cutoff) /\ m.cutoff \in Int
       /\ m.gate = "PROCEED" => Compares(q, {}, x)
  BY <1>1, <1>2, <1>5, <1>6, <1>8 DEF AttachesInv, Judged
<1>11. PICK j \in Keys : j = k
  BY <1>2
<1>12. AnalysisInv(j)'
  BY <1>5, <1>7, <1>8, <1>9, <1>10, <1>11 DEF AnalysisInv, Complete, Compares, Valid
<1> QED
  BY <1>1, <1>2, <1>7, <1>11, <1>12, OwnerEnds

LEMMA FailStep ==
  ASSUME EvidenceInv, NEW c \in Clients, Fail(c)
  PROVE  EvidenceInv'
<1>1. /\ ~ InCall(c, "idle") /\ call' = [call EXCEPT ![c] = Idle]
      /\ freeze' = IF Owns(c) THEN [freeze EXCEPT ![call[c].key].status = "FAILED"] ELSE freeze
      /\ UNCHANGED <<world, analysis, cases, packs, documents, claims, crashes>>
  BY DEF Fail, Ends, InCall
<1>2. CASE ~ Owns(c)
  BY <1>1, <1>2, EndedCall, CallSteps
<1>3. CASE Owns(c)
  <2>1. PICK k \in Keys : k = call[c].key
    BY <1>1 DEF EvidenceInv, CallInv
  <2>2. analysis[k] = None
    BY <1>3, <2>1 DEF EvidenceInv, AnalysisInv, Owns
  <2>3. AnalysisInv(k)'
    BY <1>1, <2>2 DEF AnalysisInv
  <2> QED BY <1>1, <1>3, <2>1, <2>3, OwnerEnds DEF EvidenceInv
<1> QED
  BY <1>2, <1>3

(* A restart ends all calls, and the keys they were observing. *)
LEMMA CrashStep ==
  ASSUME EvidenceInv, Crash
  PROVE  EvidenceInv'
<1>1. /\ call' = [c \in Clients |-> Idle]
      /\ freeze' = [k \in Keys |-> IF freeze[k].status = "OBSERVING"
                                    THEN [freeze[k] EXCEPT !.status = "FAILED"] ELSE freeze[k]]
      /\ UNCHANGED <<world, analysis, cases, packs, documents, claims>>
  BY DEF Crash
<1>2. WorldInv /\ WorldInv' /\ WorldGoesOn
  BY <1>1, WorldStays DEF EvidenceInv
<1>3. \A k \in Keys : KeyInv(k)'
  BY <1>1 DEF EvidenceInv, KeyInv
<1>4. \A k \in Keys : AnalysisInv(k)'
  BY <1>1, <1>2, AnalysisStays DEF EvidenceInv
<1>5. \A p \in packs' : \A i \in p.items : ItemInv(i)'
  BY <1>1, <1>2, ItemLater DEF EvidenceInv
<1>6. \A c \in Clients : CallInv(c)'
  BY <1>1 DEF CallInv, InCall, Idle
<1> QED
  BY <1>1, <1>2, <1>3, <1>4, <1>5, <1>6 DEF EvidenceInv

LEMMA OthersStep ==
  ASSUME EvidenceInv, WorldInv', WorldGoesOn,
         UNCHANGED <<freeze, analysis, packs, claims, call>>
  PROVE  EvidenceInv'
<1>1. WorldInv
  BY DEF EvidenceInv
<1>2. \A k \in Keys : KeyInv(k)'
  BY DEF EvidenceInv, KeyInv
<1>3. \A k \in Keys : AnalysisInv(k)'
  BY <1>1, AnalysisStays DEF EvidenceInv
<1>4. \A p \in packs' : \A i \in p.items : ItemInv(i)'
  BY <1>1, ItemLater DEF EvidenceInv
<1>5. \A c \in Clients : CallInv(c)'
  BY <1>1, CallStays DEF EvidenceInv, Owns
<1> QED
  BY <1>1, <1>2, <1>3, <1>4, <1>5 DEF EvidenceInv

LEMMA EvidenceInitially == EvidenceInit => EvidenceInv
<1> SUFFICES ASSUME EvidenceInit PROVE EvidenceInv
  OBVIOUS
<1>1. WorldInv /\ now = 0
  BY WorldInitially DEF EvidenceInit, WorldInit
<1>2. /\ freeze = [k \in Keys |-> Unclaimed] /\ analysis = [k \in Keys |-> None]
      /\ claims = [k \in Keys |-> 0] /\ call = [c \in Clients |-> Idle]
  BY DEF EvidenceInit
<1>3. \A k \in Keys : KeyInv(k) /\ AnalysisInv(k)
  BY <1>2 DEF KeyInv, AnalysisInv, Unclaimed
<1>4. \A c \in Clients : CallInv(c)
  BY <1>2 DEF CallInv, InCall, Idle
<1>5. ASSUME NEW p \in packs, NEW i \in p.items PROVE ItemInv(i)
  <2>1. PICK r \in Earlier : i = RunItem(<<"BACKTEST_RUN", r>>, run[r])
    BY <1>5 DEF EvidenceInit, PackOf
  <2>2. r \in Runs /\ RowReadInv(run[r], r)
    BY <1>1, EvidenceAssumption DEF WorldInv, RunInv, RowReadInv
  <2>. DEFINE s == <<"BACKTEST_RUN", r>>
  <2>3. s[1] \in RunKinds /\ s[2] = r
    BY DEF RunKinds
  <2>4. RowReadInv(run[r], s[2])
    BY <2>2, <2>3
  <2>. HIDE DEF s
  <2>5. ItemInv(RunItem(s, run[r]))
    BY <1>1, <2>3, <2>4, RunIsSound
  <2> QED BY <2>1, <2>5 DEF s
<1> QED
  BY <1>1, <1>2, <1>3, <1>4, <1>5 DEF EvidenceInv

LEMMA EvidenceStep == EvidenceInv /\ [EvidenceNext]_evidenceVars => EvidenceInv'
<1> SUFFICES ASSUME EvidenceInv, [EvidenceNext]_evidenceVars PROVE EvidenceInv'
  OBVIOUS
<1>1. CASE WorldNext /\ UNCHANGED <<store, call, crashes>>
  BY <1>1, WorldStep, OthersStep DEF EvidenceInv, store
<1>2. ASSUME NEW c \in Clients,
             \/ Begin(c) \/ Claim(c) \/ Refused(c)
             \/ LookAtSession(c) \/ LookAtRow(c) \/ LookAtArtifacts(c)
             \/ LookAtLinks(c) \/ LookAtLinkedRuns(c) \/ Persist(c)
             \/ Cut(c) \/ Reread(c) \/ Recall(c) \/ Attach(c) \/ Fail(c)
      PROVE  EvidenceInv'
  BY <1>2, BeginStep, ClaimStep, LookAtSessionStep, LookAtRowStep, LookAtArtifactsStep,
     LookAtLinksStep, LookAtLinkedRunsStep, PersistStep, CutStep, RereadStep, RecallStep,
     AttachStep, FailStep
<1>3. CASE Document
  BY <1>3, WorldStays, OthersStep DEF EvidenceInv, Document
<1>4. CASE Crash
  BY <1>4, CrashStep
<1>5. CASE UNCHANGED evidenceVars
  BY <1>5, WorldStays, OthersStep DEF EvidenceInv, evidenceVars, store
<1> QED
  BY <1>1, <1>2, <1>3, <1>4, <1>5 DEF EvidenceNext

(* The inductive invariant of the creation of analyses, whatever overlaps,  *)
(* fails or restarts (analysis_service.py create, analysis_freeze.py).      *)
THEOREM EvidenceInvariant == EvidenceSpec => []EvidenceInv
BY EvidenceInitially, EvidenceStep, PTL DEF EvidenceSpec

(* No pack tells the model of a row that was written after its cutoff, or   *)
(* of such artifacts of a run that succeeded, though row and artifacts are  *)
(* read apart and however many packs it recalls; a run that has not ended   *)
(* and the artifacts of one that failed are excepted (source_resolvers.py   *)
(* backtest_run, packs.py _validate_item, backtest/service.py 173).         *)
THEOREM PacksHaveNoHindsight == EvidenceSpec => []NoHindsight
<1>1. EvidenceInv => NoHindsight
  <2>1. SUFFICES ASSUME EvidenceInv, NEW k \in Keys, analysis[k] # None,
                        NEW i \in analysis[k].pack.items
                 PROVE  /\ i.status \notin {"PENDING", "RUNNING"} =>
                             i.since <= analysis[k].cutoff
                        /\ i.status = "SUCCEEDED" => i.files <= analysis[k].cutoff
    BY DEF NoHindsight
  <2>2. ItemInv(i) /\ Valid(i, analysis[k].cutoff) /\ analysis[k].cutoff \in Int
    BY <2>1 DEF EvidenceInv, AnalysisInv
  <2> QED BY <2>2 DEF ItemInv, Valid
<1> QED
  BY <1>1, EvidenceInvariant, PTL

(* A key is observed once, and its analysis has what was stored under it    *)
(* (analysis_freeze.py claim, observe; analysis_repository.py attach).      *)
THEOREM KeysAreObservedOnce == EvidenceSpec => []ObservedOnce
<1>1. EvidenceInv => ObservedOnce
  BY DEF EvidenceInv, ObservedOnce, KeyInv, AnalysisInv, Complete
<1> QED
  BY <1>1, EvidenceInvariant, PTL

(* An analysis of the present has all that it observed, however long that   *)
(* took (analysis_service.py create, packs.py).                             *)
THEOREM PresentIsComplete == EvidenceSpec => []PresentIsKnown
<1>1. EvidenceInv => PresentIsKnown
  BY DEF EvidenceInv, PresentIsKnown, AnalysisInv, Complete, Valid
<1> QED
  BY <1>1, EvidenceInvariant, PTL

(* An experiment passes the gate only on a comparison that stands, for any  *)
(* number of runs and links (comparability.py, gates.py).                   *)
THEOREM PassedExperimentsCompare == EvidenceSpec => []ProceedsOnComparable
<1>1. EvidenceInv => ProceedsOnComparable
  <2>1. SUFFICES ASSUME EvidenceInv, NEW k \in Keys, analysis[k] # None,
                        analysis[k].request.type = "EXPERIMENT_REVIEW",
                        analysis[k].gate = "PROCEED"
                 PROVE  \E i \in analysis[k].pack.items :
                          /\ i.from = <<"RESEARCH_COMPARISON", Experiment>>
                          /\ Ranked(i.runs)
    BY DEF ProceedsOnComparable, Ranked
  <2>2. PICK i \in analysis[k].pack.items : i.from[1] = "RESEARCH_COMPARISON" /\ i.ranking
    BY <2>1 DEF EvidenceInv, AnalysisInv, Compares
  <2>3. ItemInv(i)
    BY <2>1 DEF EvidenceInv, AnalysisInv
  <2> QED BY <2>2, <2>3 DEF ItemInv
<1> QED
  BY <1>1, EvidenceInvariant, PTL

-----------------------------------------------------------------------------
(* What the validation accepts of a claim, and what is true in the pack.    *)

LEMMA KeptIsTyped ==
  ASSUME NEW v \in Int \cup Words
  PROVE  /\ Kept(v) \in Int \cup Words
         /\ IsFinite(v) <=> Kept(v) \in Int
         /\ v \in Int => Kept(v) = v
         /\ v \in DOMAIN NotFinite => ~IsFinite(v)
         /\ IsFinite(v) => IsNumber(v)
         /\ ~IsFinite(v) => Kept(v) = v
<1>1. v \in Int => v \notin DOMAIN Recast
  BY ValidationAssumption
<1>2. Kept(v) \in Int \cup Words
  BY ValidationAssumption DEF Kept
<1>3. Kept(v) \in Int => Kept(v) \notin Words
  BY ValidationAssumption
<1>4. v \in DOMAIN NotFinite => v \notin DOMAIN Recast /\ v \in Words
  BY ValidationAssumption
<1>5. v \in DOMAIN Recast => Kept(v) \in Int
  BY ValidationAssumption DEF Kept
<1> QED
  BY <1>1, <1>2, <1>3, <1>4, <1>5 DEF IsNumber, IsFinite, Kept

\* The elements of a sequence are those at its places.
LEMMA NamedAre ==
  ASSUME NEW s \in Seq(STRING)
  PROVE  /\ \A r \in ToSet(s) : r \in STRING /\ \E i \in 1 .. Len(s) : r = s[i]
         /\ \A i \in 1 .. Len(s) : s[i] \in ToSet(s)
         /\ ToSet(s) = {} <=> s = <<>>
BY DEF ToSet

LEMMA UnitsAreOne ==
  ASSUME NEW c, ClaimFits(c), UnitsFit(c), Compared(c) # <<>>
  PROVE  \A r \in ToSet(Compared(c)) : Pack[r].unit = Pack[Compared(c)[1]].unit
<1>. DEFINE units == {Pack[r].unit : r \in ToSet(Compared(c))}
<1>1. Cardinality(units) = 1
  BY DEF UnitsFit
<1>2. Compared(c) \in Seq(STRING)
  BY DEF ClaimFits, Compared
<1>3. IsFiniteSet(1 .. Len(Compared(c)))
  BY <1>2, FS_Interval
<1>4. IsFiniteSet(units)
  <2>. DEFINE at == [i \in 1 .. Len(Compared(c)) |-> Pack[Compared(c)[i]].unit]
  <2>1. at \in Surjection(1 .. Len(Compared(c)), units)
    BY <1>2, NamedAre DEF Surjection
  <2>. HIDE DEF units, at
  <2> QED BY <1>3, <2>1, FS_Surjection
<1>5. PICK u : units = {u}
  <2>. HIDE DEF units
  <2> QED BY <1>1, <1>4, FS_Singleton
<1>6. \A r \in ToSet(Compared(c)) : Pack[r].unit \in units
  OBVIOUS
<1>7. Compared(c)[1] \in ToSet(Compared(c))
  BY <1>2, NamedAre
<1> QED
  BY <1>5, <1>6, <1>7

LEMMA DivisionCuts ==
  ASSUME NEW a \in Int, NEW b \in Int, b > 0
  PROVE  /\ a \div b \in Int
         /\ (a \div b) * b <= a /\ a < (a \div b) * b + b
OBVIOUS

LEMMA TimesGrows ==
  ASSUME NEW a \in Int, NEW b \in Int, a <= b, NEW p \in Nat
  PROVE  p * a <= p * b
OBVIOUS

LEMMA DistanceIs ==
  ASSUME NEW a \in Int, NEW b \in Int
  PROVE  Distance(a, b) \in Nat
BY DEF Distance

\* A relative tolerance is a part of the right side, however it is rounded.
LEMMA TolerancesAreClose ==
  ASSUME NEW x \in Int, NEW y \in Int, NEW semantic \in Numeric
  PROVE  Distance(x, y) <= Tolerance(semantic, y) <=> Close(x, y, semantic)
<1>1. PICK d \in Nat : d = Distance(x, y)
  BY DistanceIs
<1>2. PICK n \in Nat : n = Distance(y, 0)
  BY DistanceIs
<1>3. Part \in Nat /\ Part > 0 /\ Flat[semantic] \in Nat
  BY ValidationAssumption
<1>4. PICK q \in Int : q = n \div Part
  BY <1>3, DivisionCuts
<1>5. q * Part <= n /\ n < q * Part + Part
  BY <1>3, <1>4, DivisionCuts
<1>6. d <= q => Part * d <= n
  <2>1. d <= q => Part * d <= Part * q
    BY <1>3, TimesGrows
  <2> QED BY <2>1, <1>3, <1>5
<1>7. Part * d <= n => d <= q
  <2>1. q + 1 <= d => Part * (q + 1) <= Part * d
    BY <1>3, TimesGrows
  <2>2. PICK u \in Int : u = Part * d
    BY <1>3
  <2>3. PICK w \in Int : w = q * Part + Part
    BY <1>3
  <2>4. Part * (q + 1) = w
    BY <1>3, <2>3
  <2>5. n < w /\ (q + 1 <= d => w <= u)
    BY <1>5, <2>1, <2>2, <2>3, <2>4
  <2>6. u <= n => d <= q
    BY <2>5
  <2> QED BY <2>2, <2>6
<1>8. Tolerance(semantic, y) = IF semantic \in Relative /\ q > Flat[semantic]
                               THEN q ELSE Flat[semantic]
  BY <1>2, <1>4 DEF Tolerance
<1>9. PICK flat \in Nat : flat = Flat[semantic]
  BY <1>3
<1>10. CASE semantic \in Relative
  <2>1. Close(x, y, semantic) <=> d <= flat \/ Part * d <= n
    BY <1>1, <1>2, <1>9, <1>10 DEF Close
  <2>2. Tolerance(semantic, y) = IF q > flat THEN q ELSE flat
    BY <1>8, <1>9, <1>10
  <2> QED BY <2>1, <2>2, <1>1, <1>6, <1>7
<1>11. CASE semantic \notin Relative
  BY <1>1, <1>8, <1>9, <1>11 DEF Close
<1> QED
  BY <1>10, <1>11

LEMMA EqualIsAlike ==
  ASSUME NEW a \in Int \cup Words, NEW b \in Int \cup Words, NEW semantic,
         Equal(a, b, semantic)
  PROVE  Alike(a, b, semantic)
<1>1. CASE semantic \in Numeric /\ IsFinite(a) /\ IsFinite(b)
  <2>1. PICK x \in Int : x = Kept(a)
    BY <1>1, KeptIsTyped
  <2>2. PICK y \in Int : y = Kept(b)
    BY <1>1, KeptIsTyped
  <2>3. IsNumber(a) /\ IsNumber(b)
    BY <1>1, KeptIsTyped
  <2>4. Distance(x, y) <= Tolerance(semantic, y)
    BY <1>1, <2>1, <2>2, <2>3 DEF Equal
  <2>5. Close(x, y, semantic)
    BY <1>1, <2>4, TolerancesAreClose
  <2> QED BY <1>1, <2>1, <2>2, <2>3, <2>5 DEF Alike
<1>2. CASE ~ (semantic \in Numeric /\ IsFinite(a) /\ IsFinite(b))
  BY <1>2 DEF Equal, Alike
<1> QED
  BY <1>1, <1>2

\* What is computed is a number, of evidence that is numbers.
LEMMA ComputedIsNumber ==
  ASSUME NEW c, ClaimFits(c), Unfit(c) = {}, Derived(c)
  PROVE  /\ Computed(c) \in Int /\ c.value \in Int \cup Words
         /\ ResultSemantic(c) \in Numeric
         /\ \A r \in ToSet(c.operands) : Pack[r].semantic \in Numeric /\ Kept(Pack[r].value) \in Int
         /\ Kept(Operand(c, 1).value) \in Int /\ Kept(Operand(c, 2).value) \in Int
         /\ c.predicate = "PERCENT_CHANGE" => Kept(Operand(c, 1).value) # 0
<1>1. /\ Len(c.operands) = 2 /\ Named(c) \subseteq DOMAIN Pack
      /\ \A n \in {1, 2} : /\ Operand(c, n).semantic \in Numeric
                           /\ IsNumber(Operand(c, n).value)
      /\ c.predicate = "PERCENT_CHANGE" => Kept(Operand(c, 1).value) # 0
  BY DEF Unfit
<1>2. c.operands \in Seq(STRING) /\ c.value \in Int \cup Words
  BY DEF ClaimFits
<1>3. /\ \A n \in {1, 2} : c.operands[n] \in ToSet(c.operands)
      /\ \A r \in ToSet(c.operands) : \E n \in {1, 2} : r = c.operands[n]
  BY <1>1, <1>2, NamedAre
<1>4. \A r \in ToSet(c.operands) :
        /\ Pack[r].value \in Int \cup Words
        /\ Pack[r].semantic \in Numeric /\ IsNumber(Pack[r].value)
        /\ Pack[r].value \notin DOMAIN NotFinite
  BY <1>1, <1>3, ValidationAssumption DEF Named, Operand
<1>5. \A r \in ToSet(c.operands) : Kept(Pack[r].value) \in Int
  BY <1>4, KeptIsTyped DEF IsNumber
<1>6. PICK x \in Int : x = Kept(Operand(c, 1).value)
  BY <1>3, <1>5 DEF Operand
<1>7. PICK y \in Int : y = Kept(Operand(c, 2).value)
  BY <1>3, <1>5 DEF Operand
<1>8. PICK base \in Int : base = Distance(x, 0)
  BY DEF Distance
<1>9. x # 0 => base > 0
  BY <1>8 DEF Distance
<1>10. Computed(c) \in Int
  <2>1. CASE c.predicate = "DELTA"
    BY <2>1, <1>6, <1>7 DEF Computed
  <2>2. CASE c.predicate = "PERCENT_CHANGE"
    <3>1. Computed(c) = (100 * (y - x)) \div base
      BY <2>2, <1>6, <1>7, <1>8 DEF Computed
    <3>2. PICK k \in Int : k = 100 * (y - x)
      OBVIOUS
    <3>3. base > 0
      BY <1>1, <1>6, <1>9, <2>2
    <3> QED BY <3>1, <3>2, <3>3, DivisionCuts
  <2> QED BY <2>1, <2>2 DEF Derived
<1>11. ResultSemantic(c) \in Numeric
  BY <1>1 DEF ResultSemantic, Numeric, Relative
<1> QED
  BY <1>1, <1>2, <1>4, <1>5, <1>6, <1>7, <1>10, <1>11

LEMMA ComputedIsTrue ==
  ASSUME NEW c, ClaimFits(c), Derived(c), Unfit(c) = {}, Unproved(c) = {}
  PROVE  True(c)
<1>1. PICK q \in Int : q = Computed(c)
  BY ComputedIsNumber
<1>2. PICK x \in Int : x = Kept(Operand(c, 1).value)
  BY ComputedIsNumber
<1>3. PICK y \in Int : y = Kept(Operand(c, 2).value)
  BY ComputedIsNumber
<1>4. PICK base \in Int : base = IF x < 0 THEN -x ELSE x
  OBVIOUS
<1>5. base = Distance(x, 0) /\ (c.predicate = "PERCENT_CHANGE" => base # 0)
  BY <1>2, <1>4, ComputedIsNumber DEF Distance
<1>6. q = IF c.predicate = "DELTA" THEN x - y ELSE (100 * (y - x)) \div base
  BY <1>1, <1>2, <1>3, <1>5 DEF Computed
<1>7. /\ c.value \in Int \cup Words /\ ResultSemantic(c) \in Numeric
      /\ Equal(c.value, q, ResultSemantic(c))
  BY <1>1, ComputedIsNumber DEF Unproved
<1>8. Kept(q) = q /\ IsFinite(q) /\ IsNumber(q)
  BY <1>1, KeptIsTyped
<1>9. IsFinite(c.value) /\ IsNumber(c.value)
  <2>1. CASE IsNumber(c.value)
    BY <2>1, <1>7, <1>8 DEF Equal
  <2>2. CASE ~IsNumber(c.value)
    BY <2>2, <1>7, <1>8 DEF Equal
  <2> QED BY <2>1, <2>2
<1>10. PICK v \in Int : v = Kept(c.value) /\ Distance(v, q) <= Tolerance(ResultSemantic(c), q)
  BY <1>7, <1>8, <1>9, KeptIsTyped DEF Equal
<1>11. Close(v, q, ResultSemantic(c))
  BY <1>7, <1>10, TolerancesAreClose
<1>12. c.value \notin DOMAIN NotFinite
  BY <1>7, <1>9, KeptIsTyped
<1>13. UnitsFit(c) /\ Compared(c) = c.operands
  BY DEF Unfit, Compared
<1>14. \A r \in ToSet(c.operands) : Pack[r].semantic \in Numeric /\ Kept(Pack[r].value) \in Int
  BY ComputedIsNumber
<1>15. CASE c.predicate = "DELTA"
  <2>1. c.unit = Operand(c, 1).unit
    BY <1>13, <1>15 DEF UnitsFit, Operand
  <2>2. Close(v, x - y, Operand(c, 1).semantic)
    BY <1>6, <1>11, <1>15 DEF ResultSemantic
  <2> QED BY <2>1, <2>2, <1>2, <1>3, <1>10, <1>12, <1>14, <1>15 DEF True
<1>16. CASE c.predicate = "PERCENT_CHANGE"
  <2>1. c.unit = "RATIO"
    BY <1>13, <1>16 DEF UnitsFit
  <2>2. Close(v, (100 * (y - x)) \div base, "RATIO")
    BY <1>6, <1>11, <1>16 DEF ResultSemantic
  <2> QED BY <2>1, <2>2, <1>2, <1>3, <1>4, <1>5, <1>10, <1>12, <1>14, <1>16 DEF True
<1> QED
  BY <1>15, <1>16 DEF Derived

LEMMA FactIsTrue ==
  ASSUME NEW c, ClaimFits(c), IsFact(c), ~Derived(c), Unfit(c) = {}, Unproved(c) = {},
         c.value \notin DOMAIN NotFinite
  PROVE  True(c)
<1>1. /\ c.refs # <<>> /\ Named(c) \subseteq DOMAIN Pack /\ UnitsFit(c) /\ Compared(c) = c.refs
  BY DEF Unfit, Compared
<1>2. c.refs \in Seq(STRING) /\ c.value \in Int \cup Words /\ c.predicate \in Predicates
  BY DEF ClaimFits
<1>3. SUFFICES ASSUME NEW r \in ToSet(c.refs), NEW x, x = Kept(Pack[r].value),
                      NEW v, v = Kept(c.value),
                      NEW near, near = Close(x, v, Pack[r].semantic),
                      NEW from, from = Pack[r].value
               PROVE  /\ c.unit = Pack[r].unit
                      /\ IF Pack[r].semantic \in Numeric /\ x \in Int /\ v \in Int
                         THEN \/ c.predicate = "EQ" /\ near
                              \/ c.predicate = "NE" /\ ~near
                              \/ c.predicate = "GT" /\ x > v
                              \/ c.predicate = "GTE" /\ (x > v \/ near)
                              \/ c.predicate = "LT" /\ x < v
                              \/ c.predicate = "LTE" /\ (x < v \/ near)
                         ELSE \/ c.predicate = "EQ" /\ c.value = from
                              \/ c.predicate = "NE" /\ c.value # from
                              \/ /\ Pack[r].semantic = "DATETIME"
                                 /\ {c.value, from} \subseteq DOMAIN Instant
                                 /\ \/ c.predicate = "GT" /\ Instant[from] > Instant[c.value]
                                    \/ c.predicate = "GTE" /\ Instant[from] >= Instant[c.value]
                                    \/ c.predicate = "LT" /\ Instant[from] < Instant[c.value]
                                    \/ c.predicate = "LTE" /\ Instant[from] <= Instant[c.value]
  BY DEF True
<1>4. c.unit = Pack[r].unit
  <2>1. c.unit = Pack[c.refs[1]].unit
    BY <1>1 DEF UnitsFit, Derived
  <2> QED BY <2>1, <1>1, UnitsAreOne
<1>5. /\ from \in Int \cup Words
      /\ Pack[r].semantic \in Numeric => from \notin DOMAIN NotFinite
  BY <1>1, <1>3, ValidationAssumption DEF Named
<1>6. /\ IsFinite(from) <=> x \in Int
      /\ IsFinite(c.value) <=> v \in Int
      /\ Pack[r].semantic \in Numeric => (IsNumber(from) <=> IsFinite(from))
      /\ IsNumber(c.value) <=> IsFinite(c.value)
  BY <1>2, <1>3, <1>5, KeptIsTyped DEF IsNumber
<1>7. /\ ~Unsupported(c.predicate, Pack[r], c.value)
      /\ Holds(c.predicate, Pack[r], c.value)
  BY DEF Unproved
<1>8. c.predicate \in {"EQ", "NE"} \/ Comparable(Pack[r], c.value)
  BY <1>7 DEF Unsupported
<1>9. c.predicate \in {"EQ", "NE", "GT", "GTE", "LT", "LTE"}
  BY <1>2 DEF Predicates, Derived
<1>10. CASE Pack[r].semantic \in Numeric /\ x \in Int /\ v \in Int
  <2>1. Distance(x, v) <= Tolerance(Pack[r].semantic, v) <=> near
    BY <1>3, <1>10, TolerancesAreClose
  <2>2. Equal(from, c.value, Pack[r].semantic) <=> near
    BY <2>1, <1>3, <1>6, <1>10 DEF Equal
  <2>3. Pack[r].semantic # "DATETIME"
    BY <1>10 DEF Numeric, Relative
  <2>4. /\ Before(c.value, from, Pack[r].semantic) <=> x > v
        /\ Before(from, c.value, Pack[r].semantic) <=> x < v
    BY <2>3, <1>3, <1>6, <1>10 DEF Before
  <2> QED BY <1>3, <1>4, <1>7, <1>9, <1>10, <2>2, <2>4 DEF Holds
<1>11. CASE ~ (Pack[r].semantic \in Numeric /\ x \in Int /\ v \in Int)
  <2>1. Equal(from, c.value, Pack[r].semantic) <=> from = c.value
    BY <1>6, <1>11 DEF Equal
  <2>2. CASE c.predicate \in {"EQ", "NE"}
    BY <1>3, <1>4, <1>7, <1>11, <2>1, <2>2 DEF Holds
  <2>3. CASE c.predicate \notin {"EQ", "NE"}
    <3>1. /\ Pack[r].semantic = "DATETIME"
          /\ from \in DOMAIN Instant /\ c.value \in DOMAIN Instant
      BY <1>3, <1>6, <1>8, <1>11, <2>3 DEF Comparable
    <3>2. PICK s \in Int : s = Instant[from]
      BY <3>1, ValidationAssumption
    <3>3. PICK t \in Int : t = Instant[c.value]
      BY <3>1, ValidationAssumption
    <3>4. /\ Before(c.value, from, Pack[r].semantic) <=> s > t
          /\ Before(from, c.value, Pack[r].semantic) <=> s < t
          /\ from = c.value => s = t
      BY <3>1, <3>2, <3>3 DEF Before
    <3>5. \/ c.predicate = "GT" /\ s > t
          \/ c.predicate = "GTE" /\ s >= t
          \/ c.predicate = "LT" /\ s < t
          \/ c.predicate = "LTE" /\ s <= t
      <4>1. PICK type : type = Pack[r].semantic
        OBVIOUS
      <4>2. \/ c.predicate = "GT" /\ Before(c.value, from, type)
            \/ c.predicate = "GTE" /\ (Before(c.value, from, type) \/ from = c.value)
            \/ c.predicate = "LT" /\ Before(from, c.value, type)
            \/ c.predicate = "LTE" /\ (Before(from, c.value, type) \/ from = c.value)
        BY <1>3, <1>7, <1>9, <2>1, <2>3, <4>1 DEF Holds
      <4>3. s = t => s >= t /\ s <= t
        OBVIOUS
      <4>4. (s > t => s >= t) /\ (s < t => s <= t)
        OBVIOUS
      <4> QED BY <3>4, <4>1, <4>2, <4>3, <4>4
    <3> QED BY <1>4, <1>11, <3>1, <3>2, <3>3, <3>5
  <2> QED BY <2>2, <2>3
<1> QED
  BY <1>10, <1>11

LEMMA UnblamedIsSupported ==
  ASSUME NEW c, ClaimFits(c), Unfit(c) = {}, Unproved(c) = {},
         IsFact(c) /\ ~Derived(c) => c.value \notin DOMAIN NotFinite
  PROVE  /\ Named(c) \subseteq DOMAIN Pack
         /\ Named(c) = {} => c.type = "HYPOTHESIS"
         /\ IsFact(c) => \A r \in Named(c) : ~Pack[r].note
         /\ IsFact(c) \/ Derived(c) => True(c)
<1>1. c.refs \in Seq(STRING) /\ c.operands \in Seq(STRING)
  BY DEF ClaimFits
<1>2. Named(c) \subseteq DOMAIN Pack
  BY DEF Unfit
<1>3. IsFact(c) => \A r \in Named(c) : ~Pack[r].note
  BY DEF Unfit, FromNotes
<1>4. Named(c) = {} => c.refs = <<>> /\ c.operands = <<>>
  BY <1>1, NamedAre DEF Named
<1>5. Named(c) = {} => c.type = "HYPOTHESIS"
  BY <1>4 DEF Unfit, Compared, IsFact, ClaimFits
<1> QED
  BY <1>2, <1>3, <1>5, ComputedIsTrue, FactIsTrue

-----------------------------------------------------------------------------
(* What a claim says beside another one.                                    *)

\* Claims of one group name the same evidence under the same predicate.
LEMMA GroupSays ==
  ASSUME NEW c, NEW d, Group(c) = Group(d)
  PROVE  /\ c.type = d.type /\ c.predicate = d.predicate
         /\ ToSet(c.refs) = ToSet(d.refs) /\ Len(c.operands) = Len(d.operands)
         /\ (Derived(c) <=> Derived(d))
         /\ c.operands = d.operands => /\ Computed(c) = Computed(d)
                                       /\ ResultSemantic(c) = ResultSemantic(d)
<1>1. /\ c.type = d.type /\ c.predicate = d.predicate
      /\ ToSet(c.refs) = ToSet(d.refs) /\ Len(c.operands) = Len(d.operands)
  BY DEF Group
<1>2. c.operands = d.operands => /\ Computed(c) = Computed(d)
                                 /\ ResultSemantic(c) = ResultSemantic(d)
  BY <1>1 DEF Computed, Operand, ResultSemantic
<1> QED
  BY <1>1, <1>2 DEF Derived


\* What may be asked again is wrong with all claims of a group or with none.
LEMMA GroupFits ==
  ASSUME NEW c, NEW d, ClaimFits(c), ClaimFits(d), Group(c) = Group(d),
         Unfit(c) = {}, Unfit(d) \subseteq Retryable
  PROVE  Unfit(d) = {}
<1>1. /\ c.refs \in Seq(STRING) /\ c.operands \in Seq(STRING)
      /\ d.refs \in Seq(STRING) /\ d.operands \in Seq(STRING)
  BY DEF ClaimFits
<1>2. /\ c.type = d.type /\ c.predicate = d.predicate
      /\ ToSet(c.refs) = ToSet(d.refs) /\ Len(c.operands) = Len(d.operands)
      /\ (Derived(c) <=> Derived(d))
  BY GroupSays
<1>3. (c.refs = <<>> <=> d.refs = <<>>) /\ (c.operands = <<>> <=> d.operands = <<>>)
  BY <1>1, <1>2, NamedAre
<1>4. Compared(c) = <<>> <=> Compared(d) = <<>>
  BY <1>2, <1>3 DEF Compared
<1>5. /\ ~ (IsFact(d) /\ Compared(d) = <<>>)
      /\ ~ (d.type = "INFERENCE" /\ d.refs = <<>>)
      /\ ~ (Derived(d) /\ Len(d.operands) # 2)
  BY <1>2, <1>3, <1>4 DEF Unfit, IsFact
<1> QED
  BY <1>5 DEF Unfit, Retryable

-----------------------------------------------------------------------------
(* The results of the validation.                                           *)

Unsafe(a, n) ==
  LET known(refs) == \A k \in DOMAIN refs : refs[k] \in DOMAIN Pack
  IN /\ a.parses
     /\ \/ /\ "claims" \notin a.veiled
           /\ \E c \in ToSet(a.claims) :
                \/ "refs" \notin c.veiled /\ ~known(c.refs)
                \/ "operands" \notin c.veiled /\ ~known(c.operands)
        \/ Oversteps(a, n) \/ a.offtopic
        \/ n = 2 /\ a.misbound
        \/ n = 2 /\ "cited" \notin a.veiled /\ ~ (a.cited \subseteq DOMAIN Pack)

Findings ==
  {"SYNTAX_INVALID", "SCHEMA_INVALID", "FORBIDDEN_AI_AUTHORITY", "EVIDENCE_REF_NOT_FOUND",
   "ANALYSIS_TYPE_MISMATCH", "DIAGNOSIS_REF_MISMATCH", "DUPLICATE_CLAIM_ID",
   "FACT_EVIDENCE_REQUIRED", "INFERENCE_EVIDENCE_REQUIRED", "DERIVED_OPERANDS_INVALID",
   "EVIDENCE_UNIT_MISMATCH", "USER_NOTE_CANNOT_SUPPORT_FACT", "DERIVED_OPERAND_NOT_NUMERIC",
   "DERIVED_DIVISION_BY_ZERO", "EVIDENCE_VALUE_MISMATCH", "SEMANTIC_PREDICATE_NOT_SUPPORTED",
   "IMMUTABLE_FACT_DRIFT"}

\* A result blames what is wrong with an answer, and keeps its words.
Result(d) ==
  /\ d.stage \in {1, 2} /\ d.answer \in Answers[d.stage]
  /\ d.codes \in SUBSET Findings
  /\ d.words = WordsOf(d.answer, d.codes)
  /\ d.answer.parses =>
       \A c \in Readable(d.answer) :
         Unfit(c) \subseteq d.codes /\ (Unfit(c) = {} => Unproved(c) \subseteq d.codes)
  /\ d.codes = {} =>
       /\ d.answer.parses /\ ~Malformed(d.answer)
       /\ \A c \in Readable(d.answer) :
            IsFact(c) /\ ~Derived(c) => c.value \notin DOMAIN NotFinite
  /\ Unsafe(d.answer, d.stage) => ~ (d.codes \subseteq Retryable)

\* what the two stages may record
Results ==
  {d \in [stage : {1, 2}, answer : Answers[1] \cup Answers[2], codes : SUBSET Findings,
          words : {WordsOf(a, codes) : a \in Answers[1] \cup Answers[2], codes \in SUBSET Findings}] :
   Result(d)}

LEMMA ReadableFits ==
  ASSUME NEW n \in {1, 2}, NEW a \in Answers[n]
  PROVE  /\ \A c \in Readable(a) : ClaimFits(c)
         /\ Recognized(a) \subseteq 1 .. Len(a.claims) /\ Len(a.claims) \in Nat
         /\ \A k \in Recognized(a) : a.claims[k] \in Readable(a)
         /\ \A c \in ToSet(a.claims) : ClaimFits(c)
         /\ Readable(a) \subseteq ToSet(a.claims)
         /\ ~Malformed(a) => /\ Recognized(a) = DOMAIN a.claims
                             /\ Readable(a) = ToSet(a.claims)
                             /\ \A c \in ToSet(a.claims) : c.form = "sound"
<1>1. /\ Len(a.claims) \in Nat /\ DOMAIN a.claims = 1 .. Len(a.claims)
      /\ \A i \in DOMAIN a.claims : ClaimFits(a.claims[i])
      /\ a.veiled # {} => ~a.whole
  BY ValidationAssumption
<1>2. ToSet(a.claims) = {a.claims[i] : i \in DOMAIN a.claims}
  BY DEF ToSet
<1>3. ~Malformed(a) => /\ \A i \in DOMAIN a.claims : a.claims[i].form = "sound"
                       /\ Listed(a) = DOMAIN a.claims
  BY <1>1 DEF Malformed, Listed
<1>4. Listed(a) \subseteq DOMAIN a.claims
  BY DEF Listed
<1> QED
  BY <1>1, <1>2, <1>3, <1>4 DEF Recognized, Readable


LEMMA ClaimCodesAreNames ==
  ASSUME NEW c
  PROVE  ClaimCodes(c) \in SUBSET Findings
<1>1. Unfit(c) \in SUBSET Findings
  BY DEF Unfit, Findings
<1>2. Unproved(c) \in SUBSET Findings
  <2>1. CASE Derived(c)
    BY <2>1 DEF Unproved, Findings
  <2>2. CASE ~Derived(c) /\ ~IsFact(c)
    BY <2>2 DEF Unproved
  <2>3. CASE ~Derived(c) /\ IsFact(c)
    <3>. DEFINE found(r) == IF Unsupported(c.predicate, Pack[r], c.value)
                            THEN {"SEMANTIC_PREDICATE_NOT_SUPPORTED"}
                            ELSE IF Holds(c.predicate, Pack[r], c.value) THEN {}
                            ELSE {"EVIDENCE_VALUE_MISMATCH"}
    <3>1. \A r : found(r) \in {{"SEMANTIC_PREDICATE_NOT_SUPPORTED"}, {},
                             {"EVIDENCE_VALUE_MISMATCH"}}
      BY Zenon
    <3>2. Unproved(c) = UNION {found(r) : r \in ToSet(c.refs)}
      BY <2>3, Zenon DEF Unproved
    <3>. HIDE DEF found
    <3>3. \A r : found(r) \in SUBSET Findings
      BY <3>1 DEF Findings
    <3> QED BY <3>2, <3>3
  <2> QED BY <2>1, <2>2, <2>3
<1> QED
  BY <1>1, <1>2 DEF ClaimCodes, Findings

LEMMA EnvelopeCodesAre ==
  ASSUME NEW a, NEW n
  PROVE  /\ EnvelopeCodes(a, n) \in SUBSET Findings
         /\ Malformed(a) => "SCHEMA_INVALID" \in EnvelopeCodes(a, n)
         /\ Oversteps(a, n) => "FORBIDDEN_AI_AUTHORITY" \in EnvelopeCodes(a, n)
         /\ ~Safety(a, n) => "EVIDENCE_REF_NOT_FOUND" \in EnvelopeCodes(a, n)
         /\ a.offtopic => "ANALYSIS_TYPE_MISMATCH" \in EnvelopeCodes(a, n)
         /\ n = 2 /\ a.misbound => "DIAGNOSIS_REF_MISMATCH" \in EnvelopeCodes(a, n)
BY DEF EnvelopeCodes, Findings

\* The codes of an answer blame every claim that can be read.
LEMMA CodesBlame ==
  ASSUME NEW n \in {1, 2}, NEW a \in Answers[n]
  PROVE  /\ Codes(a, n) \in SUBSET Findings
         /\ a.parses => \A c \in Readable(a) : ClaimCodes(c) \subseteq Codes(a, n)
         /\ Codes(a, n) = {} => a.parses /\ ~Malformed(a)
         /\ Unsafe(a, n) => ~ (Codes(a, n) \subseteq Retryable)
<1>1. CASE ~a.parses
  <2>1. Codes(a, n) = {"SYNTAX_INVALID"}
    BY <1>1 DEF Codes
  <2> QED BY <1>1, <2>1 DEF Unsafe, Findings
<1>2. CASE a.parses
  <2>. DEFINE blamed == UNION {ClaimCodes(c) : c \in Readable(a)}
  <2>1. Codes(a, n) = EnvelopeCodes(a, n) \cup blamed
    BY <1>2 DEF Codes
  <2>2. blamed \in SUBSET Findings
    BY ClaimCodesAreNames
  <2>3. EnvelopeCodes(a, n) \in SUBSET Findings
    BY EnvelopeCodesAre
  <2>4. \A c \in Readable(a) : ClaimCodes(c) \subseteq blamed
    OBVIOUS
  <2>5. /\ Malformed(a) => "SCHEMA_INVALID" \in EnvelopeCodes(a, n)
        /\ Oversteps(a, n) => "FORBIDDEN_AI_AUTHORITY" \in EnvelopeCodes(a, n)
        /\ ~Safety(a, n) => "EVIDENCE_REF_NOT_FOUND" \in EnvelopeCodes(a, n)
        /\ a.offtopic => "ANALYSIS_TYPE_MISMATCH" \in EnvelopeCodes(a, n)
        /\ n = 2 /\ a.misbound => "DIAGNOSIS_REF_MISMATCH" \in EnvelopeCodes(a, n)
    BY EnvelopeCodesAre
  <2>6. Unsafe(a, n) =>
          Oversteps(a, n) \/ ~Safety(a, n) \/ a.offtopic \/ (n = 2 /\ a.misbound)
    <3>1. SUFFICES ASSUME "claims" \notin a.veiled, NEW c \in ToSet(a.claims),
                          NEW refs \in {c.refs, c.operands},
                          ToSet(refs) \subseteq Open(c), NEW k \in DOMAIN refs,
                          refs[k] \notin DOMAIN Pack
                   PROVE  ~Safety(a, n)
      <4>1. \A c \in ToSet(a.claims) :
              /\ "refs" \notin c.veiled => ToSet(c.refs) \subseteq Open(c)
              /\ "operands" \notin c.veiled => ToSet(c.operands) \subseteq Open(c)
        BY DEF Open
      <4>2. n = 2 /\ "cited" \notin a.veiled /\ ~ (a.cited \subseteq DOMAIN Pack) => ~Safety(a, n)
        BY DEF Safety
      <4> QED BY <4>1, <4>2, <3>1 DEF Unsafe
    <3>2. refs[k] \in Open(c)
      BY <3>1 DEF ToSet
    <3>3. PICK i \in Listed(a) : c = a.claims[i]
      BY <3>1 DEF Listed, ToSet
    <3> QED BY <3>1, <3>2, <3>3 DEF Safety
  <2>. HIDE DEF blamed
  <2>7. Unsafe(a, n) => ~ (Codes(a, n) \subseteq Retryable)
    BY <2>1, <2>5, <2>6 DEF Retryable
  <2> QED BY <1>2, <2>1, <2>2, <2>3, <2>4, <2>5, <2>7
<1> QED
  BY <1>1, <1>2

LEMMA JudgedIsResult ==
  ASSUME NEW n \in {1, 2}, NEW a \in Answers[n], Unwritable(a, Codes(a, n)) = {}
  PROVE  [stage |-> n, answer |-> a, codes |-> Codes(a, n),
          words |-> WordsOf(a, Codes(a, n))] \in Results
<1>1. PICK codes : codes = Codes(a, n)
  OBVIOUS
<1>2. PICK d : d = [stage |-> n, answer |-> a, codes |-> codes, words |-> WordsOf(a, codes)]
  OBVIOUS
<1>3. /\ codes \in SUBSET Findings
      /\ a.parses => \A c \in Readable(a) : ClaimCodes(c) \subseteq codes
      /\ codes = {} => a.parses /\ ~Malformed(a)
      /\ Unsafe(a, n) => ~ (codes \subseteq Retryable)
  BY <1>1, CodesBlame
<1>4. \A c : ClaimCodes(c) \subseteq codes =>
        Unfit(c) \subseteq codes /\ (Unfit(c) = {} => Unproved(c) \subseteq codes)
  BY DEF ClaimCodes
<1>5. Result(d)
  <2>1. codes = {} => \A c \in Readable(a) :
                        IsFact(c) /\ ~Derived(c) => c.value \notin DOMAIN NotFinite
    BY <1>1 DEF Unwritable, Readable
  <2> QED BY <2>1, <1>2, <1>3, <1>4 DEF Result
<1>6. a \in Answers[1] \cup Answers[2]
  OBVIOUS
<1>7. WordsOf(a, codes) \in
        {WordsOf(b, k) : b \in Answers[1] \cup Answers[2], k \in SUBSET Findings}
  BY <1>3, <1>6
<1>8. d \in Results
  BY <1>2, <1>3, <1>5, <1>6, <1>7 DEF Results
<1> QED
  BY <1>1, <1>2, <1>8

\* The words a result keeps are those of claims of its answer: of an accepted
\* one what is grounded, of a malformed one what it says.
LEMMA WordsAreSpoken ==
  ASSUME NEW d, Result(d)
  PROVE  /\ DOMAIN d.words \subseteq 1 .. Len(d.answer.claims) /\ Len(d.answer.claims) \in Nat
         /\ \A k \in DOMAIN d.words :
              LET c == d.answer.claims[k] IN
                /\ c \in Readable(d.answer) /\ ClaimFits(c)
                /\ \/ d.codes = {} /\ d.words[k] = Word(c, Grounded(c), AsText(c))
                   \/ /\ d.answer.parses /\ Malformed(d.answer)
                      /\ d.codes # {} /\ d.words[k] = Word(c, c.value, FALSE)
         /\ d.codes = {} \/ (d.answer.parses /\ Malformed(d.answer)) =>
              \A c \in Readable(d.answer) : \E k \in DOMAIN d.words : c = d.answer.claims[k]
<1>1. /\ d.stage \in {1, 2} /\ d.answer \in Answers[d.stage]
      /\ d.words = WordsOf(d.answer, d.codes)
      /\ d.codes = {} => d.answer.parses /\ ~Malformed(d.answer)
  BY DEF Result
<1>2. PICK a : a = d.answer
  OBVIOUS
<1>3. /\ \A c \in Readable(a) : ClaimFits(c)
      /\ Recognized(a) \subseteq 1 .. Len(a.claims) /\ Len(a.claims) \in Nat
      /\ \A k \in Recognized(a) : a.claims[k] \in Readable(a)
      /\ ~Malformed(a) => Recognized(a) = DOMAIN a.claims
      /\ Readable(a) = {a.claims[k] : k \in Recognized(a)}
  BY <1>1, <1>2, ReadableFits DEF Readable
<1>4. CASE d.codes = {}
  <2>1. d.words = [k \in Recognized(a) |->
                  Word(a.claims[k], Grounded(a.claims[k]), AsText(a.claims[k]))]
    BY <1>1, <1>2, <1>3, <1>4 DEF WordsOf
  <2> QED BY <2>1, <1>2, <1>3, <1>4
<1>5. CASE d.codes # {} /\ a.parses /\ Malformed(a)
  <2>1. d.words = [k \in Recognized(a) |-> Word(a.claims[k], a.claims[k].value, FALSE)]
    BY <1>1, <1>2, <1>5 DEF WordsOf
  <2>2. DOMAIN d.words = Recognized(a)
    BY <2>1
  <2>3. \A k \in Recognized(a) : d.words[k] = Word(a.claims[k], a.claims[k].value, FALSE)
    BY <2>1
  <2>4. \A k \in DOMAIN d.words :
          LET c == d.answer.claims[k] IN
            /\ c \in Readable(d.answer) /\ ClaimFits(c)
            /\ \/ d.codes = {} /\ d.words[k] = Word(c, Grounded(c), AsText(c))
               \/ /\ d.answer.parses /\ Malformed(d.answer)
                  /\ d.codes # {} /\ d.words[k] = Word(c, c.value, FALSE)
    BY <2>2, <2>3, <1>2, <1>3, <1>5
  <2> QED BY <2>2, <2>4, <1>2, <1>3
<1>6. CASE d.codes # {} /\ ~ (a.parses /\ Malformed(a))
  <2>1. d.words = <<>>
    BY <1>1, <1>2, <1>6 DEF WordsOf
  <2> QED BY <2>1, <1>2, <1>3, <1>6
<1> QED
  BY <1>4, <1>5, <1>6

-----------------------------------------------------------------------------
(* The results of an analysis: what one of them refuses for good is the     *)
(* last one, and what was said is held to.                                  *)

FinalInv ==
  \A i \in 1 .. Len(records) :
    ~ (records[i].codes \subseteq Retryable) => i = Len(records) /\ outcome = "REJECTED"

\* What an answer says agrees with the last one before it that says anything
\* of the matter.
HeldInv ==
  \A j \in 1 .. Len(records) : records[j].codes \subseteq Retryable =>
    \A c \in Readable(records[j].answer) : c \in Said(j, Group(c)) /\ Unfit(c) = {} =>
      \A i \in 1 .. (j - 1) :
        Said(i, Group(c)) # {} /\ (\A k \in (i + 1) .. (j - 1) : Said(k, Group(c)) = {}) =>
          \E b \in Said(i, Group(c)) : Agrees(b, c)

ValidationInv ==
  stage \in {1, 2} /\ records \in Seq(Results) /\ FinalInv /\ HeldInv

LEMMA ResultsAre ==
  ASSUME records \in Seq(Results), NEW i \in 1 .. Len(records)
  PROVE  Result(records[i]) /\ records[i] \in Results
<1>1. records[i] \in Results
  OBVIOUS
<1> QED
  BY <1>1 DEF Results

\* What an answer says is in the words of its result, and the other way round.
LEMMA SaidIs ==
  ASSUME records \in Seq(Results), NEW i \in 1 .. Len(records), NEW group
  PROVE  /\ Said(i, group) # {} <=> SaidIn(i, group) # {}
         /\ \A k \in SaidIn(i, group) :
              /\ k \in DOMAIN records[i].words
              /\ records[i].answer.claims[k] \in Said(i, group)
         /\ \E m \in Nat : SaidIn(i, group) \in SUBSET (0 .. m)
         /\ \A c \in Said(i, group) : /\ c \in Readable(records[i].answer) /\ ClaimFits(c)
                                      /\ Group(c) = group /\ records[i].answer.parses
<1>1. PICK d \in Results : d = records[i] /\ Result(d)
  BY ResultsAre
<1>2. i \in AcceptedAnswers <=> d.codes = {}
  BY <1>1 DEF AcceptedAnswers
<1>3. Said(i, group) = {c \in Readable(d.answer) :
                          /\ d.codes = {} \/ (d.answer.parses /\ Malformed(d.answer))
                          /\ Group(c) = group}
  BY <1>1, <1>2 DEF Said
<1>4. SaidIn(i, group) = {k \in DOMAIN d.words : d.words[k].group = group}
  BY <1>1 DEF SaidIn
<1>5. \A k \in DOMAIN d.words :
        /\ d.answer.claims[k] \in Readable(d.answer)
        /\ d.words[k].group = Group(d.answer.claims[k])
        /\ d.codes = {} \/ (d.answer.parses /\ Malformed(d.answer))
  <2>1. TAKE k \in DOMAIN d.words
  <2>2. PICK c : c = d.answer.claims[k]
    OBVIOUS
  <2>3. /\ c \in Readable(d.answer)
        /\ \/ d.codes = {} /\ d.words[k] = Word(c, Grounded(c), AsText(c))
           \/ /\ d.answer.parses /\ Malformed(d.answer)
              /\ d.words[k] = Word(c, c.value, FALSE)
    BY <1>1, <2>2, WordsAreSpoken
  <2>4. d.words[k].group = Group(c)
    BY <2>3 DEF Word
  <2> QED BY <2>2, <2>3, <2>4
<1>6. \A k \in SaidIn(i, group) : d.answer.claims[k] \in Said(i, group)
  BY <1>3, <1>4, <1>5
<1>7. ASSUME NEW c \in Said(i, group)
      PROVE  SaidIn(i, group) # {}
  <2>1. PICK k \in DOMAIN d.words : c = d.answer.claims[k]
    BY <1>1, <1>3, <1>7, WordsAreSpoken
  <2> QED BY <2>1, <1>3, <1>4, <1>5, <1>7
<1>8. PICK m \in Nat : m = Len(d.answer.claims) /\ DOMAIN d.words \subseteq 1 .. m
  <2>1. DOMAIN d.words \subseteq 1 .. Len(d.answer.claims) /\ Len(d.answer.claims) \in Nat
    BY <1>1, WordsAreSpoken
  <2> QED BY <2>1
<1>9. SaidIn(i, group) \in SUBSET (0 .. m)
  BY <1>4, <1>8
<1>10. \A c \in Readable(d.answer) : ClaimFits(c)
  BY <1>1, ReadableFits DEF Result
<1>11. d.codes = {} => d.answer.parses
  BY <1>1 DEF Result
<1> QED
  BY <1>1, <1>3, <1>4, <1>6, <1>7, <1>9, <1>10, <1>11

\* The last word of a group is a word of some result.
LEMMA LastIsSaid ==
  ASSUME records \in Seq(Results), NEW group, NEW i \in 1 .. Len(records),
         i = Max(SaidOf(group)), SaidIn(i, group) # {}
  PROVE  \E k \in SaidIn(i, group) : LastSaid(group) = records[i].words[k]
<1>1. PICK m \in Nat : SaidIn(i, group) \in SUBSET (0 .. m)
  BY SaidIs
<1>2. PICK k : k = Max(SaidIn(i, group))
  OBVIOUS
<1>3. k \in SaidIn(i, group)
  BY <1>1, <1>2, GreatestExists
<1>4. LastSaid(group) = records[i].words[k]
  BY <1>2 DEF LastSaid
<1> QED
  BY <1>3, <1>4

\* A claim that repeats what an answer said of its matter agrees with it.
LEMMA RepeatsAgrees ==
  ASSUME NEW b, NEW c, ClaimFits(b), ClaimFits(c), Group(b) = Group(c),
         Unfit(b) = {}, Unproved(b) = {}, Unfit(c) = {}, Unproved(c) = {},
         NEW last, last.operands = c.operands, Repeats(c, last),
         \/ /\ last = Word(b, Grounded(b), AsText(b))
            /\ IsFact(b) /\ ~Derived(b) => b.value \notin DOMAIN NotFinite
         \/ last = Word(b, b.value, FALSE)
  PROVE  Agrees(b, c)
<1>1. b.value \in Int \cup Words /\ c.value \in Int \cup Words
  BY DEF ClaimFits
<1>2. b.operands = c.operands
  BY DEF Word
<1>3. /\ Derived(b) <=> Derived(c)
      /\ Computed(b) = Computed(c) /\ ResultSemantic(b) = ResultSemantic(c)
  BY <1>2, GroupSays
<1>4. CASE Derived(c)
  <2>1. PICK q \in Int : q = Computed(c)
    BY <1>4, ComputedIsNumber
  <2>2. /\ Equal(c.value, q, ResultSemantic(c))
        /\ Equal(b.value, q, ResultSemantic(c))
    BY <1>3, <1>4, <2>1 DEF Unproved
  <2>3. /\ Alike(c.value, q, ResultSemantic(c))
        /\ Alike(b.value, q, ResultSemantic(c))
    BY <1>1, <2>1, <2>2, EqualIsAlike
  <2> QED BY <1>2, <1>4, <2>1, <2>3 DEF Agrees
<1>5. CASE ~Derived(c)
  <2>. PICK semantic : semantic = Semantic(c)
    OBVIOUS
  <2>1. SUFFICES Alike(b.value, c.value, semantic)
    BY <1>2, <1>5 DEF Agrees
  <2>2. CASE /\ last = Word(b, Grounded(b), AsText(b)) /\ IsFact(b) /\ IsNumber(b.value)
             /\ b.value \notin DOMAIN NotFinite
    <3>1. IsFinite(b.value) /\ IsNumber(b.value)
      BY <2>2 DEF IsNumber
    <3>2. PICK x \in Int : x = Kept(b.value)
      BY <3>1, <1>1, KeptIsTyped
    <3>3. last.value = x /\ last.text
      BY <2>2, <3>2, <1>3, <1>5 DEF Word, Grounded, AsText
    <3>4. Kept(x) = x /\ IsFinite(x) /\ IsNumber(x)
      BY <3>2, KeptIsTyped
    <3>5. CASE semantic \in Numeric /\ IsNumber(c.value)
      <4>1. Equal(x, c.value, semantic)
        BY <3>3, <3>5 DEF Repeats
      <4>2. Alike(x, c.value, semantic)
        BY <4>1, <1>1, EqualIsAlike
      <4> QED BY <4>2, <3>1, <3>2, <3>4, <3>5 DEF Alike
    <3>6. CASE ~ (semantic \in Numeric /\ IsNumber(c.value))
      <4>1. Kept(c.value) = x
        BY <3>3, <3>6 DEF Repeats
      <4> QED BY <4>1, <3>2, <3>6 DEF Alike
    <3> QED BY <3>5, <3>6
  <2>3. CASE last = Word(b, b.value, FALSE)
    <3>1. last.value = b.value /\ ~last.text
      BY <2>3 DEF Word
    <3>2. Equal(b.value, c.value, semantic)
      BY <3>1 DEF Repeats
    <3> QED BY <3>2, <1>1, EqualIsAlike
  <2>4. CASE last = Word(b, Grounded(b), AsText(b)) /\ ~ (IsFact(b) /\ IsNumber(b.value))
    <3>1. Grounded(b) = b.value /\ ~AsText(b)
      BY <2>4, <1>1, <1>3, <1>5, KeptIsTyped DEF Grounded, AsText
    <3>2. last.value = b.value /\ ~last.text
      BY <2>4, <3>1 DEF Word
    <3>3. Equal(b.value, c.value, semantic)
      BY <3>2 DEF Repeats
    <3> QED BY <3>3, <1>1, EqualIsAlike
  <2> QED BY <2>2, <2>3, <2>4, <1>3, <1>5
<1> QED
  BY <1>4, <1>5

\* What an answer that may be asked for again says of a claim that may be
\* accepted is proved.
LEMMA AskedAgainIsProved ==
  ASSUME NEW d, Result(d), d.answer.parses, d.codes \subseteq Retryable,
         NEW b \in Readable(d.answer), NEW c, ClaimFits(c), Unfit(c) = {}, Group(b) = Group(c)
  PROVE  Unfit(b) = {} /\ Unproved(b) = {}
<1>1. ClaimFits(b)
  BY ReadableFits DEF Result
<1>2. Unfit(b) \subseteq d.codes /\ (Unfit(b) = {} => Unproved(b) \subseteq d.codes)
  BY DEF Result
<1>3. Unfit(b) = {}
  BY <1>1, <1>2, GroupFits
<1>4. Unproved(b) \subseteq {"SEMANTIC_PREDICATE_NOT_SUPPORTED", "EVIDENCE_VALUE_MISMATCH"}
  BY Zenon DEF Unproved
<1>5. Unproved(b) \subseteq Retryable
  BY <1>2, <1>3
<1>6. \A code \in Unproved(b) : FALSE
  BY <1>4, <1>5 DEF Retryable
<1> QED
  BY <1>3, <1>6

\* A claim that does not drift agrees with the last answer on its matter.
LEMMA SteadyClaim ==
  ASSUME records \in Seq(Results),
         \A i \in 1 .. Len(records) : records[i].codes \subseteq Retryable,
         NEW c, ClaimFits(c), Unfit(c) = {}, Unproved(c) = {}, ~Drifts(c),
         NEW i \in 1 .. Len(records), Said(i, Group(c)) # {},
         \A k \in (i + 1) .. Len(records) : Said(k, Group(c)) = {}
  PROVE  \E b \in Said(i, Group(c)) : Agrees(b, c)
<1>1. PICK group : group = Group(c)
  OBVIOUS
<1>2. \A k \in 1 .. Len(records) : Said(k, group) # {} <=> SaidIn(k, group) # {}
  BY SaidIs
<1>3. PICK S : S = SaidOf(group)
  OBVIOUS
<1>4. /\ S \in SUBSET (0 .. Len(records)) /\ Len(records) \in Nat
      /\ i \in S /\ \A k \in S : k <= i
  BY <1>1, <1>2, <1>3 DEF SaidOf
<1>5. Max(S) = i
  <2>1. PICK n \in Nat : n = Len(records)
    BY <1>4
  <2>2. S \in SUBSET (0 .. n) /\ S # {}
    BY <1>4, <2>1
  <2>3. PICK m \in S : m = Max(S) /\ \A k \in S : k <= m
    BY <2>2, GreatestExists
  <2>4. m \in Nat /\ i \in Nat /\ m <= i /\ i <= m
    BY <1>4, <2>2, <2>3
  <2>5. m = i
    BY <2>4
  <2> QED BY <2>3, <2>5
<1>6. SaidIn(i, group) # {}
  BY <1>1, <1>2
<1>7. PICK k \in SaidIn(i, group) : LastSaid(group) = records[i].words[k]
  BY <1>3, <1>5, <1>6, LastIsSaid
<1>8. PICK d \in Results : d = records[i] /\ Result(d)
  BY ResultsAre
<1>9. PICK b : b = d.answer.claims[k]
  OBVIOUS
<1>10. b \in Said(i, group) /\ k \in DOMAIN d.words
  BY <1>7, <1>8, <1>9, SaidIs
<1>11. /\ b \in Readable(d.answer) /\ ClaimFits(b)
       /\ \/ d.codes = {} /\ d.words[k] = Word(b, Grounded(b), AsText(b))
          \/ d.words[k] = Word(b, b.value, FALSE)
  BY <1>8, <1>9, <1>10, WordsAreSpoken
<1>12. Group(b) = Group(c) /\ d.answer.parses
  BY <1>1, <1>8, <1>10, SaidIs
<1>13. d.codes \subseteq Retryable
  BY <1>8
<1>14. Unfit(b) = {} /\ Unproved(b) = {}
  BY <1>8, <1>11, <1>12, <1>13, AskedAgainIsProved
<1>15. d.codes = {} => (IsFact(b) /\ ~Derived(b) => b.value \notin DOMAIN NotFinite)
  BY <1>8, <1>11 DEF Result
<1>16. PICK last : last = LastSaid(group)
  OBVIOUS
<1>17. last.operands = c.operands /\ Repeats(c, last)
  BY <1>1, <1>3, <1>4, <1>16 DEF Drifts
<1>18. Agrees(b, c)
  BY <1>7, <1>8, <1>11, <1>12, <1>14, <1>15, <1>16, <1>17, RepeatsAgrees
<1> QED
  BY <1>1, <1>10, <1>18

\* A recorded step, by what it leaves behind.
LEMMA JudgeRecords ==
  ASSUME NEW a \in Answers[stage], stage \in {1, 2}, records \in Seq(Results),
         Judge(a), records' # records
  PROVE  \E d \in Results :
           /\ d.stage = stage /\ d.answer = a /\ d.codes = Codes(a, stage)
           /\ records' = Append(records, d)
           /\ outcome = "OPEN"
           /\ ~ (d.codes \subseteq Retryable) => outcome' = "REJECTED"
           /\ stage' \in {1, 2}
<1>1. PICK codes : codes = Codes(a, stage)
  OBVIOUS
<1>2. PICK d : d = [stage |-> stage, answer |-> a, codes |-> codes, words |-> WordsOf(a, codes)]
  OBVIOUS
<1>3. /\ outcome = "OPEN" /\ Unwritable(a, codes) = {}
      /\ records' = Append(records, d)
      /\ codes # {} => outcome' = Goes(stage, codes)
      /\ stage' \in {stage, 2}
  BY <1>1, <1>2 DEF Judge
<1>4. d \in Results
  BY <1>1, <1>2, <1>3, JudgedIsResult
<1>5. ~ (codes \subseteq Retryable) => codes # {} /\ Goes(stage, codes) = "REJECTED"
  BY DEF Goes
<1> QED
  BY <1>1, <1>2, <1>3, <1>4, <1>5

LEMMA SaidStays ==
  ASSUME records \in Seq(Results), NEW d \in Results, records' = Append(records, d),
         NEW i \in 1 .. Len(records)
  PROVE  records'[i] = records[i] /\ \A group : Said(i, group)' = Said(i, group)
<1>1. /\ records'[i] = records[i]
      /\ i \in DOMAIN records /\ i \in DOMAIN records'
  BY AppendProperties
<1>2. i \in AcceptedAnswers' <=> i \in AcceptedAnswers
  BY <1>1 DEF AcceptedAnswers
<1> QED
  BY <1>1, <1>2 DEF Said

\* One more result is the last one if it refuses for good, and otherwise
\* agrees with what was said.
LEMMA ResultStep ==
  ASSUME ValidationInv, NEW d \in Results, records' = Append(records, d),
         d.stage = stage, d.codes = Codes(d.answer, stage), outcome = "OPEN",
         ~ (d.codes \subseteq Retryable) => outcome' = "REJECTED"
  PROVE  FinalInv' /\ HeldInv'
<1>1. /\ records \in Seq(Results) /\ stage \in {1, 2} /\ HeldInv /\ Result(d)
      /\ \A i \in 1 .. Len(records) : records[i].codes \subseteq Retryable
  BY DEF ValidationInv, FinalInv, Results
<1>2. PICK n \in Nat : n = Len(records)
  BY <1>1
<1>3. /\ Len(records') = n + 1 /\ DOMAIN records' = 1 .. (n + 1)
      /\ \A i \in 1 .. n : records'[i] = records[i]
      /\ records'[n + 1] = d
  BY <1>1, <1>2, AppendProperties
<1>4. FinalInv'
  BY <1>1, <1>2, <1>3 DEF FinalInv
<1>5. \A i \in 1 .. n : \A group : Said(i, group)' = Said(i, group)
  BY <1>1, <1>2, SaidStays
<1>6. HeldInv'
  <2>1. SUFFICES ASSUME NEW j \in 1 .. (n + 1), records'[j].codes \subseteq Retryable,
                        NEW c \in Readable(records'[j].answer),
                        c \in Said(j, Group(c))', Unfit(c) = {},
                        NEW i \in 1 .. (j - 1), Said(i, Group(c)) # {},
                        \A k \in (i + 1) .. (j - 1) : Said(k, Group(c)) = {}
                 PROVE  \E b \in Said(i, Group(c)) : Agrees(b, c)
    <3>1. SUFFICES ASSUME NEW j \in 1 .. (n + 1), records'[j].codes \subseteq Retryable,
                          NEW c \in Readable(records'[j].answer),
                          c \in Said(j, Group(c))', Unfit(c) = {},
                          NEW i \in 1 .. (j - 1), Said(i, Group(c))' # {},
                          \A k \in (i + 1) .. (j - 1) : Said(k, Group(c))' = {}
                   PROVE  \E b \in Said(i, Group(c))' : Agrees(b, c)
      BY <1>3 DEF HeldInv
    <3>2. \A k \in i .. (j - 1) : Said(k, Group(c))' = Said(k, Group(c))
      BY <1>5
    <3>3. /\ i \in i .. (j - 1)
          /\ \A k \in (i + 1) .. (j - 1) : k \in i .. (j - 1)
      OBVIOUS
    <3>4. Said(i, Group(c)) # {} /\ \A k \in (i + 1) .. (j - 1) : Said(k, Group(c)) = {}
      BY <3>1, <3>2, <3>3
    <3>5. \E b \in Said(i, Group(c)) : Agrees(b, c)
      BY <2>1, <3>1, <3>4
    <3> QED BY <3>2, <3>3, <3>5
  <2>2. CASE j \in 1 .. n
    BY <2>1, <2>2, <1>1, <1>2, <1>3, <1>5 DEF HeldInv
  <2>3. CASE j = n + 1
    <3>1. /\ d.codes \subseteq Retryable /\ c \in Readable(d.answer)
          /\ d.answer \in Answers[stage]
      BY <2>1, <2>3, <1>1, <1>3 DEF Result
    <3>2. ClaimFits(c)
      BY <3>1, <1>1, ReadableFits
    <3>3. d.answer.parses
      <4>1. d.codes = {} \/ d.answer.parses
        BY <2>1, <2>3, <1>3 DEF Said, AcceptedAnswers
      <4> QED BY <4>1, <1>1 DEF Result
    <3>4. Unproved(c) = {}
      BY <3>1, <3>2, <3>3, <2>1, <1>1, AskedAgainIsProved
    <3>5. ~Drifts(c)
      <4>1. ClaimCodes(c) \subseteq Retryable
        BY <3>1, <3>3, <1>1, CodesBlame
      <4> QED BY <4>1, <2>1 DEF ClaimCodes, Retryable
    <3> QED BY <3>2, <3>4, <3>5, <2>1, <2>3, <1>1, <1>2, SteadyClaim
  <2> QED BY <2>2, <2>3
<1> QED
  BY <1>4, <1>6

LEMMA SameRecords ==
  ASSUME ValidationInv, stage' = stage, records' = records,
         outcome' = outcome \/ outcome = "OPEN"
  PROVE  ValidationInv'
<1>1. \A i : \A group : Said(i, group)' = Said(i, group)
  BY DEF Said, AcceptedAnswers
<1>2. FinalInv'
  BY DEF ValidationInv, FinalInv
<1>3. HeldInv'
  BY <1>1 DEF ValidationInv, HeldInv
<1> QED
  BY <1>2, <1>3 DEF ValidationInv

\* The invariant of the validation, whatever the model answers and however
\* often: only the last result refuses for good, and what is said of a claim
\* agrees with the last answer that said anything of it.
THEOREM ValidationInvariant == Spec => []ValidationInv
<1>1. Init => ValidationInv
  BY DEF Init, ValidationInv, FinalInv, HeldInv
<1>2. ValidationInv /\ [Next]_vars => ValidationInv'
  <2>1. SUFFICES ASSUME ValidationInv, [Next]_vars
                 PROVE  ValidationInv'
    OBVIOUS
  <2>2. CASE UNCHANGED vars
    <3>1. stage' = stage /\ records' = records /\ outcome' = outcome
      BY <2>2 DEF vars
    <3> QED BY <3>1, <2>1, SameRecords
  <2>3. ASSUME NEW a \in Answers[stage], Judge(a), records' # records
        PROVE  ValidationInv'
    <3>1. PICK d \in Results :
            /\ d.stage = stage /\ d.answer = a /\ d.codes = Codes(a, stage)
            /\ records' = Append(records, d)
            /\ outcome = "OPEN"
            /\ ~ (d.codes \subseteq Retryable) => outcome' = "REJECTED"
            /\ stage' \in {1, 2}
      BY <2>1, <2>3, JudgeRecords DEF ValidationInv
    <3>2. records' \in Seq(Results)
      BY <2>1, <3>1, AppendProperties DEF ValidationInv
    <3>3. FinalInv' /\ HeldInv'
      BY <2>1, <3>1, ResultStep
    <3> QED BY <3>1, <3>2, <3>3 DEF ValidationInv
  <2>4. ASSUME NEW a \in Answers[stage], Judge(a), records' = records
        PROVE  ValidationInv'
    <3>1. records \in Seq(Results)
      BY <2>1 DEF ValidationInv
    <3>2. \A d : Append(records, d) # records
      BY <3>1
    <3>3. outcome = "OPEN" /\ stage' = stage
      BY <2>4, <3>2 DEF Judge
    <3> QED BY <3>3, <2>1, <2>4, SameRecords
  <2> QED BY <2>1, <2>2, <2>3, <2>4 DEF Next
<1> QED
  BY <1>1, <1>2, PTL DEF Spec

\* What is accepted is supported by the pack: in neither stage, after whatever
\* retries, is a fact accepted that the pack does not prove or that rests on
\* what the user wrote, nor a claim without evidence but a hypothesis.
THEOREM AcceptedClaimsAreSupported == Spec => []AcceptedIsSupported
<1>1. ValidationInv => AcceptedIsSupported
  <2>1. SUFFICES ASSUME ValidationInv, NEW i \in AcceptedAnswers,
                        NEW c \in ToSet(records[i].answer.claims)
                 PROVE  /\ c.form = "sound" /\ Named(c) \subseteq DOMAIN Pack
                        /\ Named(c) = {} => c.type = "HYPOTHESIS"
                        /\ IsFact(c) => \A r \in Named(c) : ~Pack[r].note
                        /\ IsFact(c) \/ Derived(c) => True(c)
    BY DEF AcceptedIsSupported
  <2>2. i \in 1 .. Len(records) /\ records[i].codes = {}
    BY <2>1 DEF AcceptedAnswers, ValidationInv
  <2>3. Result(records[i])
    BY <2>1, <2>2, ResultsAre DEF ValidationInv
  <2>4. PICK a : a = records[i].answer
    OBVIOUS
  <2>5. /\ a.parses /\ ~Malformed(a) /\ a \in Answers[records[i].stage]
        /\ records[i].stage \in {1, 2}
        /\ \A b \in Readable(a) :
             /\ Unfit(b) = {} /\ Unproved(b) = {}
             /\ IsFact(b) /\ ~Derived(b) => b.value \notin DOMAIN NotFinite
    BY <2>2, <2>3, <2>4 DEF Result
  <2>6. ClaimFits(c) /\ c \in Readable(a) /\ c.form = "sound"
    BY <2>1, <2>4, <2>5, ReadableFits
  <2> QED BY <2>5, <2>6, UnblamedIsSupported
<1> QED
  BY <1>1, ValidationInvariant, PTL

\* An answer that makes evidence up in a list of references that can be read,
\* oversteps what it may ask for or answers another question is the last one
\* of its analysis.
THEOREM UnsafeAnswersAreFinal == Spec => []UnsafeIsFinal
<1>1. ValidationInv => UnsafeIsFinal
  <2>1. SUFFICES ASSUME ValidationInv, NEW i \in DOMAIN records,
                        Unsafe(records[i].answer, records[i].stage)
                 PROVE  i = Len(records) /\ outcome = "REJECTED"
    BY DEF UnsafeIsFinal, Unsafe
  <2>2. i \in 1 .. Len(records)
    BY <2>1 DEF ValidationInv
  <2>3. Result(records[i])
    BY <2>1, <2>2, ResultsAre DEF ValidationInv
  <2>4. ~ (records[i].codes \subseteq Retryable)
    BY <2>1, <2>3 DEF Result
  <2> QED BY <2>1, <2>2, <2>4 DEF ValidationInv, FinalInv
<1> QED
  BY <1>1, ValidationInvariant, PTL

\* A retry does not change what was said: from what could be read of a
\* malformed answer, or was accepted in the diagnosis, answers that agree with
\* one before them lead to every later accepted answer on the same matter.
THEOREM RetriesKeepTheirWord == Spec => []RetryKeepsWord
<1>1. ValidationInv => RetryKeepsWord
  <2>1. SUFFICES ASSUME ValidationInv, NEW j \in AcceptedAnswers, NEW i \in 1 .. (j - 1),
                        NEW c \in ToSet(records[j].answer.claims), Said(i, Group(c)) # {}
                 PROVE  \E path \in SUBSET (i .. j) :
                          /\ {i, j} \subseteq path
                          /\ \A k \in path \ {i} : \A later \in Said(k, Group(c)) :
                               \E h \in path : \E earlier \in Said(h, Group(c)) :
                                 h < k /\ Agrees(earlier, later)
    BY DEF RetryKeepsWord
  <2>2. records \in Seq(Results) /\ FinalInv /\ HeldInv
    BY <2>1 DEF ValidationInv
  <2>3. PICK n \in Nat : n = Len(records)
    BY <2>2
  <2>4. j \in 1 .. n /\ i \in 1 .. n /\ records[j].codes = {}
    BY <2>1, <2>2, <2>3 DEF AcceptedAnswers
  <2>5. PICK group : group = Group(c)
    OBVIOUS
  <2>6. PICK a : a = records[j].answer
    OBVIOUS
  <2>7. Result(records[j])
    BY <2>2, <2>3, <2>4, ResultsAre
  <2>8. /\ a.parses /\ ~Malformed(a) /\ a \in Answers[records[j].stage]
        /\ records[j].stage \in {1, 2}
    BY <2>4, <2>6, <2>7 DEF Result
  <2>9. ClaimFits(c) /\ c \in Readable(a)
    BY <2>1, <2>6, <2>8, ReadableFits
  <2>10. Unfit(c) = {}
    BY <2>4, <2>6, <2>7, <2>8, <2>9 DEF Result
  <2>11. c \in Said(j, group)
    BY <2>1, <2>5, <2>6, <2>9 DEF Said
  <2>12. PICK path : path = {k \in i .. j : Said(k, group) # {}}
    OBVIOUS
  <2>13. path \in SUBSET (i .. j) /\ {i, j} \subseteq path
    BY <2>1, <2>4, <2>5, <2>11, <2>12
  <2>14. ASSUME NEW k \in path \ {i}, NEW later \in Said(k, group)
         PROVE  \E h \in path : \E earlier \in Said(h, group) : h < k /\ Agrees(earlier, later)
    <3>1. k \in 1 .. n /\ i < k /\ k <= j
      BY <2>4, <2>12, <2>14
    <3>2. records[k].codes \subseteq Retryable
      <4>1. CASE k = j
        BY <4>1, <2>4
      <4>2. CASE k # j
        <5>1. k # n
          BY <4>2, <3>1, <2>4
        <5> QED BY <5>1, <3>1, <2>2, <2>3 DEF FinalInv
      <4> QED BY <4>1, <4>2
    <3>3. /\ later \in Readable(records[k].answer) /\ Group(later) = group
          /\ records[k].answer.parses
      BY <2>2, <2>3, <2>14, <3>1, SaidIs
    <3>4. Unfit(later) = {}
      <4>1. Result(records[k])
        BY <2>2, <2>3, <3>1, ResultsAre
      <4> QED BY <4>1, <3>2, <3>3, <2>5, <2>9, <2>10, AskedAgainIsProved
    <3>5. PICK S : S = {m \in i .. (k - 1) : Said(m, group) # {}}
      OBVIOUS
    <3>6. S \in SUBSET (0 .. n) /\ S # {}
      <4>1. i \in S
        BY <2>1, <2>4, <2>5, <3>1, <3>5
      <4> QED BY <4>1, <2>4, <3>1, <3>5
    <3>7. PICK h \in S : \A m \in S : m <= h
      BY <3>6, GreatestExists
    <3>8. h \in 1 .. (k - 1) /\ i <= h /\ h < k /\ Said(h, group) # {}
      BY <2>4, <3>1, <3>5, <3>7
    <3>9. \A m \in (h + 1) .. (k - 1) : Said(m, group) = {}
      BY <2>4, <3>1, <3>5, <3>7, <3>8
    <3>10. \E earlier \in Said(h, group) : Agrees(earlier, later)
      BY <2>2, <2>3, <2>14, <3>1, <3>2, <3>3, <3>4, <3>8, <3>9 DEF HeldInv
    <3>11. h \in path
      BY <2>4, <2>12, <3>1, <3>8
    <3> QED BY <3>8, <3>10, <3>11
  <2>15. \A k \in path \ {i} : \A later \in Said(k, group) :
           \E h \in path : \E earlier \in Said(h, group) : h < k /\ Agrees(earlier, later)
    BY <2>14
  <2> QED BY <2>5, <2>13, <2>15
<1> QED
  BY <1>1, ValidationInvariant, PTL
=============================================================================
