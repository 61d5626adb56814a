------------------------ MODULE DatasetPublicationMC ------------------------
(* Two publishers over two batches.  One batch is contested: both work on  *)
(* it, at once or in turn, while one of them may publish the other batch.  *)
(* The last crash interrupts a recovery, and the run ends when recovery    *)
(* has made up for it.                                                     *)
EXTENDS DatasetPublication

CONSTANTS Second, Contested

ASSUME ContestAssumption == Second \in Publishers /\ Contested \in Batches

Bounded ==
  /\ call'[Second].at # "idle" => call'[Second].batch = Contested
  /\ crashes' = MaxCrashes => recover # {}

Over == crashes = MaxCrashes /\ recover = {}

MCNext == \/ Next /\ Bounded
          \/ Over /\ UNCHANGED vars

MCSpec == Init /\ [][MCNext]_vars /\ Fairness
=============================================================================
