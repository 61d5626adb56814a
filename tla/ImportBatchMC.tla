---------------------------- MODULE ImportBatchMC ---------------------------
(* Small instance of ImportBatch with the rules of QualityRules: one         *)
(* readable upload that is clean under a mapping, has warnings under another *)
(* and is blocked under the third, what an edit makes of it, and one that    *)
(* cannot be read.  Two storage keys, so that the upload can come twice.     *)
(*                                                                           *)
(* The cells: two instruments of one exchange and one of the other, three    *)
(* days, closes on both sides of both 30% limits, and a row for every rule.  *)
EXTENDS ImportBatch, QualityRules, TLC
CONSTANTS c1, c2, source, edited, broken, m1, m2, m3

Bar(symbol, day, close) ==
  [symbol |-> symbol, exchange |-> "", day |-> day, open |-> close, high |-> close,
   low |-> close, close |-> close, volume |-> 1, amount |-> 1]

MCCells ==
  {Bar(s, d, c) : s \in {6}, d \in 1 .. 3, c \in {10, 13}}
    \cup {Bar(0, d, 14) : d \in 1 .. 2} \cup {Bar(6, 1, 14), Bar(6, 3, 6)}
    \cup {[Bar(6, 1, 10) EXCEPT !.exchange = "SZ"], [Bar(6, 2, 10) EXCEPT !.exchange = "SH"],
          [Bar(6, 2, 10) EXCEPT !.day = Unreadable], [Bar(6, 2, 10) EXCEPT !.volume = 0],
          [Bar(6, 2, 10) EXCEPT !.amount = -1], [Bar(6, 2, 10) EXCEPT !.close = 0],
          [Bar(6, 2, 10) EXCEPT !.high = 9], [Bar(6, 2, 10) EXCEPT !.open = 11],
          Bar(8, 1, 10)}

\* The rows of a content under a mapping.  The mappings take different columns
\* for the volume and the day, and the edit exchanges the contents of columns.
MCRows(p) ==
  LET bar(i) == Bar(6, i, 10) IN
  CASE p \in {<<source, m1>>, <<edited, m2>>} -> [i \in 1 .. 2 |-> bar(i)]
    [] p = <<source, m2>> -> [i \in 1 .. 2 |-> [bar(i) EXCEPT !.volume = 0]]
    [] OTHER -> [i \in 1 .. 2 |-> bar(3 - i)]

MCClean == {<<source, m1>>, <<edited, m2>>}
MCWarned == {<<source, m2>>}

\* The rules judge these rows so.
Gated(confirm) == {p \in {source, edited} \X {m1, m2, m3} :
                     Gate(Processed(MCRows(p)), confirm) = "ELIGIBLE"}
ASSUME JudgedByRules == Gated(FALSE) = MCClean /\ Gated(TRUE) = MCClean \cup MCWarned

NothingUploaded == \A b \in Batches : file[b] = Absent /\ batch[b] = NoBatch

\* Whatever file is uploaded first, the row-by-row rules admit it exactly when
\* it is a series of bars, and ask for a confirmation exactly when it is a
\* remarkable one.  (A preview does not depend on the uploads before it, so
\* that TLC need look at every file once only.)
GateIsExact == NothingUploaded => \A rows \in FilesUpTo(MaxRows) : IsExactOn(rows)

Symmetric == Permutations({c1, c2})
=============================================================================
