---------------------------- MODULE QualityRules ----------------------------
(***************************************************************************)
(* The path of a market data file from its rows to its publication:        *)
(* normalization.py reads a row, validation.py checks the rows one after   *)
(* the other against what it remembers of the rows before, processing.py   *)
(* counts them, and eligibility.py decides whether the batch may be        *)
(* published.                                                              *)
(*                                                                         *)
(* The rules are operators: a file is a sequence of rows, and what is      *)
(* remembered of the rows before is an argument.  A symbol stands for all  *)
(* symbols with its first digit.  ImportBatchMC reads the files of its     *)
(* uploads with them.                                                      *)
(*                                                                         *)
(* A definition named after the one that follows it (RepeatedNever before  *)
(* Repeated) is a faulty variant: the run must fail when it takes the      *)
(* other's place.                                                          *)
(***************************************************************************)
EXTENDS Integers, Sequences, FiniteSets

CONSTANTS Cells,       \* the rows a file may contain
          Unreadable,  \* what does not parse: a field, or a symbol that is not six digits
          Unknown,     \* no row of the instrument so far
          MaxRows      \* bound on the length of a file

ASSUME UnreadableAssumption == Unreadable \notin Int
ASSUME UnknownAssumption == Unknown \notin Int
ASSUME MaxRowsAssumption == MaxRows \in Nat

Symbols == 0 .. 9
Maybe(S) == S \cup {Unreadable}
Cell == [symbol : Maybe(Symbols), exchange : STRING, day : Maybe(Int),
         open : Maybe(Int), high : Maybe(Int), low : Maybe(Int),
         close : Maybe(Int), volume : Maybe(Int), amount : Maybe(Int)]

ASSUME CellsAssumption == Cells \subseteq Cell

\* What validate_bars remembers: the instruments and days met, and the day
\* and the close of the latest row of each symbol; and what it has said of
\* each row.  An error that nothing handles ends it.
Nothing == [seen |-> {}, priorDate |-> [s \in Symbols |-> Unknown],
            priorClose |-> [s \in Symbols |-> Unknown], verdicts |-> <<>>, halted |-> FALSE]

-----------------------------------------------------------------------------
(* Reading a row. *)

Inferred(symbol) == IF symbol \in {5, 6, 9} THEN {"XSHG"}
                    ELSE IF symbol \in {0, 1, 2, 3} THEN {"XSHE"} ELSE {}
Named(exchange) == IF exchange \in {"XSHG", "SSE", "SH"} THEN {"XSHG"}
                   ELSE IF exchange \in {"XSHE", "SZSE", "SZ"} THEN {"XSHE"} ELSE {}

\* A symbol has one exchange, and the file may leave it out but not contradict it.
HasInstrument(cell) == /\ Inferred(cell.symbol) # {}
                       /\ \/ cell.exchange = ""
                          \/ Named(cell.exchange) = Inferred(cell.symbol)

Readable(cell) == /\ HasInstrument(cell)
                  /\ Unreadable \notin {cell.day, cell.open, cell.high, cell.low,
                                        cell.close, cell.volume, cell.amount}

-----------------------------------------------------------------------------
(* The rules. *)

When(condition, code) == IF condition THEN {code} ELSE {}
Outside(price, cell) == price < cell.low \/ cell.high < price

ShapeErrors(cell) ==
  UNION {When(\E p \in {cell.open, cell.high, cell.low, cell.close} : p <= 0,
              "NON_POSITIVE_PRICE"),
         When(cell.volume < 0, "NEGATIVE_VOLUME"),
         When(cell.amount < 0, "NEGATIVE_AMOUNT"),
         When(cell.high < cell.low, "HIGH_BELOW_LOW"),
         When(Outside(cell.open, cell), "OPEN_OUT_OF_RANGE"),
         When(Outside(cell.close, cell), "CLOSE_OUT_OF_RANGE")}

RepeatedNever(cell, past) == FALSE
Repeated(cell, past) == <<cell.symbol, cell.day>> \in past.seen
Backwards(cell, past) == /\ past.priorDate[cell.symbol] # Unknown
                         /\ cell.day < past.priorDate[cell.symbol]
Errors(cell, past) == ShapeErrors(cell) \cup When(Repeated(cell, past), "DUPLICATE_BAR")
                                        \cup When(Backwards(cell, past), "OUT_OF_ORDER")

Gap(a, b) == IF a < b THEN b - a ELSE a - b
\* abs(close / prior_close - 1) > 0.30, for a prior close that is not zero.
Jumps(close, prior) == 10 * Gap(close, prior) > 3 * Gap(prior, 0)
Leaps(cell, past) == /\ past.priorClose[cell.symbol] # Unknown
                     /\ Jumps(cell.close, past.priorClose[cell.symbol])
Warnings(cell, past) == When(cell.volume = 0, "ZERO_VOLUME")
                          \cup When(cell.amount = 0, "ZERO_AMOUNT")
                          \cup When(Leaps(cell, past), "EXTREME_PRICE_JUMP")

Verdict(cell, past) ==
  [status |-> IF Errors(cell, past) # {} THEN "REJECTED"
              ELSE IF Warnings(cell, past) # {} THEN "WARNING" ELSE "ACCEPTED",
   errors |-> Errors(cell, past), warnings |-> Warnings(cell, past)]

Misread == [status |-> "REJECTED", errors |-> {"TYPE_PARSE_ERROR"}, warnings |-> {}]

-----------------------------------------------------------------------------
(* The loop over the rows, and the counts. *)

Says(past, verdict) == [past EXCEPT !.verdicts = Append(@, verdict)]

\* What is remembered of a row does not depend on its verdict.
Remember(cell, past) ==
  [past EXCEPT !.seen = @ \cup {<<cell.symbol, cell.day>>},
               !.priorDate = [@ EXCEPT ![cell.symbol] = cell.day],
               !.priorClose = [@ EXCEPT ![cell.symbol] = cell.close]]

\* The division by a prior close of zero raises an error that no caller handles.
After(past, cell) ==
  IF past.halted THEN past
  ELSE IF ~ Readable(cell) THEN Says(past, Misread)
  ELSE IF past.priorClose[cell.symbol] = 0 THEN [past EXCEPT !.halted = TRUE]
  ELSE Remember(cell, Says(past, Verdict(cell, past)))

Processed(file) ==
  LET after[n \in 0 .. Len(file)] ==
        IF n = 0 THEN Nothing ELSE After(after[n - 1], file[n])
  IN after[Len(file)]

-----------------------------------------------------------------------------
(* The gate of the publication, which reads the counts and the severities. *)

Counted(past, S) == Cardinality({i \in DOMAIN past.verdicts : past.verdicts[i].status \in S})
Severities(past) ==
  When(past.verdicts = <<>>, "FATAL")
    \cup When(\E i \in DOMAIN past.verdicts : past.verdicts[i].errors # {}, "ERROR")
    \cup When(\E i \in DOMAIN past.verdicts : past.verdicts[i].warnings # {}, "WARNING")

Gate(past, confirm) ==
  IF past.halted THEN "PREVIEW_REQUIRED"
  ELSE IF \/ Counted(past, {"ACCEPTED", "WARNING"}) = 0 \/ Counted(past, {"REJECTED"}) > 0
          \/ Severities(past) \cap {"ERROR", "FATAL"} # {}
    THEN "QUALITY_BLOCKED"
  ELSE IF /\ Counted(past, {"WARNING"}) > 0 \/ "WARNING" \in Severities(past)
          /\ ~ confirm
    THEN "WARNING_CONFIRMATION_REQUIRED"
  ELSE "ELIGIBLE"

-----------------------------------------------------------------------------
(* Properties. *)

WellShaped(cell) == /\ Readable(cell)
                    /\ 0 < cell.low
                    /\ cell.low <= cell.open /\ cell.open <= cell.high
                    /\ cell.low <= cell.close /\ cell.close <= cell.high
                    /\ 0 <= cell.volume /\ 0 <= cell.amount

\* What a reader may rely on: every row is a bar, and the bars of each
\* instrument are in the order of their days, one a day.
IsSeries(file) ==
  /\ \A i \in DOMAIN file : WellShaped(file[i])
  /\ \A i, j \in DOMAIN file :
       i < j /\ file[i].symbol = file[j].symbol => file[i].day < file[j].day

\* Every bar was traded, and no close is more than 30% away from the one before.
IsUnremarkable(file) ==
  /\ \A i \in DOMAIN file : file[i].volume # 0 /\ file[i].amount # 0
  /\ \A i, j \in DOMAIN file :
       /\ i < j /\ file[i].symbol = file[j].symbol
       /\ \A k \in DOMAIN file : i < k /\ k < j => file[k].symbol # file[i].symbol
       => ~ Jumps(file[j].close, file[i].close)

FilesUpTo(n) == UNION {[1 .. k -> Cells] : k \in 0 .. n}

\* A file is admitted to publication exactly when it is a non-empty series:
\* the checks of validate_bars look at the row before only and remember
\* rejected rows too, yet let nothing else through and keep nothing else out,
\* and the division by zero never costs a file that could be published.  It is
\* admitted without a confirmation exactly when it is also unremarkable.
IsExactOn(file) ==
  LET past == Processed(file) IN
  /\ Gate(past, TRUE) = "ELIGIBLE" <=> file # <<>> /\ IsSeries(file)
  /\ past.halted => ~ IsSeries(file)
  /\ Gate(past, TRUE) = "ELIGIBLE" =>
       (Gate(past, FALSE) = "ELIGIBLE" <=> IsUnremarkable(file))
=============================================================================
