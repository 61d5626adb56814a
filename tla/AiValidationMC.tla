---------------------------- MODULE AiValidationMC ----------------------------
(* A pack of two amounts, a count of none, a ratio, a time, a name that reads as a   *)
(* number and a note, and answers of both stages with every kind of finding.         *)
EXTENDS AiValidation
CONSTANTS name007, name008, text8, phrase, infinity, nan, early, late, latez, someday

Evidence(value, semantic, unit, note) ==
  [value |-> value, semantic |-> semantic, unit |-> unit, subject |-> "run", note |-> note]
MCPack == [cost  |-> Evidence(10, "MONEY", "CNY", FALSE),
           gain  |-> Evidence(8, "MONEY", "CNY", FALSE),
           fills |-> Evidence(0, "COUNT", "", FALSE),
           share |-> Evidence(20, "RATIO", "RATIO", FALSE),
           from  |-> Evidence(late, "DATETIME", "", FALSE),
           title |-> Evidence(name007, "TEXT", "", FALSE),
           note  |-> Evidence(phrase, "TEXT", "", TRUE)]
MCRecast == name007 :> 7 @@ name008 :> 8 @@ text8 :> 8
MCNotFinite == infinity :> 1 @@ nan :> 0
MCInstant == early :> 1 @@ late :> 2 @@ latez :> 2
MCFlat == [t \in Numeric |-> IF t = "MONEY" THEN 1 ELSE 0]

Claim(type, predicate, value, unit, refs, operands) ==
  [id |-> "c", type |-> type, subject |-> "run", predicate |-> predicate, value |-> value,
   float |-> FALSE, unit |-> unit, refs |-> refs, operands |-> operands, veiled |-> {},
   form |-> "sound"]
Cost(predicate, value) == Claim("FACT", predicate, value, "CNY", <<"cost">>, <<>>)
Guess(value) == Claim("INFERENCE", "EQ", value, "", <<"fills">>, <<>>)
Mixed(value, refs) == Claim("INFERENCE", "EQ", value, "", refs, <<>>)
Share(predicate, value) == Claim("FACT", predicate, value, "RATIO", <<"share">>, <<>>)
About(value) == Mixed(value, <<"share">>)
From(predicate, value) == Claim("FACT", predicate, value, "", <<"from">>, <<>>)
Change(predicate, value, unit, operands) == Claim("FACT", predicate, value, unit, <<>>, operands)
Title(value) == Claim("FACT", "EQ", value, "", <<"title">>, <<>>)
NotTitle(value) == Claim("FACT", "NE", value, "", <<"title">>, <<>>)
As(c, form) == [c EXCEPT !.form = form]
Invented == As(Mixed(1, <<"nowhere">>), "lost")
Float(c) == [c EXCEPT !.float = TRUE]

Answer(claims) == [parses |-> TRUE, whole |-> TRUE, actions |-> {}, offtopic |-> FALSE,
                   misbound |-> FALSE, cited |-> {"cost"}, claims |-> claims,
                   veiled |-> {}]
Broken(claims) == [Answer(claims) EXCEPT !.whole = FALSE]

\* accepted in the diagnosis, unless another answer forbids it
Sound == {Answer(<<Cost("EQ", 11)>>), Answer(<<Guess(5)>>),
          Answer(<<Guess(5), [Guess(6) EXCEPT !.id = "d"]>>),
          Answer(<<Change("DELTA", 2, "CNY", <<"cost", "gain">>), [Title(name007) EXCEPT !.id = "d"]>>)}
\* the last one in a diagnosis only
Forbidden == {[Broken(<<>>) EXCEPT !.actions = {"PLACE_ORDER"}], [Broken(<<>>) EXCEPT !.offtopic = TRUE],
           Broken(<<Invented>>),
           [Answer(<<Guess(5)>>) EXCEPT !.actions = {"REVIEW_STRATEGY"}]}
Asked == {[Answer(<<>>) EXCEPT !.parses = FALSE],
          Broken(<<Mixed(5, <<"cost", "fills">>), [Invented EXCEPT !.veiled = {"refs"}]>>),
          Answer(<<About(20), As(Guess(5), "display"), As(Cost("EQ", 11), "display")>>)}
Diagnoses ==
  Sound \cup Forbidden \cup Asked \cup
  {Answer(<<Mixed(6, <<"cost", "fills">>), [NotTitle(name008) EXCEPT !.id = "d"]>>),
   Answer(<<About(infinity)>>),
   Broken(<<Cost("EQ", 9)>>), Answer(<<Float(Guess(5))>>), Broken(<<Float(Cost("EQ", 10))>>)}
Recommendations ==
  Sound \cup Forbidden \cup
  {Answer(<<Mixed(6, <<"fills", "cost">>)>>), Answer(<<Title(7)>>), Answer(<<NotTitle(8)>>),
   Answer(<<Claim("FACT", "GT", name007, "", <<"fills">>, <<>>)>>),
   Answer(<<Claim("FACT", "LT", name007, "", <<"fills">>, <<>>)>>),
   Answer(<<Cost("EQ", 12)>>), Answer(<<Cost("EQ", 10)>>), Answer(<<Cost("EQ", 9)>>),
   Answer(<<Cost("GT", 9)>>), Answer(<<Cost("LT", 10)>>),
   Answer(<<Guess(6)>>), Answer(<<Float(Cost("EQ", 10))>>), Broken(<<Guess(6)>>),
   Answer(<<Change("PERCENT_CHANGE", -20, "RATIO", <<"cost", "gain">>)>>),
   Answer(<<Change("PERCENT_CHANGE", 20, "RATIO", <<"cost", "gain">>)>>),
   Answer(<<Change("PERCENT_CHANGE", 0, "RATIO", <<"fills", "fills">>)>>),
   Answer(<<Change("DELTA", -2, "CNY", <<"gain", "cost">>)>>),
   Answer(<<Change("DELTA", 0, "", <<"title", "title">>)>>),
   Answer(<<Guess(6), Change("DELTA", 2, "CNY", <<"cost">>),
            Claim("INFERENCE", "EQ", 1, "", <<>>, <<>>), Claim("FACT", "EQ", 10, "CNY", <<>>, <<>>)>>),
   Answer(<<Claim("FACT", "EQ", 10, "USD", <<"cost">>, <<>>)>>),
   Answer(<<[Change("DELTA", 2, "CNY", <<"cost", "gain">>) EXCEPT !.refs = <<"note">>]>>),
   Answer(<<Claim("FACT", "EQ", phrase, "", <<"note">>, <<>>)>>),
   Answer(<<Claim("FACT", "GT", phrase, "", <<"title">>, <<>>)>>),
   Answer(<<Claim("HYPOTHESIS", "EQ", 1, "", <<>>, <<>>)>>),
   [Broken(<<>>) EXCEPT !.misbound = TRUE], [Broken(<<>>) EXCEPT !.cited = {"nowhere"}],
   [Broken(<<Invented>>) EXCEPT !.cited = {"nowhere"}, !.veiled = {"cited", "claims"}],
   Answer(<<NotTitle(text8)>>), Answer(<<About(22)>>), Answer(<<About(18)>>),
   Answer(<<About(infinity)>>), Answer(<<About(nan)>>)}
  \cup {Answer(<<Share("EQ", v)>>) : v \in {18, 22, infinity, nan}}
  \cup {Answer(<<Share("LT", v)>>) : v \in {22, infinity}}
  \cup {Answer(<<From("EQ", v)>>) : v \in {late, latez}}
  \cup {Answer(<<From("GT", v)>>) : v \in {early, late, 5}}
  \cup {Answer(<<From("GTE", v)>>) : v \in {early, late, latez, someday}}
  \cup {Answer(<<Change("DELTA", v, "CNY", <<"cost", "gain">>)>>) : v \in {3, infinity, nan}}
MCAnswers == <<Diagnoses, Recommendations>>
=============================================================================
