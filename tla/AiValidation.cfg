SPECIFICATION Spec
CONSTANTS
  name007 = name007
  name008 = name008
  text8 = text8
  phrase = phrase
  infinity = infinity
  nan = nan
  early = early
  late = late
  latez = latez
  someday = someday
  Pack <- MCPack
  Words = {name007, name008, text8, phrase, infinity, nan, early, late, latez, someday}
  Recast <- MCRecast
  Plain = {text8}
  NotFinite <- MCNotFinite
  Instant <- MCInstant
  Flat <- MCFlat
  Part = 10
  Answers <- MCAnswers
INVARIANTS
  AcceptedIsSupported
  UnsafeIsFinal
  RetryKeepsWord
CHECK_DEADLOCK FALSE
