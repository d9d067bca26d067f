\* Five texts; three edits, of which one may be by hand.
SPECIFICATION SuppressionSpec
CONSTANTS
  Documents <- MCDocuments
  EndOf <- MCEndOf
  Wide = "w"
  Typed = {"newline", "w"}
  Overwritten = 2
  MaxTyped = 1
  MaxChanges = 3
INVARIANTS
  TextAgrees
  PositionsRoundTrip
  StaysSilent
PROPERTIES
  OthersStayAsTheyAre
CHECK_DEADLOCK FALSE
