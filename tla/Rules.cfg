SPECIFICATION Spec
CONSTANTS
  LastYear = 2101
  Zones <- SomeZones
  Letters = {"a", "b"}
  MaxGlob = 5
  Word = 65536
  Numbers = {0, 1, 30, 90}
  MaxSpan = 5
INVARIANT DaysCounted ZonesAgree PatternsMean WalkAgrees SpansMean
CHECK_DEADLOCK FALSE
