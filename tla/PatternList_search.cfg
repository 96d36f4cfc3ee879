SPECIFICATION Spec
CONSTANTS
  Letters = {"a", "b"}
  Chars <- MCChars
  Lines <- MCLines
  Texts <- MCTexts
  MaxWords = 3
  MaxAdds = 3
  MaxLoads = 2
INVARIANTS
  TypeOK
  Holds
  ReportsLongest
  CensorHides
  CensorsMatchesOnly
CHECK_DEADLOCK FALSE
