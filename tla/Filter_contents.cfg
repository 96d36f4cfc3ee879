SPECIFICATION Spec
CONSTANTS
  w1 = w1
  w2 = w2
  g = g
  b = b
  p = p
  s = s
  NoUrl = NoUrl
  Workers = {w1, w2}
  Urls = {g, b, p, s}
  NumCategories = 2
  GoodUrls <- MCGood
  BadUrls <- MCBad
  PostbadUrls <- MCPostbad
  BadPhrases <- MCPhrases
  Starred = {s}
  Settings <- MCSettings
  MaxMatches = 1
  MaxPieces = 2
  MaxToggles = 2
SYMMETRY WorkerSymmetry
INVARIANTS
  GoodNotBlockedForContents
