SPECIFICATION SpecParts
CONSTANTS
  Alphabet <- MCAlphabet
  Ascii <- MCAscii
  Letters <- MCLetters
  Breaks = {"nl"}
  Lower <- MCLower
  Upper <- MCUpper
  Classes <- MCClasses
  Patterns <- MCPatterns
  Flags <- MCFlags
  Lines <- MCLines
  Traces <- MCTraces
  Shrink = 0
  MaxGroups = 3
  MaxRequired = 2
  StepLimit = 80
  Rank <- MCRank
  SmallLetter <- MCSmall
  WordChars = {"a", "A", "b", "u"}
  SevenBit = {"a", "A", "b", "-"}
  NoDiv = NoDiv
  Schemes <- MCSchemes
  Texts <- MCTexts
  Libraries <- MCLibraries
  Main = "main"
  NoScheme = "no scheme"
  SevenBits = {"a", "b"}
  Places = {"a", "b", "u"}
  MaxPlaces = 4
  None = None
  Unset = Unset
  Editors = {0, 1}
  Viewers = {v1}
  Quick = {}
  Files = {f1, f2}
  Paths = {p1, p2}
  DefaultPaths = p1
  t1 = t1
  t2 = t2
  Types <- MCTypes
  Params <- MCParams
  Favorite = "favorite"
  Values = {x}
  Modes = {"quick", "all"}
  MaxSet = 1
SYMMETRY Same
INVARIANTS LiveBase SettingsShown ViewerFresh
           MatchesAsSaid FastPathsSound KeywordsAsListed FoundAsNested
PROPERTY NoStrayEdits
CHECK_DEADLOCK FALSE
