SPECIFICATION Spec
CONSTANTS
  Null = Null
  Numeral <- MCNumeral
  Tokens <- MCTokens
  Names <- MCNames
  Shows <- MCShows
  Values = {1, 2}
  PartIds <- MCIds
  Opened <- MCOpened
  Skeletons <- MCSkeletons
  Wirings <- MCWirings
  Lists <- MCLists
  NodesByHand <- MCNodesByHand
  Cad <- MCCad
  Broken = {"lost"}
  MaxEdits = 3
INVARIANTS SessionIsItsFiles ManifestsSound FlatReproduces ReportsAgree
CHECK_DEADLOCK FALSE
