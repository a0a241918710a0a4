SPECIFICATION Spec
CONSTANTS
  Entries <- MCEntries
  KeyOf <- MCKeyOf
  KindOf <- MCKindOf
  Lists <- MCLists
  Texts <- MCTexts
  Terms <- MCTerms
  None = None
  Blank = Blank
  ListRows = 2
  MaxStray = 3
  ListNeeds = 2
  TextNeeds = 1
  Chars = {"a", "b"}
  Space = " "
  BoxWidth = 3
  MaxLen = 4
  MaxDepth = 1
INVARIANT ScreenTrue
PROPERTY Served
