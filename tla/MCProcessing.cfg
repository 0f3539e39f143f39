CONSTANTS
  Root = 0
  Nodes = {0, 1, 2, 3, 4, 5, 6, 7, 8}
  Tags = {"__root", "__doc", "call"}
  Strings <- AllTexts
  Documents <- Files
  MaxLen = 5
  MaxPlain = 7
SPECIFICATION Spec
INVARIANTS
  TypeOK
  TextInOrder
  BlankLinesSeparate
  ParagraphsWellFormed
  LinesStayApart
\* A file that is processed, or that failed, is done.
CHECK_DEADLOCK FALSE
