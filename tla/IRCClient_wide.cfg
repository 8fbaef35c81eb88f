SPECIFICATION Spec
CONSTANTS
  N <- Two
  LineEnd <- TwoWideLines
  Inside <- WideCharacters
  RecvMax = 3
  Streams <- TwoLines
  Wanted = {}
PROPERTIES GivesUpOnlyIfClosed
CHECK_DEADLOCK FALSE
