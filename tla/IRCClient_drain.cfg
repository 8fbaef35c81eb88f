SPECIFICATION Spec
CONSTANTS
  N <- Two
  LineEnd <- TwoAsciiLines
  Inside <- NoWideCharacters
  RecvMax = 3
  Streams <- TwoLines
  Wanted = {}
PROPERTIES NoneMeansBufferEmpty
CHECK_DEADLOCK FALSE
