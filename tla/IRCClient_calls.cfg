SPECIFICATION Spec
CONSTANTS
  N <- Three
  LineEnd <- AsciiLines
  Inside <- NoWideCharacters
  RecvMax = 3
  Streams <- Greetings
  Wanted = {"PING"}
PROPERTIES RegisterSawGreeting CallReturns
CHECK_DEADLOCK FALSE
