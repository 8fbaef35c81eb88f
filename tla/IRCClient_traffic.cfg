SPECIFICATION Spec
CONSTANTS
  N <- Three
  LineEnd <- WideLines
  Inside <- WideCharacters
  RecvMax = 3
  Streams <- Traffic
  Wanted = {"PRIVMSG"}
INVARIANTS TypeOK OnceInOrder PingsAnswered
PROPERTIES NoneMeansDrained EarlyNoneMeansLoss WaitFindsFirst ImplementsChannel
CHECK_DEADLOCK FALSE
