---------------------------- MODULE MCIRCClient -----------------------------
(* Small streams for the model checker. *)
EXTENDS IRCClient

Three == 3
Two == 2

\* Two bytes a line: a chunk may end inside a line, or between CR and LF.
AsciiLines == [i \in 0..3 |-> 2 * i]
TwoAsciiLines == [i \in 0..2 |-> 2 * i]
NoWideCharacters == {}

\* Three bytes in the first line: offset 1 splits its two-byte character.
WideLines == [i \in 0..3 |-> IF i = 0 THEN 0 ELSE 2 * i + 1]
TwoWideLines == [i \in 0..2 |-> IF i = 0 THEN 0 ELSE 2 * i + 1]
WideCharacters == {1}

Traffic == [1..3 -> {"PING", "PRIVMSG", "BLANK", "BARE"}]
Greetings == [1..3 -> {"001", "002", "PING"}]
TwoLines == [1..2 -> {"PING", "PRIVMSG", "BARE"}]
=============================================================================
