----------------------------- MODULE TestWaits ------------------------------
(***************************************************************************)
(* How the integration tests keep the answers to one command apart from     *)
(* those to the next, read off the script alone: what a conforming server   *)
(* may write about a command, and which steps of a script leave none of it  *)
(* behind. That a separated test is never given an older answer, whatever   *)
(* the order in which the server serves the clients, is proved in           *)
(* TestRun_proofs.                                                          *)
(***************************************************************************)
EXTENDS TestRun

-----------------------------------------------------------------------------
(* What a conforming server may write about a command *)

\* The verb it obeys: JOIN 0 is a PART of every channel.
Obeyed(cmd) == IF cmd.verb = "JOIN" /\ cmd.chans = <<"0">> THEN "PART" ELSE cmd.verb

\* What members of a channel are told.
Broadcasts == {"JOIN", "PART", "TOPIC", "KICK", "MODE", "QUIT"}

\* To the sender and to others, the command itself; to a PING, a PONG.
Announced(verb) ==
  IF verb = "PING" THEN {"PONG"}
  ELSE {verb} \cap (Broadcasts \cup {"INVITE", "PRIVMSG", "NOTICE"})

\* To the sender only.
Codes(verb) ==
  CASE verb = "PASS"   -> {"001", "002", "464"}
    [] verb = "NICK"   -> {"001", "002", "433"}
    [] verb = "USER"   -> {"001", "002"}
    [] verb = "WHO"    -> {"352", "315"}
    [] verb = "LIST"   -> {"321", "322", "323"}
    [] verb = "WHOIS"  -> {"311", "317", "318", "319", "401"}
    [] verb = "JOIN"   -> {"331", "332", "353", "366", "471", "473", "475"}
    [] verb = "PART"   -> {"442"}
    [] verb = "NAMES"  -> {"353", "366"}
    [] verb = "TOPIC"  -> {"331", "332", "403", "442", "461", "482"}
    [] verb = "KICK"   -> {"401", "403", "441", "461", "482"}
    [] verb = "INVITE" -> {"401", "403", "442", "443", "461", "482"}
    [] verb = "MODE"   -> {"401", "441", "461", "472", "482"}
    [] verb \in {"PRIVMSG", "NOTICE"} -> {"401", "403", "404"}
    [] OTHER           -> {}

Tellable(verb, own) == Announced(verb) \cup (IF own THEN Codes(verb) ELSE {})

\* One message at most, whoever it goes to.
Single(cmd) ==
  \/ cmd.verb \in {"TOPIC", "INVITE", "MODE", "PRIVMSG", "NOTICE"}
  \/ cmd.verb = "PART" /\ Len(cmd.chans) = 1
  \/ cmd.verb = "KICK" /\ Len(cmd.nicks) <= 1

\* Nothing follows this reply.
Ends(cmd, reply) ==
  \/ Single(cmd)
  \/ /\ cmd.verb \in {"JOIN", "NAMES"} /\ Len(cmd.chans) = 1 /\ cmd.chans # <<"0">>
     /\ reply \in {"366", "471", "473", "475"}
  \/ cmd.verb = "WHO" /\ reply = "315"
  \/ cmd.verb = "LIST" /\ reply = "323"
  \/ cmd.verb = "WHOIS" /\ reply \in {"318", "401"}

\* It joins or parts from channels there are.
Placed(cmd) ==
  Obeyed(cmd) \in {"JOIN", "PART"} /\ Obeyed(cmd) = cmd.verb =>
    \A i \in DOMAIN cmd.chans : cmd.chans[i] \in Channels

-----------------------------------------------------------------------------
(* What the steps of a script w leave behind *)

Sendings(w) == {k \in DOMAIN w : w[k].do \in {"send", "sendOn"}}

\* Command k is the last one sent before step i, and not one of a burst.
Latest(w, k, i) ==
  /\ k \in Sendings(w) /\ k < i /\ w[k].do = "send"
  /\ \A l \in Sendings(w) : ~(k < l /\ l < i)

\* What the server may send unasked.
Unasked == {"PING", "QUIT"}

\* Before step i, the client did nothing to come into a channel.
Outside(w, c, i) == \A l \in Sendings(w) : l < i /\ w[l].who = c => w[l].cmd.verb # "JOIN"

\* After step j no such reply to command k is left for the client, or to come: its last
\* answer came, or its only answer and that was another, or it was taken while the client
\* was in no channel, or all came and was thrown away.
Clears(w, hurried, j, k, c, reply) ==
  \/ /\ Latest(w, k, j) /\ w[j].do \in {"wait", "expect", "keep", "collect"}
     /\ w[j].reply \notin Unasked
     /\ \/ w[j].who = c /\ Ends(w[k].cmd, w[j].reply)
        \/ w[j].do # "wait" /\ Single(w[k].cmd) /\ w[j].reply # reply
        \/ c # w[k].who /\ Obeyed(w[k].cmd) \in Broadcasts /\ Outside(w, c, j)
  \/ w[j].do = "drain" /\ w[j].who = c /\ k < j /\ ~hurried

\* The messages that end a wait: for get_message, all.
Ending(step, reply) == step.do = "take" \/ reply = step.reply

Separated(w, hurried, i) ==
  \A k \in Sendings(w) :
    (\E l \in DOMAIN w : k < l /\ l < i /\ w[l].do = "send") =>
      \A reply \in Tellable(Obeyed(w[k].cmd), w[k].who = w[i].who) :
        Ending(w[i], reply) =>
          \E j \in DOMAIN w : j < i /\ Clears(w, hurried, j, k, w[i].who, reply)

SeparatedTest(t) ==
  LET w == Suite[t].script IN
  /\ \A i \in DOMAIN w :
       w[i].do \in Waits \cup {"take", "collect"} => Separated(w, t \in Slow, i)
  \* A burst has a first command, and a JOIN or PART the channels it names.
  /\ \A k \in Sendings(w) : Placed(w[k].cmd)
  /\ \A i \in DOMAIN w : w[i].do = "sendOn" => \E k \in DOMAIN w : k < i /\ w[k].do = "send"

\* test_15_invite.py:90 is not: TestRun_rejoin shows what follows.
SeparatedSuite == \A t \in Tests \ {"invite_errors"} : SeparatedTest(t)
=============================================================================
