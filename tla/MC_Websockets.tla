--------------------------- MODULE MC_Websockets ---------------------------
\* Small instances for TLC of the two programs that answer what comes through a
\* websocket: HanuBot, with two commands, one of which takes an address; and EchoProxy,
\* with two clients that share the echo server, or one that sends so much that
\* everything on the way is full.  They have nothing in common, and only one of them
\* runs; where the other stays, none of its goroutines can make a step.
EXTENDS HanuBot, EchoProxy

CONSTANTS u1, u2, open, list, s1

Spoken(mention, tokens) == [mention |-> mention, body |-> tokens]
site == Link("http://site", "site")

MCPattern == [c \in {open, list} |->
                IF c = open THEN {<<Word("open"), Word("site")>>}
                ELSE {<<Word("list")>>, <<Word("open"), Word("site")>>}]

\* The answer to open ends like a request for help.
MCAnswer == [c \in {open, list} |-> IF c = open THEN <<Word("no"), help>> ELSE <<Word("list")>>]

\* Messages in public and in a direct channel, one of another bot, which has no user,
\* an event whose channel is an object and the acknowledgement of a message sent.
MCEvents ==
  {Event("message", u1, "C", Spoken("stripped", <<Word("open"), site>>), FALSE),
   Event("message", u1, "C", Spoken("none", <<Word("list")>>), FALSE),
   Event("message", u2, "C", Spoken("kept", <<Word("list"), help>>), FALSE),
   Event("message", u2, "D", Spoken("none", <<Word("list")>>), FALSE),
   Event("message", u2, "D", Spoken("kept", <<Tag("@U")>>), FALSE),
   Event("message", None, "C", Spoken("stripped", <<help>>), FALSE),
   Event("im_created", u2, None, None, TRUE),
   Event(None, None, None, Spoken("none", <<help>>), FALSE)}

\* More than MaxShared messages are sent by s1 only, and when there is no other client.
MaxShared == 2
Few == \/ SumFunction(sent') <= MaxShared
       \/ \A s \in Sessions \ {s1} : client'[s] = "new"

MCInit == BotInit /\ ProxyInit

MCNext == \/ /\ peerUp /\ \A s \in Sessions : client[s] = "new"
             /\ BotNext /\ UNCHANGED proxyVars
          \/ /\ bot = "new"
             /\ ProxyNext /\ Few /\ UNCHANGED botVars

MCFairSpec == /\ MCInit /\ [][MCNext]_<<botVars, proxyVars>>
              /\ BotFairness /\ ProxyFairness
=============================================================================
