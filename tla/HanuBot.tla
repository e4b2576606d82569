------------------------------- MODULE HanuBot -------------------------------
(***************************************************************************)
(* hanu: a bot for Slack.  Listen decodes every event into its variable    *)
(* msg and starts a goroutine, process, for it; that starts one more for   *)
(* each command that matches, and these reply.  A field that an event does *)
(* not have keeps the value it has in msg.  A text is whether it begins by *)
(* mentioning the bot, in the form that is stripped or in another, and the *)
(* tokens that follow: words, links and tags.  Slack, the patterns of the  *)
(* commands and their handlers are external.                               *)
(***************************************************************************)
EXTENDS Naturals, FiniteSets, Sequences, SequencesExt

CONSTANTS Bot, None,
          Events,    \* what Slack sends, see Event
          Commands,
          Pattern,   \* the texts a command matches
          Answer,    \* what its handler replies, once
          MaxEvents  \* bound: events

Word(w) == [is |-> "word", word |-> w]
Link(url, label) == [is |-> "link", word |-> url, label |-> label]
Tag(t) == [is |-> "tag", word |-> t]
help == Word("help")

\* A field an event does not have is None; bad if one has another type.
Fields == {"type", "user", "channel", "text"}
Event(type, user, channel, text, bad) ==
  [type |-> type, user |-> user, channel |-> channel, text |-> text, bad |-> bad]
Empty == [f \in Fields |-> None]

\* Commands are told apart from the other task of a goroutine.
ASSUME BotAssumption ==
  /\ MaxEvents \in Nat
  /\ "process" \notin Commands
  /\ \A e \in Events : /\ Fields \subseteq DOMAIN e /\ e.bad \in BOOLEAN
                       /\ e.text = None \/ e.text.body \in Seq(ToSet(e.text.body))

VARIABLES
  bot,     \* "new", "failed", "ready", or "listening"
  registered, \* its commands
  socket,  \* whether the connection is up
  events,  \* the events Slack has sent; their places identify them
  next,    \* the first one Listen has not received
  msg,     \* its variable
  tasks,   \* goroutines of process and of handlers that have not run yet
  replies  \* what was sent to Slack

botVars == <<bot, registered, socket, events, next, msg, tasks, replies>>

BotInit == /\ bot = "new" /\ registered = {} /\ socket = FALSE
           /\ events = <<>> /\ next = 1
           /\ msg = Empty
           /\ tasks = {} /\ replies = <<>>
-----------------------------------------------------------------------------
\* The request, its status, the decoding and the connection all succeed.
Handshake == /\ bot = "new"
             /\ bot' = "ready" /\ socket' = TRUE
             /\ UNCHANGED <<registered, events, next, msg, tasks, replies>>

HandshakeFails == /\ bot = "new"
                  /\ bot' = "failed"
                  /\ UNCHANGED <<registered, socket, events, next, msg, tasks, replies>>

Register(c) == /\ bot = "ready"
               /\ registered' = registered \union {c}
               /\ UNCHANGED <<bot, socket, events, next, msg, tasks, replies>>

Listen == /\ bot = "ready"
          /\ bot' = "listening"
          /\ UNCHANGED <<registered, socket, events, next, msg, tasks, replies>>

SlackSends == /\ socket /\ Len(events) < MaxEvents
              /\ events' \in {Append(events, e) : e \in Events}
              /\ UNCHANGED <<bot, registered, socket, next, msg, tasks, replies>>

\* Slack shows the bot a message it has sent itself.
SlackEchoes == /\ socket /\ Len(events) < MaxEvents
               /\ \E k \in DOMAIN replies :
                    events' = Append(events,
                      Event("message", Bot, replies[k].channel, replies[k].text, FALSE))
               /\ UNCHANGED <<bot, registered, socket, next, msg, tasks, replies>>

Disconnects == /\ socket
               /\ socket' = FALSE
               /\ UNCHANGED <<bot, registered, events, next, msg, tasks, replies>>
-----------------------------------------------------------------------------
Decoded(e) == [f \in Fields |-> IF e[f] = None THEN msg[f] ELSE e[f]]

\* msg after an event was processed.  Fault: it is not cleaned up.
NotCleaned(m) == m
Cleaned(m) == Empty

\* A bad event is not processed, and leaves what was decoded of it in msg.
Receive == /\ bot = "listening" /\ socket /\ next <= Len(events)
           /\ next' = next + 1
           /\ LET e == events[next]
                  m == Decoded(e)
              IN  IF e.bad THEN msg' = m /\ UNCHANGED tasks
                  ELSE /\ tasks' = tasks \union {[is |-> "process", of |-> next, msg |-> m]}
                       /\ msg' = Cleaned(m)
           /\ UNCHANGED <<bot, registered, socket, events, replies>>
-----------------------------------------------------------------------------
\* message.go.  An empty text is None.
Body(t) == IF t = None THEN <<>> ELSE t.body
Mention(t) == IF t = None THEN "none" ELSE t.mention

IsFrom(m, user) == m.user = user
IsDirectMessage(m) == m.channel = "D"
IsRelevantFor(m) == /\ m.type = "message" /\ ~IsFrom(m, Bot)
                    /\ IsDirectMessage(m) \/ Mention(m.text) # "none"

StripMention(t) == IF Mention(t) = "stripped" THEN "none" ELSE Mention(t)

\* A link becomes its label, or its address if it has none; tags stay.
Plain(k) == IF k.is # "link" THEN k
            ELSE Word(IF k.label = None THEN k.word ELSE k.label)
StripLinkMarkup(body) == [k \in DOMAIN body |-> Plain(body[k])]

Stripped(t) == [mention |-> StripMention(t), body |-> StripLinkMarkup(Body(t))]

IsHelpRequest(t) == t.body # <<>> /\ \/ Last(t.body) = help
                                     \/ t.mention = "none" /\ Head(t.body) = help

\* Match of the pattern with the whole of the text.
Matches(c, t) == t.mention = "none" /\ t.body \in Pattern[c]

\* In public, a reply begins with a mention of the sender.
To(m) == IF IsDirectMessage(m) THEN None ELSE m.user
Prefix(m) == IF IsDirectMessage(m) THEN <<>> ELSE <<Tag(m.user)>>
Reply(task, body) ==
  [of |-> task.of, is |-> task.is, channel |-> task.msg.channel, to |-> To(task.msg),
   text |-> [mention |-> "none", body |-> Prefix(task.msg) \o body]]
Replied(r) == IF socket THEN Append(replies, r) ELSE replies

sendHelp(task) ==
  /\ replies' = Replied(Reply([task EXCEPT !.is = "help"], <<Word("Thanks")>>))
  /\ tasks' = tasks \ {task}

\* Every command that matches is handled, each by a goroutine.  Fault: only those
\* whose pattern has the text with its links.
RawText(t) == [mention |-> StripMention(t), body |-> Body(t)]
Text(t) == Stripped(t)

searchCommand(task) ==
  /\ tasks' = (tasks \ {task}) \union
       {[task EXCEPT !.is = c] : c \in {c \in registered : Matches(c, Text(task.msg.text))}}
  /\ UNCHANGED replies

process(task) ==
  /\ task.is = "process"
  /\ IF ~IsRelevantFor(task.msg) THEN tasks' = tasks \ {task} /\ UNCHANGED replies
     ELSE IF IsHelpRequest(Text(task.msg.text)) THEN sendHelp(task)
     ELSE searchCommand(task)
  /\ UNCHANGED <<bot, registered, socket, events, next, msg>>

Handle(task) == /\ task.is \in Commands
                /\ replies' = Replied(Reply(task, Answer[task.is]))
                /\ tasks' = tasks \ {task}
                /\ UNCHANGED <<bot, registered, socket, events, next, msg>>
-----------------------------------------------------------------------------
Run == \E task \in tasks : process(task) \/ Handle(task)

BotNext == \/ Handshake \/ HandshakeFails \/ Listen \/ \E c \in Commands : Register(c)
           \/ SlackSends \/ SlackEchoes \/ Disconnects
           \/ Receive \/ Run

BotSpec == BotInit /\ [][BotNext]_botVars

\* Listen and the goroutines run; there are never infinitely many of them.
BotFairness == WF_botVars(Receive) /\ WF_botVars(Run)

BotFairSpec == BotSpec /\ BotFairness
-----------------------------------------------------------------------------
\* What an event by itself asks for: "help", or the commands that match.
Asks(e) ==
  LET t == Stripped(e.text)
      begins == t.mention = "none" /\ IsPrefix(<<help>>, t.body)
      ends == IsSuffix(<<help>>, t.body) IN
  IF e.bad \/ e.type # "message" \/ e.user = Bot \/ (e.channel # "D" /\ Mention(e.text) = "none")
    THEN {}
  ELSE IF begins \/ ends THEN {"help"}
  ELSE {c \in registered : t.mention = "none" /\ t.body \in Pattern[c]}

\* Only right after an event that could not be decoded a field of that may be used.
Untouched(k) == k = 1 \/ ~events[k - 1].bad

\* A reply goes to the channel and, in public, to the sender of an event that by
\* itself asks for it, which is never a message of the bot.
Justified(r) ==
  /\ r.of \in DOMAIN events
  /\ Untouched(r.of) =>
       LET e == events[r.of] IN
         /\ r.is \in Asks(e)
         /\ r.channel = e.channel
         /\ r.to = IF e.channel = "D" THEN None ELSE e.user

\* Every reply is justified, and given once.
RepliesJustified ==
  /\ \A j \in DOMAIN replies : Justified(replies[j])
  /\ \A i, j \in DOMAIN replies :
       replies[i].of = replies[j].of /\ replies[i].is = replies[j].is => i = j

\* Everything a message asks for is answered, also while others are, unless the
\* connection is lost.
AllAnswered ==
  \A k \in 1..MaxEvents :
    (bot = "listening" /\ socket /\ k \in DOMAIN events) ~>
      \/ ~socket
      \/ /\ k \in DOMAIN events
         /\ Asks(events[k]) \subseteq {replies[j].is : j \in {j \in DOMAIN replies : replies[j].of = k}}
=============================================================================
