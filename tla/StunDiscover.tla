---------------------------- MODULE StunDiscover ----------------------------
(***************************************************************************)
(* p2p/go-stun/stun: Discover finds the type of the NAT by the tests of    *)
(* RFC 3489, each a request that is sent up to Retransmits times and waits *)
(* for a response with its transaction id; Keepalive repeats the first.    *)
(* The network and the server are external: datagrams are lost,            *)
(* duplicated, reordered and arrive late, the NAT is one of NatKinds and   *)
(* the server one of ServerKinds.  A response stays in replies for good,   *)
(* and losing it is never to receive it.                                   *)
(***************************************************************************)
EXTENDS Naturals

CONSTANTS Retransmits,   \* numRetransmit
          MaxKeepalives  \* bound: calls of Keepalive

ASSUME StunAssumption == Retransmits \in Nat \ {0} /\ MaxKeepalives \in Nat

VARIABLES
  kind,      \* what is between client and server
  server,    \* what the server does
  test,      \* the test in progress
  reading,   \* the client waits for a response
  tries,     \* requests of this test sent so far
  asked,     \* tests of which a request was sent
  replies,   \* the responses on their way
  outcome,   \* what Discover returned
  host,      \* the external address it returned
  kept,      \* what the last Keepalive returned
  keepalives,
  missed     \* history: a test gave up that could have been answered

world == <<kind, server>>
client == <<test, reading, tries>>
result == <<outcome, host, kept, keepalives>>
vars == <<world, client, asked, replies, result, missed>>

NatKinds == {"blocked", "open", "firewall", "full", "restricted",
             "portrestricted", "symmetric"}

(***************************************************************************)
(* complete: answers as RFC 3489 wants; failing: may also answer with an   *)
(* error, which carries no address; fixed: ignores change requests; plain: *)
(* knows no changed address; single: announces one nobody answers at.      *)
(***************************************************************************)
ServerKinds == {"complete", "failing", "fixed", "plain", "single"}

Tests == {"I", "II", "I2", "III", "keep"}

Outcomes == NatKinds \union {"none", "unknown", "servererror", "ioerror", "panic"}

Addr(ip, port) == [ip |-> ip, port |-> port]
Main == Addr(1, 1)
Changed == Addr(2, 2)

\* Where the requests of a test go, and whether they ask for another IP or port.
Dest(t) == IF t \in {"I2", "III"} THEN Changed ELSE Main
Other(x) == 3 - x
ChangeIP(t) == t = "II"
ChangePort(t) == t \in {"II", "III"}

NoHost == 0
Local == 3

\* The address the server sees: a symmetric NAT uses one per destination.
Mapped(dst) == CASE kind \in {"open", "firewall"} -> Local
                 [] kind = "symmetric" -> dst.ip
                 [] OTHER -> 1
-----------------------------------------------------------------------------
Init == /\ kind \in NatKinds
        /\ server \in ServerKinds
        /\ test = "I"
        /\ reading = FALSE
        /\ tries = 0
        /\ asked = {}
        /\ replies = {}
        /\ outcome = "none"
        /\ host = NoHost
        /\ kept = NoHost
        /\ keepalives = 0
        /\ missed = FALSE

\* Fault: the retransmissions are not counted.
NotCounted == tries
Counted == tries + 1

MoreTries == tries < Retransmits

Send == /\ test # "idle"
        /\ ~reading
        /\ MoreTries
        /\ reading' = TRUE
        /\ tries' = Counted
        /\ asked' = asked \union {test}
        /\ UNCHANGED <<world, test, replies, result, missed>>

\* ReadFrom runs into the deadline.
Timeout == /\ reading
           /\ reading' = FALSE
           /\ UNCHANGED <<world, test, tries, asked, replies, result, missed>>
-----------------------------------------------------------------------------
\* The address a server of each kind answers the requests of t from.
Source(t) == IF server = "fixed" THEN Dest(t)
             ELSE Addr(IF ChangeIP(t) THEN Other(Dest(t).ip) ELSE Dest(t).ip,
                       IF ChangePort(t) THEN Other(Dest(t).port) ELSE Dest(t).port)

Responds(t) == kind # "blocked" /\ (server = "single" => Source(t) = Main)

Answer(t) == /\ t \in asked
             /\ Responds(t)
             /\ \E ok \in {TRUE} \union (IF server = "failing" THEN {FALSE} ELSE {}) :
                  replies' = replies \union {[id |-> t, from |-> Source(t), ok |-> ok]}
             /\ UNCHANGED <<world, client, asked, result, missed>>

\* A NAT or firewall lets in what comes from where this mapping was used to send to.
Passes(t, from, sent) ==
  LET dests == {Dest(u) : u \in {v \in sent : Mapped(Dest(v)) = Mapped(Dest(t))}}
  IN  CASE kind \in {"open", "full"} -> TRUE
        [] kind = "restricted" -> \E d \in dests : d.ip = from.ip
        [] OTHER -> from \in dests

\* Other packets than those with the transaction id of the request are skipped.
\* Fault: every packet is taken for the response.
AnyPacket(r) == TRUE
Matches(r) == r.id = test

Arrives(r) == /\ reading
              /\ r \in replies
              /\ Passes(r.id, r.from, asked)
              /\ Matches(r)
-----------------------------------------------------------------------------
Start(t) == test' = t /\ reading' = FALSE /\ tries' = 0
Idle == Start("idle")

Finish(o) == Idle /\ outcome' = o

Identical == host = Local

ChangedBoth(from) == from.ip # Main.ip /\ from.port # Main.port

\* Response to the first test I.  An error has neither a mapped nor a changed address.
ResponseI(r) ==
  /\ test = "I"
  /\ Arrives(r)
  /\ host' = IF r.ok THEN Mapped(Dest(r.id)) ELSE NoHost
  /\ \/ /\ r.from = Main /\ r.ok /\ server # "plain"
        /\ Start("II")
        /\ outcome' = outcome
     \/ /\ ~(r.from = Main /\ r.ok /\ server # "plain")
        /\ Finish("servererror")
  /\ UNCHANGED <<world, asked, replies, kept, keepalives, missed>>

ResponseII(r) ==
  /\ test = "II"
  /\ Arrives(r)
  /\ \/ ~ChangedBoth(r.from) /\ Finish("servererror")
     \/ ChangedBoth(r.from) /\ Identical /\ Finish("open")
     \/ ChangedBoth(r.from) /\ ~Identical /\ Finish("full")
  /\ UNCHANGED <<world, asked, replies, host, kept, keepalives, missed>>

\* Test I at the changed address.  The mapped address of an error is nil, and
\* comparing it panics.  Fault: the mapped addresses are not compared.
AlwaysSame(r) == TRUE
SameMapping(r) == Mapped(Dest(r.id)) = host

ResponseI2(r) ==
  /\ test = "I2"
  /\ Arrives(r)
  /\ \/ r.from # Changed /\ Finish("servererror")
     \/ r.from = Changed /\ ~r.ok /\ Finish("panic")
     \/ r.from = Changed /\ r.ok /\ SameMapping(r) /\ Start("III") /\ outcome' = outcome
     \/ r.from = Changed /\ r.ok /\ ~SameMapping(r) /\ Finish("symmetric")
  /\ UNCHANGED <<world, asked, replies, host, kept, keepalives, missed>>

ResponseIII(r) ==
  /\ test = "III"
  /\ Arrives(r)
  /\ LET good == r.from.ip = Changed.ip /\ r.from.port # Changed.port
     IN  Finish(IF good THEN "restricted" ELSE "servererror")
  /\ UNCHANGED <<world, asked, replies, host, kept, keepalives, missed>>

ResponseKeep(r) ==
  /\ test = "keep"
  /\ Arrives(r)
  /\ kept' = IF r.ok THEN Mapped(Dest(r.id)) ELSE NoHost
  /\ Idle
  /\ UNCHANGED <<world, asked, replies, outcome, host, keepalives, missed>>

Response == \E r \in replies : \/ ResponseI(r) \/ ResponseII(r) \/ ResponseI2(r)
                               \/ ResponseIII(r) \/ ResponseKeep(r)
-----------------------------------------------------------------------------
\* After the last timeout there is no response.  Fault: test II decides nothing.
NoTestII == "I2"
AfterII == IF Identical THEN "firewall" ELSE "I2"

GiveUp ==
  /\ test # "idle"
  /\ ~reading
  /\ tries = Retransmits
  /\ missed' = (missed \/ (Responds(test) /\ Passes(test, Source(test), asked)))
  /\ \/ test = "I" /\ Finish("blocked")
     \/ test = "II" /\ AfterII = "I2" /\ Start("I2") /\ outcome' = outcome
     \/ test = "II" /\ AfterII # "I2" /\ Finish(AfterII)
     \/ test = "I2" /\ Finish("unknown")
     \/ test = "III" /\ Finish("portrestricted")
     \/ test = "keep" /\ Idle /\ outcome' = outcome
  /\ kept' = IF test = "keep" THEN NoHost ELSE kept
  /\ UNCHANGED <<world, asked, replies, host, keepalives>>

\* The socket fails, or a datagram that does not parse arrives.
IOFails == /\ test # "idle"
           /\ kept' = IF test = "keep" THEN NoHost ELSE kept
           /\ Idle
           /\ outcome' = IF test = "keep" THEN outcome ELSE "ioerror"
           /\ UNCHANGED <<world, asked, replies, host, keepalives, missed>>

\* Keepalive on the connection Discover has used, once it has returned.  It has a
\* transaction id of its own: responses to an earlier Keepalive match no more.
CallKeepalive == /\ outcome \notin {"none", "panic"}
                 /\ test = "idle"
                 /\ keepalives < MaxKeepalives
                 /\ keepalives' = keepalives + 1
                 /\ Start("keep")
                 /\ asked' = asked \ {"keep"}
                 /\ replies' = {r \in replies : r.id # "keep"}
                 /\ UNCHANGED <<world, outcome, host, kept, missed>>
-----------------------------------------------------------------------------
Client == Send \/ Timeout \/ Response \/ GiveUp

Next == Client \/ IOFails \/ CallKeepalive \/ \E t \in Tests : Answer(t)

Spec == Init /\ [][Next]_vars

\* The client runs and its deadlines expire; no datagram has to arrive.
FairSpec == Spec /\ WF_vars(Send \/ Timeout \/ GiveUp)
-----------------------------------------------------------------------------
\* The type invariant: a test sends at most Retransmits requests, and Discover has
\* returned exactly when none of its tests is in progress.
TypeOK == /\ kind \in NatKinds /\ server \in ServerKinds
          /\ test \in Tests \union {"idle"}
          /\ reading \in BOOLEAN /\ tries \in 0..Retransmits
          /\ asked \subseteq Tests
          /\ \A r \in replies : r.id \in Tests /\ r.ok \in BOOLEAN
          /\ outcome \in Outcomes
          /\ host \in 0..3 /\ kept \in 0..3
          /\ keepalives \in 0..MaxKeepalives /\ missed \in BOOLEAN
          /\ (test \notin {"idle", "keep"}) <=> (outcome = "none")

\* The kinds of NAT an answer leaves open: lost datagrams make the client
\* believe in more filtering, never in less, and never in another mapping.
Possible(o) == CASE o = "open" -> {"open"}
                 [] o = "firewall" -> {"open", "firewall"}
                 [] o = "full" -> {"full"}
                 [] o = "restricted" -> {"full", "restricted"}
                 [] o = "portrestricted" -> {"full", "restricted", "portrestricted"}
                 [] o = "symmetric" -> {"symmetric"}
                 [] o = "unknown" -> NatKinds \ {"blocked", "open", "firewall"}
                 [] OTHER -> NatKinds

\* Whatever is lost, late or duplicated and whichever of ServerKinds the server is, the
\* answer of Discover errs only on the side of too much filtering.
Sound == kind \in Possible(outcome)

\* With a complete server, the answer is exact when no test gave up that could
\* have been answered.
Exact == server = "complete" /\ ~missed /\ outcome \in NatKinds => outcome = kind

\* Late and duplicated responses of earlier tests mislead nobody: a complete server
\* is never taken for one that answers from a wrong address, and the external
\* addresses that Discover and Keepalive return are those of the mapping towards
\* the server, not of the one another test has created.
OwnAnswers == /\ outcome = "servererror" => server # "complete"
              /\ host # NoHost => host = Mapped(Main)
              /\ kept # NoHost => kept = Mapped(Main)

\* Discover and Keepalive return however many packets of earlier tests come in.
Returns == [](test # "idle" => <>(test = "idle"))

=============================================================================
