----------------------------- MODULE EgressProxy -----------------------------
(***************************************************************************)
(* The connections of the CONNECT proxy (proxy/main.go, proxy/dns.go,      *)
(* proxy/classifier.go): each accepted connection is a goroutine that      *)
(* takes a client slot, reads one request under a deadline, resolves the   *)
(* name once, dials the validated addresses in order, and relays bytes     *)
(* with one copying goroutine for each direction.                          *)
(*                                                                         *)
(* Bytes are counted in units.  Clients, resolvers and servers do what     *)
(* they like; a deadline may pass whenever it is pending.  A connection    *)
(* whose other end is closed is closed for both directions.                *)
(***************************************************************************)
EXTENDS NameResolution

CONSTANTS
  Conns,        \* accepted connections of the allowed client
  Slots,        \* capacity of clientSlots
  Public,       \* those the address policy admits
  NoAddress,
  HeaderUnits,  \* sizes a request may have
  ClientLimit,  \* units io.LimitReader lets through from a client
  TunnelLimit,  \* units io.CopyN copies in one direction
  MaxUnits      \* bound: units one side puts into a tunnel

ASSUME ProxyAssumption ==
  /\ Slots \in Nat \ {0}
  /\ Public \subseteq Addresses
  /\ NoAddress \notin Addresses
  /\ HeaderUnits \subseteq Nat \ {0}
  /\ {ClientLimit, TunnelLimit, MaxUnits} \subseteq Nat

VARIABLES
  phase,      \* "new", "header", "resolve", "dial", "tunnel", "closed"
  busy,       \* elements in clientSlots
  expired,    \* the deadline set on the client connection has passed
  answer,     \* the status the client was sent
  header,     \* units of its request
  query,      \* the exchange with the resolvers
  pending,    \* validated addresses not yet dialled
  peer,       \* the address the tunnel goes to
  clientOpen, serverOpen,   \* the other ends of both connections
  up, down,   \* the copying goroutine of each direction is running
  sent, relayed,            \* units the client sent; those written upstream
  pushed, delivered         \* units the server sent; those written back

tunnel == <<peer, clientOpen, serverOpen, up, down, sent, relayed, pushed, delivered>>
vars == <<phase, busy, expired, answer, header, query, pending, tunnel>>

Status == {"none", "200", "400", "403", "405", "502", "504"}

TypeOK ==
  /\ phase \in [Conns -> {"new", "header", "resolve", "dial", "tunnel", "closed"}]
  /\ busy \in 0 .. Slots
  /\ expired \in [Conns -> BOOLEAN]
  /\ answer \in [Conns -> Status]
  /\ header \in [Conns -> HeaderUnits \cup {0}]
  /\ query \in [Conns -> Queries]
  /\ pending \in [Conns -> SUBSET Addresses]
  /\ peer \in [Conns -> Addresses \cup {NoAddress}]
  /\ clientOpen \in [Conns -> BOOLEAN] /\ serverOpen \in [Conns -> BOOLEAN]
  /\ up \in [Conns -> BOOLEAN] /\ down \in [Conns -> BOOLEAN]
  /\ sent \in [Conns -> 0 .. MaxUnits] /\ relayed \in [Conns -> 0 .. MaxUnits]
  /\ pushed \in [Conns -> 0 .. MaxUnits] /\ delivered \in [Conns -> 0 .. MaxUnits]

Init ==
  /\ phase = [c \in Conns |-> "new"]
  /\ busy = 0
  /\ expired = [c \in Conns |-> FALSE]
  /\ answer = [c \in Conns |-> "none"]
  /\ header = [c \in Conns |-> 0]
  /\ query = [c \in Conns |-> Fresh]
  /\ pending = [c \in Conns |-> {}]
  /\ peer = [c \in Conns |-> NoAddress]
  /\ clientOpen = [c \in Conns |-> TRUE] /\ serverOpen = [c \in Conns |-> FALSE]
  /\ up = [c \in Conns |-> FALSE] /\ down = [c \in Conns |-> FALSE]
  /\ sent = [c \in Conns |-> 0] /\ relayed = [c \in Conns |-> 0]
  /\ pushed = [c \in Conns |-> 0] /\ delivered = [c \in Conns |-> 0]
-----------------------------------------------------------------------------
Goes(c, next) == phase' = [phase EXCEPT ![c] = next]

\* Mutant of Release: a slot is given back only by a tunnel.
ReleaseTunnel(c) == busy' = IF phase[c] = "tunnel" THEN busy - 1 ELSE busy

\* The deferred functions of handle: the slot is given back, both ends close.
Release(c) == busy' = busy - 1

Admit(c) == busy < Slots

\* A connection without a free slot is closed at once.
Accept(c) ==
  /\ phase[c] = "new"
  /\ IF Admit(c) THEN Goes(c, "header") /\ busy' = busy + 1
                 ELSE Goes(c, "closed") /\ UNCHANGED busy
  /\ UNCHANGED <<expired, answer, header, query, pending, tunnel>>

\* Mutant of Reply: handle goes on after it.
ReplyAndGoOn(c, status) ==
  /\ answer' = [answer EXCEPT ![c] = IF expired[c] \/ ~clientOpen[c] THEN @ ELSE status]
  /\ UNCHANGED <<phase, busy>>

\* reply: what the client is told, unless the write fails.
Reply(c, status) ==
  /\ answer' = [answer EXCEPT ![c] = IF expired[c] \/ ~clientOpen[c] THEN @ ELSE status]
  /\ Goes(c, "closed") /\ Release(c)

\* The whole request has been read, and it is an admissible one: it is shorter
\* than what the reader lets through.
Request(c) ==
  /\ phase[c] = "header" /\ ~expired[c] /\ clientOpen[c]
  /\ \E h \in HeaderUnits :
       h < ClientLimit /\ header' = [header EXCEPT ![c] = h]
  /\ Goes(c, "resolve")
  /\ UNCHANGED <<busy, expired, answer, query, pending, tunnel>>

\* What the client has sent of a request is enough to refuse it.
RequestRefused(c) ==
  /\ phase[c] = "header" /\ ~expired[c]
  /\ \E status \in {"400", "403", "405"} : Reply(c, status)
  /\ UNCHANGED <<expired, header, query, pending, tunnel>>

\* Mutant of Unreadable: the connection has no deadline.
UnreadableIfGone(c) == ~clientOpen[c]

Unreadable(c) == expired[c] \/ ~clientOpen[c]

\* The client says nothing more: it is gone, or the deadline has passed.
RequestFails(c) ==
  /\ phase[c] = "header"
  /\ Unreadable(c)
  /\ Reply(c, "400")
  /\ UNCHANGED <<expired, header, query, pending, tunnel>>

Admissible(ips) == ips # {} /\ ips \subseteq Public

\* A resolver fails at the dial or later, and the next one is asked.
PassOver(c) ==
  /\ phase[c] = "resolve"
  /\ IF LastEndpoint(query[c])
     THEN Reply(c, "502") /\ query' = [query EXCEPT ![c] = Fresh]
     ELSE /\ \E dialled \in BOOLEAN : query' = [query EXCEPT ![c] = NextEndpoint(@, dialled)]
          /\ UNCHANGED <<phase, busy, answer>>
  /\ UNCHANGED <<expired, header, pending, tunnel>>

\* The five seconds all resolvers share are over, or an answer cannot be read:
\* the request fails, whatever other resolvers would have said.
ResolutionFails(c) ==
  /\ phase[c] = "resolve"
  /\ Reply(c, "502") /\ query' = [query EXCEPT ![c] = Fresh]
  /\ UNCHANGED <<expired, header, pending, tunnel>>

\* Everything has been asked: the addresses are dialled only if all of them are
\* admitted.
Resolved(c, q) ==
  IF Admissible(q.found)
  THEN /\ pending' = [pending EXCEPT ![c] = q.found]
       /\ query' = [query EXCEPT ![c] = [Fresh EXCEPT !.held = q.held]]
       /\ Goes(c, "dial") /\ UNCHANGED <<answer, busy>>
  ELSE Reply(c, "502") /\ query' = [query EXCEPT ![c] = Fresh] /\ UNCHANGED pending

Resolves(c, q) == query' = [query EXCEPT ![c] = q] /\ UNCHANGED <<phase, busy, answer, pending>>

Answered(c) ==
  /\ phase[c] = "resolve" /\ Intelligible(query[c])
  /\ \E a \in Answers(query[c]) :
       LET q == query[c]
           g == Gained(q, a)
       IN  \/ Retried(q, a) /\ Resolves(c, OverTcp(q))
           \/ /\ ~Retried(q, a) /\ ~Circular(q, a)
              /\ IF ~Complete(q, a) THEN Resolves(c, Followed(q, a))
                 ELSE IF q.type = "A" THEN Resolves(c, SecondType(g))
                 ELSE Resolved(c, g)
  /\ UNCHANGED <<expired, header, tunnel>>

Resolve(c) == PassOver(c) \/ ResolutionFails(c) \/ Answered(c)

\* Addresses are dialled in order.
Nearest(c) == CHOOSE ip \in pending[c] : \A other \in pending[c] : ip <= other

\* The next address is connected to: both deadlines are lifted, 200 is sent.
Connect(c) ==
  /\ phase[c] = "dial" /\ pending[c] # {}
  /\ peer' = [peer EXCEPT ![c] = Nearest(c)]
  /\ serverOpen' = [serverOpen EXCEPT ![c] = TRUE]
  /\ expired' = [expired EXCEPT ![c] = FALSE]
  /\ answer' = [answer EXCEPT ![c] = IF clientOpen[c] THEN "200" ELSE @]
  /\ up' = [up EXCEPT ![c] = TRUE] /\ down' = [down EXCEPT ![c] = TRUE]
  /\ query' = [query EXCEPT ![c] = Fresh]
  /\ Goes(c, "tunnel")
  /\ UNCHANGED <<busy, header, pending, clientOpen, sent, relayed, pushed, delivered>>

\* It is not; after the last one, 504.
DialFails(c) ==
  /\ phase[c] = "dial" /\ pending[c] # {}
  /\ LET rest == pending[c] \ {Nearest(c)}
     IN  /\ pending' = [pending EXCEPT ![c] = rest]
         /\ IF rest = {}
            THEN Reply(c, "504") /\ query' = [query EXCEPT ![c] = Fresh]
            ELSE UNCHANGED <<phase, busy, answer, query>>
  /\ UNCHANGED <<expired, header, tunnel>>
-----------------------------------------------------------------------------
(* The tunnel.                                                             *)

\* The client's bytes come through the reader the request was read with.
Readable(c) == header[c] + relayed[c] < ClientLimit

CopyUp(c) ==
  /\ phase[c] = "tunnel" /\ up[c] /\ serverOpen[c]
  /\ relayed[c] < sent[c] /\ Readable(c) /\ relayed[c] < TunnelLimit
  /\ relayed' = [relayed EXCEPT ![c] = @ + 1]
  /\ UNCHANGED <<phase, busy, expired, answer, header, query, pending, peer, clientOpen,
                 serverOpen, up, down, sent, pushed, delivered>>

\* The copy ends at a limit, at the end of the stream, or on a failed write.
UpDone(c) ==
  \/ ~Readable(c)
  \/ relayed[c] = TunnelLimit
  \/ ~clientOpen[c] /\ relayed[c] = sent[c]
  \/ ~serverOpen[c] /\ relayed[c] < sent[c]

CopyUpEnds(c) ==
  /\ phase[c] = "tunnel" /\ up[c]
  /\ UpDone(c)
  /\ up' = [up EXCEPT ![c] = FALSE]
  /\ UNCHANGED <<phase, busy, expired, answer, header, query, pending, peer, clientOpen,
                 serverOpen, down, sent, relayed, pushed, delivered>>

CopyDown(c) ==
  /\ phase[c] = "tunnel" /\ down[c] /\ clientOpen[c]
  /\ delivered[c] < pushed[c] /\ delivered[c] < TunnelLimit
  /\ delivered' = [delivered EXCEPT ![c] = @ + 1]
  /\ UNCHANGED <<phase, busy, expired, answer, header, query, pending, peer, clientOpen,
                 serverOpen, up, down, sent, relayed, pushed>>

CopyDownEnds(c) ==
  /\ phase[c] = "tunnel" /\ down[c]
  /\ \/ delivered[c] = TunnelLimit
     \/ ~serverOpen[c] /\ delivered[c] = pushed[c]
     \/ ~clientOpen[c] /\ delivered[c] < pushed[c]
  /\ down' = [down EXCEPT ![c] = FALSE]
  /\ UNCHANGED <<phase, busy, expired, answer, header, query, pending, peer, clientOpen,
                 serverOpen, up, sent, relayed, pushed, delivered>>

\* Mutant of Drained: the first copy to end closes the tunnel.
DrainedOne(c) == ~up[c] \/ ~down[c]

\* wg.Wait: both copies have ended.
Drained(c) == ~up[c] /\ ~down[c]

CloseTunnel(c) ==
  /\ phase[c] = "tunnel"
  /\ Drained(c)
  /\ Goes(c, "closed") /\ Release(c)
  /\ UNCHANGED <<expired, answer, header, query, pending, tunnel>>
-----------------------------------------------------------------------------
(* The environment.                                                        *)

\* The deadline set when the slot was taken is pending until the tunnel.
DeadlinePasses(c) ==
  /\ phase[c] \in {"header", "resolve", "dial"} /\ ~expired[c]
  /\ expired' = [expired EXCEPT ![c] = TRUE]
  /\ UNCHANGED <<phase, busy, answer, header, query, pending, tunnel>>

Client(c) ==
  /\ phase[c] # "closed" /\ clientOpen[c]
  /\ \/ /\ clientOpen' = [clientOpen EXCEPT ![c] = FALSE] /\ UNCHANGED sent
     \/ /\ phase[c] = "tunnel" /\ sent[c] < MaxUnits
        /\ sent' = [sent EXCEPT ![c] = @ + 1] /\ UNCHANGED clientOpen
  /\ UNCHANGED <<phase, busy, expired, answer, header, query, pending, peer, serverOpen, up,
                 down, relayed, pushed, delivered>>

Server(c) ==
  /\ phase[c] = "tunnel" /\ serverOpen[c]
  /\ \/ serverOpen' = [serverOpen EXCEPT ![c] = FALSE] /\ UNCHANGED pushed
     \/ /\ pushed[c] < MaxUnits
        /\ pushed' = [pushed EXCEPT ![c] = @ + 1] /\ UNCHANGED serverOpen
  /\ UNCHANGED <<phase, busy, expired, answer, header, query, pending, peer, clientOpen, up,
                 down, sent, relayed, delivered>>

Handle(c) ==
  \/ Accept(c) \/ Request(c) \/ RequestRefused(c) \/ RequestFails(c)
  \/ Resolve(c) \/ Connect(c) \/ DialFails(c)
Relay(c) ==
  \/ CopyUp(c) \/ CopyUpEnds(c) \/ CopyDown(c) \/ CopyDownEnds(c) \/ CloseTunnel(c)

\* The proxy really may stop: nobody connects any more, or both ends are silent.
Next ==
  \E c \in Conns : Handle(c) \/ Relay(c) \/ DeadlinePasses(c) \/ Client(c) \/ Server(c)

Spec == Init /\ [][Next]_vars

\* Goroutines run, deadlines pass, resolutions and dials have deadlines of their
\* own.  Nothing is assumed of clients and servers, so a request need never be
\* complete, nor be wrong enough to be refused.
FairSpec ==
  /\ Spec
  /\ \A c \in Conns :
       /\ WF_vars(Accept(c)) /\ WF_vars(RequestFails(c)) /\ WF_vars(DeadlinePasses(c))
       /\ WF_vars(Resolve(c)) /\ WF_vars(Connect(c) \/ DialFails(c))
       /\ WF_vars(CopyUp(c)) /\ WF_vars(CopyUpEnds(c))
       /\ WF_vars(CopyDown(c)) /\ WF_vars(CopyDownEnds(c)) /\ WF_vars(CloseTunnel(c))
-----------------------------------------------------------------------------
(* Properties.                                                             *)

Holders == {c \in Conns : phase[c] \notin {"new", "closed"}}

\* Every path through handle, the refusals and failures included, gives its slot
\* back exactly once: the semaphore never drifts from the connections served.
SlotsAreAccounted == busy = Cardinality(Holders) /\ busy <= Slots

\* Contract, section 6: a tunnel goes to a public address, and a mixed name is
\* refused as a whole: none of what is dialled is outside the policy, and when
\* something is dialled nothing the resolvers hold for the names taken is, also
\* when an answer over UDP showed only a part of it.
OnlyPublic ==
  \A c \in Conns :
    /\ pending[c] \cup ({peer[c]} \ {NoAddress}) \subseteq Public
    /\ phase[c] = "dial" => query[c].held \subseteq Public

\* A connection is told 200 only with a tunnel behind it, and what it was told
\* before that is all it was told.
AnswersOnce ==
  [][\A c \in Conns : answer'[c] # answer[c] =>
       /\ answer[c] = "none"
       /\ answer'[c] = "200" <=> phase'[c] = "tunnel"]_vars

\* A tunnel is closed only when neither side can still be owed bytes the proxy
\* was willing to relay: what the server sent reaches a client that is there, and
\* what the client sent, up to the limit of its reader, a server that is there.
NothingCutOff ==
  [][\A c \in Conns : phase[c] = "tunnel" /\ phase'[c] = "closed" =>
       /\ ~clientOpen[c] \/ delivered[c] = pushed[c] \/ delivered[c] = TunnelLimit
       /\ \/ ~serverOpen[c] \/ relayed[c] = sent[c] \/ relayed[c] = TunnelLimit
          \/ ~Readable(c)]_vars

\* Slots come back. The request phase is bounded: a connection becomes a tunnel
\* or is closed, although a client may say nothing: the deadline is what ends its
\* silence; and a tunnel whose ends are
\* both gone is closed, whatever was still on its way.
SlotsComeBack ==
  \A c \in Conns :
    /\ phase[c] = "header" ~> phase[c] \in {"tunnel", "closed"}
    /\ (phase[c] = "tunnel" /\ ~clientOpen[c] /\ ~serverOpen[c]) ~> phase[c] = "closed"

\* Contract, section 7: bytes are relayed in both directions, up to 2 GiB, under
\* idle and lifetime limits that close the tunnel: what a client has sent is
\* relayed, or the tunnel ends.
SentIsRelayed ==
  \A c \in Conns :
    (phase[c] = "tunnel" /\ relayed[c] < sent[c])
      ~> (relayed[c] = sent[c] \/ phase[c] = "closed")
=============================================================================
