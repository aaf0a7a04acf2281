------------------------- MODULE EgressProxy_proofs -------------------------
(***************************************************************************)
(* Proofs about EgressProxy, for every set of connections, number of       *)
(* slots, set of addresses, policy, resolvers, aliases and limits.         *)
(***************************************************************************)
EXTENDS EgressProxy, FiniteSetTheorems, WellFoundedInduction, TLAPS

\* Lengths are put only in front of the queries of resolvers passed over.
QueryType(q) == q \in Queries /\ q.prefixes < q.endpoint

Typed == TypeOK /\ \A c \in Conns : QueryType(query[c])

\* The semaphore holds one element for each connection being served.
Accounted == IsFiniteSet(Holders) /\ busy = Cardinality(Holders)

\* Nothing is said before the request is decided on.
Silent == \A c \in Conns : phase[c] \in {"new", "header", "resolve", "dial"} => answer[c] = "none"

\* A copy towards the client that has ended had a reason that stays.
CopiedBack ==
  \A c \in Conns :
    phase[c] = "tunnel" /\ ~down[c] =>
      \/ ~clientOpen[c]
      \/ delivered[c] = TunnelLimit
      \/ ~serverOpen[c] /\ delivered[c] = pushed[c]

\* So had a copy towards the server.
CopiedOn ==
  \A c \in Conns :
    phase[c] = "tunnel" /\ ~up[c] =>
      \/ ~serverOpen[c]
      \/ relayed[c] = TunnelLimit \/ ~Readable(c)
      \/ ~clientOpen[c] /\ relayed[c] = sent[c]

\* No answer that shows only a part of what a resolver holds was taken.
NothingHidden ==
  \A c \in Conns :
    /\ phase[c] \in {"new", "header", "resolve"} => query[c].held = query[c].found
    /\ phase[c] = "dial" => query[c].held \subseteq Public
    /\ pending[c] \subseteq Public /\ peer[c] \in Public \cup {NoAddress}

ProxyInv == Typed /\ Accounted /\ Silent /\ CopiedBack /\ CopiedOn /\ NothingHidden

LEMMA ProxyConstants ==
  /\ Slots \in Nat /\ Slots >= 1 /\ Endpoints \in Nat /\ Endpoints >= 1 /\ MaxCname \in Nat
  /\ Host \in Names /\ Addresses \subseteq Nat /\ Public \subseteq Addresses /\ V4 \subseteq Addresses
  /\ NoAddress \notin Addresses /\ HeaderUnits \subseteq Nat
  /\ ClientLimit \in Nat /\ TunnelLimit \in Nat /\ MaxUnits \in Nat
BY ProxyAssumption, ResolutionAssumption
-----------------------------------------------------------------------------
(* The exchange with the resolvers, one step at a time.                    *)

\* The query asked from the first resolver, over UDP or TCP; and for another name.
Reconnect(q, t) == [q EXCEPT !.tcp = t, !.endpoint = 1, !.prefixes = 0]
Rename(q, n, v, k) == [q EXCEPT !.name = n, !.visited = v, !.links = k]

LEMMA ReconnectType ==
  ASSUME NEW q, QueryType(q), NEW t \in BOOLEAN
  PROVE  LET r == Reconnect(q, t)
         IN  QueryType(r) /\ r.held = q.held /\ r.found = q.found
<1> DEFINE a == [q EXCEPT !.tcp = t]
           b == [a EXCEPT !.endpoint = 1]
           d == [b EXCEPT !.prefixes = 0]
<1>1. a \in Queries /\ a.held = q.held /\ a.found = q.found
  BY DEF QueryType, Queries
<1>2. b \in Queries /\ b.endpoint = 1 /\ b.held = a.held /\ b.found = a.found
  <2> HIDE DEF a
  <2>1. QED
    BY <1>1, ProxyConstants DEF Queries
<1>3. d \in Queries /\ d.endpoint = b.endpoint /\ d.prefixes = 0 /\ d.held = b.held /\ d.found = b.found
  <2> HIDE DEF b
  <2>1. QED
    BY <1>2, ProxyConstants DEF Queries
<1>4. d = Reconnect(q, t)
  BY DEF Reconnect
<1> HIDE DEF a, b, d
<1>5. QED
  BY <1>1, <1>2, <1>3, <1>4 DEF QueryType

LEMMA RenameType ==
  ASSUME NEW q, QueryType(q), NEW n \in Names, NEW v \in SUBSET Names, NEW k \in 0 .. MaxCname
  PROVE  LET r == Rename(q, n, v, k)
         IN  QueryType(r) /\ r.held = q.held /\ r.found = q.found
<1> DEFINE a == [q EXCEPT !.name = n]
           b == [a EXCEPT !.visited = v]
           d == [b EXCEPT !.links = k]
<1>1. QueryType(a) /\ a.held = q.held /\ a.found = q.found
  BY DEF QueryType, Queries
<1>2. QueryType(b) /\ b.held = a.held /\ b.found = a.found
  <2> HIDE DEF a
  <2>1. QED
    BY <1>1 DEF QueryType, Queries
<1>3. QueryType(d) /\ d.held = b.held /\ d.found = b.found
  <2> HIDE DEF b
  <2>1. QED
    BY <1>2 DEF QueryType, Queries
<1>4. d = Rename(q, n, v, k)
  BY DEF Rename
<1> HIDE DEF a, b, d
<1>5. QED
  BY <1>1, <1>2, <1>3, <1>4

LEMMA AskedType ==
  ASSUME NEW q, QueryType(q)
  PROVE  /\ QueryType(Asked(q)) /\ Asked(q).held = q.held /\ Asked(q).found = q.found
         /\ QueryType(OverTcp(q)) /\ OverTcp(q).held = q.held /\ OverTcp(q).found = q.found
<1>1. Asked(q) = Reconnect(q, FALSE) /\ OverTcp(q) = Reconnect(q, TRUE)
  BY Zenon DEF Asked, OverTcp, Reconnect
<1>2. TRUE \in BOOLEAN /\ FALSE \in BOOLEAN
  OBVIOUS
<1>3. QED
  BY <1>1, <1>2, ReconnectType, Zenon

LEMMA FreshType ==
  /\ QueryType(Fresh)
  /\ \A h \in SUBSET Addresses :
       QueryType([Fresh EXCEPT !.held = h]) /\ [Fresh EXCEPT !.held = h].held = h
<1> DEFINE New(t) == [type |-> "A", name |-> Host, visited |-> {Host}, links |-> 0, found |-> {},
                      held |-> {}, tcp |-> t, endpoint |-> 1, prefixes |-> 0]
<1>1. \A t \in BOOLEAN :
        /\ QueryType(New(t))
        /\ \A h \in SUBSET Addresses :
             QueryType([New(t) EXCEPT !.held = h]) /\ [New(t) EXCEPT !.held = h].held = h
  BY ProxyConstants DEF QueryType, Queries
<1>2. Fresh = New(FALSE)
  BY Zenon DEF Fresh
<1>3. FALSE \in BOOLEAN
  OBVIOUS
<1> HIDE DEF New
<1>4. QED
  BY <1>1, <1>2, <1>3, Zenon

LEMMA NextEndpointType ==
  ASSUME NEW q, QueryType(q), ~LastEndpoint(q), NEW dialled \in BOOLEAN
  PROVE  /\ QueryType(NextEndpoint(q, dialled))
         /\ NextEndpoint(q, dialled).held = q.held
         /\ NextEndpoint(q, dialled).found = q.found
BY ProxyConstants DEF QueryType, Queries, NextEndpoint, Dialled, LastEndpoint

\* An answer that is not asked for again shows all that the resolver holds.
LEMMA AnswerIsWhole ==
  ASSUME NEW q, NEW a \in Answers(q), ~Retried(q, a)
  PROVE  /\ a.shown = a.held
         /\ a.shown \subseteq Addresses
         /\ a.cname \in Names \cup {""}
BY ProxyConstants DEF Answers, Retried, Records

LEMMA FollowedType ==
  ASSUME NEW q, QueryType(q), NEW a \in Answers(q), ~Retried(q, a), ~Complete(q, a)
  PROVE  /\ QueryType(Followed(q, a))
         /\ Followed(q, a).held = q.held
         /\ Followed(q, a).found = q.found
<1>1. a.cname \in Names /\ q.links # MaxCname
  BY AnswerIsWhole DEF Complete
<1> DEFINE r == Asked(q)
<1>2. QueryType(r) /\ r.held = q.held /\ r.found = q.found
  BY AskedType
<1>3. r.visited \in SUBSET Names /\ r.links = q.links /\ q.links \in 0 .. MaxCname
  BY DEF Asked, QueryType, Queries
<1>4. Followed(q, a) = Rename(r, a.cname, r.visited \cup {a.cname}, r.links + 1)
  BY DEF Followed, Rename
<1> HIDE DEF r
<1>5. r.visited \cup {a.cname} \in SUBSET Names /\ r.links + 1 \in 0 .. MaxCname
  BY <1>1, <1>3, ProxyConstants
<1>6. QED
  BY <1>1, <1>2, <1>4, <1>5, RenameType

LEMMA GainedType ==
  ASSUME NEW q, QueryType(q), NEW a \in Answers(q), ~Retried(q, a)
  PROVE  /\ QueryType(Gained(q, a))
         /\ q.held = q.found => Gained(q, a).held = Gained(q, a).found
<1>1. a.shown = a.held /\ a.shown \subseteq Addresses
  BY AnswerIsWhole
<1>2. QED
  BY <1>1 DEF QueryType, Queries, Gained

LEMMA SecondTypeType ==
  ASSUME NEW q, QueryType(q)
  PROVE  /\ QueryType(SecondType(q))
         /\ SecondType(q).held = q.held
         /\ SecondType(q).found = q.found
<1> DEFINE r == Asked(q)
<1>1. QueryType(r) /\ r.held = q.held /\ r.found = q.found
  BY AskedType
<1> DEFINE y == [r EXCEPT !.type = "AAAA"]
<1>2. QueryType(y) /\ y.held = r.held /\ y.found = r.found
  <2> HIDE DEF r
  <2>1. QED
    BY <1>1 DEF QueryType, Queries
<1>3. SecondType(q) = Rename(y, Host, {Host}, 0)
  BY DEF SecondType, Rename
<1>4. Host \in Names /\ {Host} \in SUBSET Names /\ 0 \in 0 .. MaxCname
  BY ProxyConstants
<1> HIDE DEF r, y
<1>5. QED
  BY <1>1, <1>2, <1>3, <1>4, RenameType

\* A set of addresses to dial has a nearest one.
LEMMA NearestIsPending ==
  ASSUME Typed, NEW c \in Conns, pending[c] # {}
  PROVE  Nearest(c) \in pending[c]
<1> DEFINE T == pending[c]
<1>1. T \subseteq Nat /\ T # {}
  BY ProxyConstants DEF Typed, TypeOK
<1>2. PICK n \in T : \A m \in T : ~ (<<m, n>> \in OpToRel(<, Nat))
  <2>1. IsWellFoundedOn(OpToRel(<, Nat), Nat)
    BY NatLessThanWellFounded
  <2>2. QED
    BY <1>1, <2>1, WFMin
<1>3. \A m \in T : ~(m < n)
  BY <1>1, <1>2 DEF OpToRel
<1>a. \A m \in T : n <= m
  <2> HIDE DEF T
  <2>1. QED
    BY <1>1, <1>3
<1>4. QED
  BY <1>a, Zenon DEF Nearest
-----------------------------------------------------------------------------
(* What the parts of handle do.                                            *)

Asks(c, q) == query' = [query EXCEPT ![c] = q]

LEMMA AdmissibleIsPublic ==
  ASSUME NEW q, QueryType(q), Admissible(q.found)
  PROVE  q.found \subseteq Public /\ q.found # {}
BY DEF Admissible

\* An answer is asked for again, followed, or taken as a whole.
LEMMA ResolveEffect ==
  ASSUME Typed, NothingHidden, NEW c \in Conns, Resolve(c)
  PROVE  /\ phase[c] = "resolve" /\ UNCHANGED <<expired, header, tunnel>>
         /\ \/ Reply(c, "502") /\ Asks(c, Fresh) /\ UNCHANGED pending
            \/ /\ \E q : QueryType(q) /\ q.held = q.found /\ Asks(c, q)
               /\ UNCHANGED <<phase, busy, answer, pending>>
            \/ /\ \E q : QueryType(q) /\ q.held \subseteq Public /\ Asks(c, q)
               /\ \E p \in SUBSET Public : pending' = [pending EXCEPT ![c] = p]
               /\ Goes(c, "dial") /\ UNCHANGED <<busy, answer>>
<1> DEFINE q == query[c]
<1>1. QueryType(q)
  BY DEF Typed
<1>2. phase[c] = "resolve"
  BY DEF Resolve, PassOver, ResolutionFails, Answered
<1>3. q.held = q.found
  BY <1>2 DEF NothingHidden
<1>4. UNCHANGED <<expired, header, tunnel>>
  BY DEF Resolve, PassOver, ResolutionFails, Answered
<1>5. CASE PassOver(c)
  <2>1. CASE LastEndpoint(q)
    BY <1>2, <1>4, <1>5, <2>1 DEF PassOver, Asks
  <2>2. CASE ~LastEndpoint(q)
    <3>1. PICK dialled \in BOOLEAN : Asks(c, NextEndpoint(q, dialled))
      BY <1>5, <2>2 DEF PassOver, Asks
    <3>2. UNCHANGED <<phase, busy, answer, pending>>
      BY <1>5, <2>2 DEF PassOver
    <3>3. QED
      BY <1>1, <1>2, <1>3, <1>4, <2>2, <3>1, <3>2, NextEndpointType
  <2>3. QED
    BY <2>1, <2>2
<1>6. CASE ResolutionFails(c)
  BY <1>2, <1>4, <1>6 DEF ResolutionFails, Asks
<1>7. CASE Answered(c)
  <2>1. PICK a \in Answers(q) :
          \/ Retried(q, a) /\ Resolves(c, OverTcp(q))
          \/ /\ ~Retried(q, a) /\ ~Circular(q, a)
             /\ IF ~Complete(q, a) THEN Resolves(c, Followed(q, a))
                ELSE IF q.type = "A" THEN Resolves(c, SecondType(Gained(q, a)))
                ELSE Resolved(c, Gained(q, a))
    BY <1>7 DEF Answered
  <2> DEFINE g == Gained(q, a)
  <2> HIDE DEF q
  <2>2. CASE Retried(q, a)
    BY <1>1, <1>2, <1>3, <1>4, <2>1, <2>2, AskedType DEF Resolves, Asks
  <2>3. CASE ~Retried(q, a) /\ ~Complete(q, a)
    BY <1>1, <1>2, <1>3, <1>4, <2>1, <2>3, FollowedType DEF Resolves, Asks
  <2>4. CASE ~Retried(q, a) /\ Complete(q, a)
    <3>1. QueryType(g) /\ g.held = g.found
      BY <1>1, <1>3, <2>4, GainedType
    <3> HIDE DEF g
    <3>2. CASE Resolves(c, SecondType(g))
      BY <1>2, <1>4, <3>1, <3>2, SecondTypeType DEF Resolves, Asks
    <3>3. CASE Resolved(c, g) /\ Admissible(g.found)
      <4> DEFINE r == [Fresh EXCEPT !.held = g.held]
      <4>1. g.held \in SUBSET Addresses /\ g.found \in SUBSET Public
        BY <3>1, <3>3 DEF QueryType, Queries, Admissible
      <4>2. QueryType(r) /\ r.held = g.held
        BY <4>1, FreshType
      <4>3. pending' = [pending EXCEPT ![c] = g.found] /\ Asks(c, r)
            /\ Goes(c, "dial") /\ UNCHANGED <<busy, answer>>
        BY <3>3 DEF Resolved, Asks
      <4> HIDE DEF r
      <4>4. QED
        BY <1>2, <1>4, <3>1, <4>1, <4>2, <4>3
    <3>4. CASE Resolved(c, g) /\ ~Admissible(g.found)
      BY <1>2, <1>4, <3>4 DEF Resolved, Asks
    <3>5. QED
      BY <2>1, <2>4, <3>2, <3>3, <3>4 DEF g
  <2>5. QED
    BY <2>2, <2>3, <2>4
<1>8. QED
  BY <1>5, <1>6, <1>7 DEF Resolve
-----------------------------------------------------------------------------
(* The slots.                                                              *)

LEMMA SlotIsTaken ==
  ASSUME Typed, Accounted, NEW c \in Conns, phase[c] = "new", Admit(c),
         Goes(c, "header"), busy' = busy + 1
  PROVE  Accounted' /\ busy' \in 0 .. Slots
<1>1. Holders' = Holders \cup {c} /\ c \notin Holders
  BY DEF Holders, Goes, Typed, TypeOK
<1>2. IsFiniteSet(Holders') /\ Cardinality(Holders') = busy + 1
  BY <1>1, FS_AddElement DEF Accounted
<1>3. QED
  BY <1>2, ProxyConstants DEF Accounted, Admit, Typed, TypeOK

LEMMA SlotIsKept ==
  ASSUME Typed, Accounted, NEW c \in Conns, phase[c] \notin {"new", "closed"},
         NEW next \in {"header", "resolve", "dial", "tunnel"}, Goes(c, next), UNCHANGED busy
  PROVE  Accounted'
<1>1. Holders' = Holders
  BY DEF Holders, Goes, Typed, TypeOK
<1>2. QED
  BY <1>1 DEF Accounted

LEMMA SlotComesBack ==
  ASSUME Typed, Accounted, NEW c \in Conns, phase[c] \notin {"new", "closed"},
         Goes(c, "closed"), Release(c)
  PROVE  Accounted' /\ busy' \in 0 .. Slots
<1>1. Holders' = Holders \ {c} /\ c \in Holders
  BY DEF Holders, Goes, Typed, TypeOK
<1>2. IsFiniteSet(Holders') /\ Cardinality(Holders') = busy - 1
  BY <1>1, FS_RemoveElement DEF Accounted
<1>3. Cardinality(Holders') \in Nat
  BY <1>2, FS_CardinalityType
<1>4. QED
  BY <1>2, <1>3, ProxyConstants DEF Accounted, Release, Typed, TypeOK

LEMMA SlotsUntouched ==
  ASSUME Accounted, UNCHANGED <<phase, busy>>
  PROVE  Accounted'
BY DEF Accounted, Holders
-----------------------------------------------------------------------------
(* Types, queries and slots are preserved.                                 *)

Phase == {"new", "header", "resolve", "dial", "tunnel", "closed"}

LEMMA ReplyEffect ==
  ASSUME Typed, Accounted, NEW c \in Conns, phase[c] \notin {"new", "closed"},
         NEW status \in Status, Reply(c, status)
  PROVE  /\ Accounted' /\ busy' \in 0 .. Slots
         /\ Goes(c, "closed") /\ phase' \in [Conns -> Phase]
         /\ answer' \in [Conns -> Status]
         /\ \A d \in Conns : answer'[d] # answer[d] => d = c /\ answer'[d] = status
<1>1. Accounted' /\ busy' \in 0 .. Slots
  BY SlotComesBack DEF Reply
<1>2. Goes(c, "closed") /\ phase' \in [Conns -> Phase]
  BY DEF Reply, Goes, Typed, TypeOK, Phase
<1>3. answer' \in [Conns -> Status]
      /\ \A d \in Conns : answer'[d] # answer[d] => d = c /\ answer'[d] = status
  BY DEF Reply, Typed, TypeOK
<1>4. QED
  BY <1>1, <1>2, <1>3

LEMMA StatusWords ==
  /\ "400" \in Status /\ "403" \in Status /\ "405" \in Status
  /\ "502" \in Status /\ "504" \in Status /\ "200" \in Status
BY DEF Status

LEMMA AsksType ==
  ASSUME Typed, NEW c \in Conns, NEW q, QueryType(q), Asks(c, q)
  PROVE  query' \in [Conns -> Queries] /\ \A d \in Conns : QueryType(query'[d])
<1>1. q \in Queries /\ query \in [Conns -> Queries]
  BY DEF QueryType, Typed, TypeOK
<1>2. query' \in [Conns -> Queries]
  BY <1>1 DEF Asks
<1>3. \A d \in Conns : query'[d] = q \/ query'[d] = query[d]
  BY <1>1 DEF Asks
<1>4. QED
  BY <1>2, <1>3 DEF Typed

LEMMA HandleTyped ==
  ASSUME Typed, Accounted, NothingHidden, NEW c \in Conns, Handle(c)
  PROVE  Typed' /\ Accounted'
<1>1. CASE Accept(c)
  <2>1. /\ UNCHANGED <<expired, answer, header, query, pending, tunnel>>
        /\ phase[c] = "new" /\ phase' \in [Conns -> Phase]
    BY <1>1 DEF Accept, Goes, Typed, TypeOK, Phase
  <2>2. busy' \in 0 .. Slots /\ Accounted'
    <3>1. CASE Admit(c)
      BY <1>1, <3>1, SlotIsTaken DEF Accept
    <3>2. CASE ~Admit(c)
      <4>1. Holders' = Holders /\ busy' = busy
        BY <1>1, <3>2 DEF Accept, Holders, Goes, Typed, TypeOK
      <4>2. QED
        BY <4>1 DEF Accounted, Typed, TypeOK
    <3>3. QED
      BY <3>1, <3>2
  <2>3. QED
    BY <2>1, <2>2 DEF Typed, TypeOK, Phase, tunnel
<1>2. CASE Request(c)
  <2>1. /\ UNCHANGED <<busy, expired, answer, query, pending, tunnel>>
        /\ phase[c] = "header" /\ Goes(c, "resolve") /\ phase' \in [Conns -> Phase]
        /\ header' \in [Conns -> HeaderUnits \cup {0}]
    BY <1>2 DEF Request, Goes, Typed, TypeOK, Phase
  <2>2. Accounted'
    BY <2>1, SlotIsKept
  <2>3. QED
    BY <2>1, <2>2 DEF Typed, TypeOK, Phase, tunnel
<1>3. CASE RequestRefused(c) \/ RequestFails(c)
  <2>1. /\ phase[c] = "header" /\ UNCHANGED <<expired, header, query, pending, tunnel>>
        /\ \E status \in Status : Reply(c, status)
    BY <1>3, StatusWords DEF RequestRefused, RequestFails
  <2>2. Accounted' /\ busy' \in 0 .. Slots /\ phase' \in [Conns -> Phase] /\ answer' \in [Conns -> Status]
    BY <2>1, ReplyEffect
  <2>3. QED
    BY <2>1, <2>2 DEF Typed, TypeOK, Phase, tunnel
<1>4. CASE Resolve(c)
  <2>1. phase[c] = "resolve" /\ UNCHANGED <<expired, header, tunnel>>
    BY <1>4, ResolveEffect
  <2>2. CASE Reply(c, "502") /\ Asks(c, Fresh) /\ UNCHANGED pending
    <3>1. Accounted' /\ busy' \in 0 .. Slots /\ phase' \in [Conns -> Phase] /\ answer' \in [Conns -> Status]
      BY <2>1, <2>2, ReplyEffect, StatusWords
    <3>2. query' \in [Conns -> Queries] /\ \A d \in Conns : QueryType(query'[d])
      BY <2>2, AsksType, FreshType
    <3>3. QED
      BY <2>1, <2>2, <3>1, <3>2 DEF Typed, TypeOK, Phase, tunnel
  <2>3. CASE (\E q : QueryType(q) /\ q.held = q.found /\ Asks(c, q))
             /\ UNCHANGED <<phase, busy, answer, pending>>
    <3>1. query' \in [Conns -> Queries] /\ \A d \in Conns : QueryType(query'[d])
      BY <2>3, AsksType
    <3>2. Accounted'
      BY <2>3, SlotsUntouched
    <3>3. QED
      BY <2>1, <2>3, <3>1, <3>2 DEF Typed, TypeOK, Phase, tunnel
  <2>4. CASE /\ \E q : QueryType(q) /\ q.held \subseteq Public /\ Asks(c, q)
             /\ \E p \in SUBSET Public : pending' = [pending EXCEPT ![c] = p]
             /\ Goes(c, "dial") /\ UNCHANGED <<busy, answer>>
    <3>1. query' \in [Conns -> Queries] /\ \A d \in Conns : QueryType(query'[d])
      BY <2>4, AsksType
    <3>2. Accounted'
      BY <2>1, <2>4, SlotIsKept
    <3>3. phase' \in [Conns -> Phase] /\ pending' \in [Conns -> SUBSET Addresses]
      BY <2>4, ProxyConstants DEF Goes, Typed, TypeOK, Phase
    <3>4. QED
      BY <2>1, <2>4, <3>1, <3>2, <3>3 DEF Typed, TypeOK, Phase, tunnel
  <2>5. QED
    BY <1>4, <2>2, <2>3, <2>4, ResolveEffect
<1>5. CASE Connect(c)
  <2>1. /\ UNCHANGED <<busy, header, pending, clientOpen, sent, relayed, pushed, delivered>>
        /\ phase[c] = "dial" /\ Goes(c, "tunnel") /\ Asks(c, Fresh)
        /\ peer' = [peer EXCEPT ![c] = Nearest(c)]
    BY <1>5 DEF Connect, Asks
  <2>2. Nearest(c) \in Addresses
    BY <1>5, NearestIsPending DEF Connect, Typed, TypeOK
  <2>3. peer' \in [Conns -> Addresses \cup {NoAddress}] /\ phase' \in [Conns -> Phase]
    BY <2>1, <2>2 DEF Goes, Typed, TypeOK, Phase
  <2>4. serverOpen' \in [Conns -> BOOLEAN] /\ expired' \in [Conns -> BOOLEAN]
        /\ up' \in [Conns -> BOOLEAN] /\ down' \in [Conns -> BOOLEAN]
    BY <1>5 DEF Connect, Typed, TypeOK
  <2>5. answer' \in [Conns -> Status]
    BY <1>5, StatusWords DEF Connect, Typed, TypeOK
  <2>6. query' \in [Conns -> Queries] /\ \A d \in Conns : QueryType(query'[d])
    BY <2>1, AsksType, FreshType
  <2>7. Accounted'
    BY <2>1, SlotIsKept
  <2>8. QED
    BY <2>1, <2>3, <2>4, <2>5, <2>6, <2>7 DEF Typed, TypeOK, Phase
<1>6. CASE DialFails(c)
  <2> DEFINE rest == pending[c] \ {Nearest(c)}
  <2>1. /\ phase[c] = "dial" /\ UNCHANGED <<expired, header, tunnel>>
        /\ pending' = [pending EXCEPT ![c] = rest]
        /\ \/ Reply(c, "504") /\ Asks(c, Fresh)
           \/ UNCHANGED <<phase, busy, answer, query>>
    BY <1>6 DEF DialFails, Asks
  <2>2. pending' \in [Conns -> SUBSET Addresses]
    BY <2>1 DEF Typed, TypeOK
  <2>3. CASE Reply(c, "504") /\ Asks(c, Fresh)
    <3>1. Accounted' /\ busy' \in 0 .. Slots /\ phase' \in [Conns -> Phase] /\ answer' \in [Conns -> Status]
      BY <2>1, <2>3, ReplyEffect, StatusWords
    <3>2. query' \in [Conns -> Queries] /\ \A d \in Conns : QueryType(query'[d])
      BY <2>3, AsksType, FreshType
    <3>3. QED
      BY <2>1, <2>2, <3>1, <3>2 DEF Typed, TypeOK, Phase, tunnel
  <2>4. CASE UNCHANGED <<phase, busy, answer, query>>
    <3>1. Accounted'
      BY <2>4, SlotsUntouched
    <3>2. QED
      BY <2>1, <2>2, <2>4, <3>1 DEF Typed, TypeOK, Phase, tunnel
  <2>5. QED
    BY <2>1, <2>3, <2>4
<1>7. QED
  BY <1>1, <1>2, <1>3, <1>4, <1>5, <1>6 DEF Handle

LEMMA RelayTyped ==
  ASSUME Typed, Accounted, NEW c \in Conns, Relay(c)
  PROVE  Typed' /\ Accounted'
<1>1. CASE CopyUp(c)
  <2>1. relayed[c] + 1 \in 0 .. MaxUnits
    BY <1>1, ProxyConstants DEF CopyUp, Typed, TypeOK
  <2>2. relayed' \in [Conns -> 0 .. MaxUnits]
    BY <1>1, <2>1 DEF CopyUp, Typed, TypeOK
  <2>3. QED
    BY <1>1, <2>2, SlotsUntouched DEF CopyUp, Typed, TypeOK
<1>2. CASE CopyUpEnds(c)
  <2>1. up' \in [Conns -> BOOLEAN]
    BY <1>2 DEF CopyUpEnds, Typed, TypeOK
  <2>2. QED
    BY <1>2, <2>1, SlotsUntouched DEF CopyUpEnds, Typed, TypeOK
<1>3. CASE CopyDown(c)
  <2>1. delivered[c] + 1 \in 0 .. MaxUnits
    BY <1>3, ProxyConstants DEF CopyDown, Typed, TypeOK
  <2>2. delivered' \in [Conns -> 0 .. MaxUnits]
    BY <1>3, <2>1 DEF CopyDown, Typed, TypeOK
  <2>3. QED
    BY <1>3, <2>2, SlotsUntouched DEF CopyDown, Typed, TypeOK
<1>4. CASE CopyDownEnds(c)
  <2>1. down' \in [Conns -> BOOLEAN]
    BY <1>4 DEF CopyDownEnds, Typed, TypeOK
  <2>2. QED
    BY <1>4, <2>1, SlotsUntouched DEF CopyDownEnds, Typed, TypeOK
<1>5. CASE CloseTunnel(c)
  <2>1. phase[c] = "tunnel" /\ Goes(c, "closed") /\ Release(c)
        /\ UNCHANGED <<expired, answer, header, query, pending, tunnel>>
    BY <1>5 DEF CloseTunnel
  <2>2. phase' \in [Conns -> Phase]
    BY <2>1 DEF Goes, Typed, TypeOK, Phase
  <2>3. Accounted' /\ busy' \in 0 .. Slots
    BY <2>1, SlotComesBack
  <2>4. QED
    BY <2>1, <2>2, <2>3 DEF Typed, TypeOK, Phase, tunnel
<1>6. QED
  BY <1>1, <1>2, <1>3, <1>4, <1>5 DEF Relay

LEMMA EnvironmentTyped ==
  ASSUME Typed, Accounted, NEW c \in Conns, DeadlinePasses(c) \/ Client(c) \/ Server(c)
  PROVE  Typed' /\ Accounted'
<1>1. CASE DeadlinePasses(c)
  <2>1. expired' \in [Conns -> BOOLEAN]
    BY <1>1 DEF DeadlinePasses, Typed, TypeOK
  <2>2. QED
    BY <1>1, <2>1, SlotsUntouched DEF DeadlinePasses, Typed, TypeOK, tunnel
<1>2. CASE Client(c)
  <2>1. clientOpen' \in [Conns -> BOOLEAN]
    BY <1>2 DEF Client, Typed, TypeOK
  <2>2. sent' \in [Conns -> 0 .. MaxUnits]
    <3>1. sent[c] \in 0 .. MaxUnits /\ (sent[c] < MaxUnits => sent[c] + 1 \in 0 .. MaxUnits)
      BY ProxyConstants DEF Typed, TypeOK
    <3>2. QED
      BY <1>2, <3>1 DEF Client, Typed, TypeOK
  <2>3. QED
    BY <1>2, <2>1, <2>2, SlotsUntouched DEF Client, Typed, TypeOK
<1>3. CASE Server(c)
  <2>1. serverOpen' \in [Conns -> BOOLEAN]
    BY <1>3 DEF Server, Typed, TypeOK
  <2>2. pushed' \in [Conns -> 0 .. MaxUnits]
    <3>1. pushed[c] \in 0 .. MaxUnits /\ (pushed[c] < MaxUnits => pushed[c] + 1 \in 0 .. MaxUnits)
      BY ProxyConstants DEF Typed, TypeOK
    <3>2. QED
      BY <1>3, <3>1 DEF Server, Typed, TypeOK
  <2>3. QED
    BY <1>3, <2>1, <2>2, SlotsUntouched DEF Server, Typed, TypeOK
<1>4. QED
  BY <1>1, <1>2, <1>3
-----------------------------------------------------------------------------
(* The other parts of the invariant.                                       *)

LEMMA SilentStep ==
  ASSUME Typed, Accounted, Silent, NothingHidden, NEW c \in Conns,
         Handle(c) \/ Relay(c) \/ DeadlinePasses(c) \/ Client(c) \/ Server(c)
  PROVE  Silent'
<1>1. CASE UNCHANGED answer /\ \E next \in {"header", "resolve", "dial", "closed"} :
              Goes(c, next) /\ phase[c] # "tunnel" /\ phase[c] # "closed"
  BY <1>1 DEF Silent, Goes, Typed, TypeOK
<1>2. CASE UNCHANGED <<phase, answer>>
  BY <1>2 DEF Silent
<1>3. CASE phase[c] \notin {"new", "closed"} /\ \E status \in Status : Reply(c, status)
  <2>1. Goes(c, "closed") /\ \A d \in Conns : answer'[d] # answer[d] => d = c
    BY <1>3, ReplyEffect
  <2>2. QED
    BY <2>1 DEF Silent, Goes, Typed, TypeOK
<1>4. CASE Connect(c)
  <2>1. Goes(c, "tunnel") /\ \A d \in Conns : answer'[d] # answer[d] => d = c
    BY <1>4 DEF Connect, Typed, TypeOK
  <2>2. QED
    BY <2>1 DEF Silent, Goes, Typed, TypeOK
<1>5. CASE CloseTunnel(c)
  BY <1>5 DEF CloseTunnel, Silent, Goes, Typed, TypeOK
<1>6. CASE Resolve(c)
  BY <1>1, <1>2, <1>3, <1>6, ResolveEffect, StatusWords
<1>7. CASE Accept(c) \/ Request(c)
  BY <1>1, <1>7 DEF Accept, Request
<1>8. CASE RequestRefused(c) \/ RequestFails(c)
  BY <1>3, <1>8, StatusWords DEF RequestRefused, RequestFails
<1>9. CASE DialFails(c)
  BY <1>2, <1>3, <1>9, StatusWords DEF DialFails
<1>10. CASE DeadlinePasses(c) \/ Client(c) \/ Server(c)
            \/ CopyUp(c) \/ CopyUpEnds(c) \/ CopyDown(c) \/ CopyDownEnds(c)
  BY <1>2, <1>10 DEF DeadlinePasses, Client, Server, CopyUp, CopyUpEnds, CopyDown, CopyDownEnds
<1>11. QED
  BY <1>4, <1>5, <1>6, <1>7, <1>8, <1>9, <1>10 DEF Handle, Relay

\* A tunnel starts with both copies running; after that only the server's own
\* bytes could take the reason away, and it has none to send once it is closed.
LEMMA CopiedBackStep ==
  ASSUME Typed, Accounted, CopiedBack, NothingHidden, NEW c \in Conns,
         Handle(c) \/ Relay(c) \/ DeadlinePasses(c) \/ Client(c) \/ Server(c)
  PROVE  CopiedBack'
<1>1. CASE UNCHANGED tunnel /\ \/ UNCHANGED phase
                               \/ \E next \in Phase \ {"tunnel"} : Goes(c, next)
  BY <1>1 DEF CopiedBack, Goes, Typed, TypeOK, tunnel
<1>2. CASE Connect(c)
  <2>1. /\ phase' = [phase EXCEPT ![c] = "tunnel"]
        /\ down' = [down EXCEPT ![c] = TRUE]
        /\ serverOpen' = [serverOpen EXCEPT ![c] = TRUE]
        /\ UNCHANGED <<clientOpen, pushed, delivered>>
    BY <1>2 DEF Connect, Goes
  <2>2. QED
    BY <2>1 DEF CopiedBack, Typed, TypeOK
<1>3. CASE CopyUp(c) \/ CopyUpEnds(c)
  BY <1>3 DEF CopyUp, CopyUpEnds, CopiedBack
<1>4. CASE CopyDown(c)
  BY <1>4 DEF CopyDown, CopiedBack, Typed, TypeOK
<1>5. CASE CopyDownEnds(c)
  BY <1>5 DEF CopyDownEnds, CopiedBack, Typed, TypeOK
<1>6. CASE Client(c)
  BY <1>6 DEF Client, CopiedBack, Typed, TypeOK
<1>7. CASE Server(c)
  BY <1>7 DEF Server, CopiedBack, Typed, TypeOK
<1>8. CASE Resolve(c)
  <2>1. Reply(c, "502") => Goes(c, "closed")
    BY DEF Reply
  <2>2. UNCHANGED tunnel
    BY <1>8, ResolveEffect
  <2>3. UNCHANGED phase \/ Goes(c, "closed") \/ Goes(c, "dial")
    BY <1>8, <2>1, ResolveEffect
  <2>4. QED
    BY <1>1, <2>2, <2>3 DEF Phase
<1>9. CASE Accept(c) \/ Request(c) \/ RequestRefused(c) \/ RequestFails(c) \/ DialFails(c)
           \/ CloseTunnel(c) \/ DeadlinePasses(c)
  <2>1. UNCHANGED tunnel
    BY <1>9 DEF Accept, Request, RequestRefused, RequestFails, DialFails, CloseTunnel, DeadlinePasses
  <2>2. UNCHANGED phase \/ Goes(c, "header") \/ Goes(c, "resolve") \/ Goes(c, "closed")
    BY <1>9 DEF Accept, Request, RequestRefused, RequestFails, DialFails, CloseTunnel, DeadlinePasses, Reply
  <2>3. QED
    BY <1>1, <2>1, <2>2 DEF Phase
<1>10. QED
  BY <1>2, <1>3, <1>4, <1>5, <1>6, <1>7, <1>8, <1>9 DEF Handle, Relay

\* The same of the copy towards the server, whose limit also counts the request:
\* that was read before the tunnel, and stays what it was.
LEMMA CopiedOnStep ==
  ASSUME Typed, Accounted, CopiedOn, NothingHidden, NEW c \in Conns,
         Handle(c) \/ Relay(c) \/ DeadlinePasses(c) \/ Client(c) \/ Server(c)
  PROVE  CopiedOn'
<1>1. CASE /\ UNCHANGED tunnel
           /\ \/ UNCHANGED <<phase, header>>
              \/ UNCHANGED header /\ \E next \in Phase \ {"tunnel"} : Goes(c, next)
  BY <1>1 DEF CopiedOn, Readable, Goes, Typed, TypeOK, tunnel
<1>2. CASE Connect(c)
  <2>1. /\ phase' = [phase EXCEPT ![c] = "tunnel"]
        /\ up' = [up EXCEPT ![c] = TRUE]
        /\ serverOpen' = [serverOpen EXCEPT ![c] = TRUE]
        /\ UNCHANGED <<clientOpen, sent, relayed, header>>
    BY <1>2 DEF Connect, Goes
  <2>2. QED
    BY <2>1 DEF CopiedOn, Readable, Typed, TypeOK
<1>3. CASE CopyDown(c) \/ CopyDownEnds(c)
  BY <1>3 DEF CopyDown, CopyDownEnds, CopiedOn, Readable
<1>4. CASE CopyUp(c)
  BY <1>4 DEF CopyUp, CopiedOn, Readable, Typed, TypeOK
<1>5. CASE CopyUpEnds(c)
  BY <1>5 DEF CopyUpEnds, UpDone, CopiedOn, Readable, Typed, TypeOK
<1>6. CASE Client(c)
  BY <1>6 DEF Client, CopiedOn, Readable, Typed, TypeOK
<1>7. CASE Server(c)
  BY <1>7 DEF Server, CopiedOn, Readable, Typed, TypeOK
<1>8. CASE Request(c)
  <2>1. /\ UNCHANGED tunnel /\ phase' = [phase EXCEPT ![c] = "resolve"]
        /\ \A d \in Conns \ {c} : header'[d] = header[d]
    BY <1>8 DEF Request, Goes, Typed, TypeOK
  <2>2. QED
    BY <2>1 DEF CopiedOn, Readable, Typed, TypeOK, tunnel
<1>9. CASE Resolve(c)
  <2>1. Reply(c, "502") => Goes(c, "closed")
    BY DEF Reply
  <2>2. UNCHANGED <<tunnel, header>>
    BY <1>9, ResolveEffect
  <2>3. UNCHANGED phase \/ Goes(c, "closed") \/ Goes(c, "dial")
    BY <1>9, <2>1, ResolveEffect
  <2>4. QED
    BY <1>1, <2>2, <2>3 DEF Phase
<1>10. CASE Accept(c) \/ RequestRefused(c) \/ RequestFails(c) \/ DialFails(c)
            \/ CloseTunnel(c) \/ DeadlinePasses(c)
  <2>1. UNCHANGED <<tunnel, header>>
    BY <1>10 DEF Accept, RequestRefused, RequestFails, DialFails, CloseTunnel, DeadlinePasses
  <2>2. UNCHANGED phase \/ Goes(c, "header") \/ Goes(c, "closed")
    BY <1>10 DEF Accept, RequestRefused, RequestFails, DialFails, CloseTunnel, DeadlinePasses,
                 Reply
  <2>3. QED
    BY <1>1, <2>1, <2>2 DEF Phase
<1>11. QED
  BY <1>2, <1>3, <1>4, <1>5, <1>6, <1>7, <1>8, <1>9, <1>10 DEF Handle, Relay

\* Addresses come in by Resolved alone, where the policy is asked about all of them.
LEMMA NothingHiddenStep ==
  ASSUME Typed, Accounted, NothingHidden, NEW c \in Conns,
         Handle(c) \/ Relay(c) \/ DeadlinePasses(c) \/ Client(c) \/ Server(c)
  PROVE  NothingHidden'
<1>1. CASE UNCHANGED <<query, pending, peer>> /\ (UNCHANGED phase \/ Goes(c, "closed"))
  <2>1. \A d \in Conns : phase'[d] = phase[d] \/ phase'[d] = "closed"
    BY <1>1 DEF Goes, Typed, TypeOK
  <2>2. query' = query /\ pending' = pending /\ peer' = peer
    BY <1>1
  <2>3. QED
    BY <2>1, <2>2 DEF NothingHidden
<1>2. CASE Request(c)
  <2>1. phase' = [phase EXCEPT ![c] = "resolve"] /\ UNCHANGED <<query, pending, peer>>
    BY <1>2 DEF Request, Goes, tunnel
  <2>2. query[c].held = query[c].found
    BY <1>2 DEF Request, NothingHidden
  <2>3. QED
    BY <2>1, <2>2 DEF NothingHidden, Typed, TypeOK
<1>3. CASE Resolve(c)
  <2>1. phase[c] = "resolve" /\ UNCHANGED peer
    BY <1>3, ResolveEffect DEF tunnel
  <2>2. CASE Reply(c, "502") /\ Asks(c, Fresh) /\ UNCHANGED pending
    <3>1. phase' = [phase EXCEPT ![c] = "closed"]
      BY <2>2 DEF Reply, Goes
    <3>2. \A d \in Conns : d # c => query'[d] = query[d]
      BY <2>2 DEF Asks, Typed, TypeOK
    <3>3. QED
      BY <2>1, <2>2, <3>1, <3>2 DEF NothingHidden, Typed, TypeOK
  <2>3. CASE (\E q : QueryType(q) /\ q.held = q.found /\ Asks(c, q))
             /\ UNCHANGED <<phase, busy, answer, pending>>
    BY <2>1, <2>3 DEF NothingHidden, Asks, Typed, TypeOK
  <2>4. CASE /\ \E q : QueryType(q) /\ q.held \subseteq Public /\ Asks(c, q)
             /\ \E p \in SUBSET Public : pending' = [pending EXCEPT ![c] = p]
             /\ Goes(c, "dial") /\ UNCHANGED <<busy, answer>>
    BY <2>1, <2>4 DEF NothingHidden, Asks, Goes, Typed, TypeOK
  <2>5. QED
    BY <1>3, <2>2, <2>3, <2>4, ResolveEffect
<1>4. CASE Connect(c)
  <2>1. /\ phase' = [phase EXCEPT ![c] = "tunnel"] /\ Asks(c, Fresh)
        /\ peer' = [peer EXCEPT ![c] = Nearest(c)] /\ UNCHANGED pending
    BY <1>4 DEF Connect, Goes, Asks
  <2>2. Nearest(c) \in Public
    BY <1>4, NearestIsPending DEF Connect, NothingHidden
  <2>3. \A d \in Conns : d # c => query'[d] = query[d]
    BY <2>1 DEF Asks, Typed, TypeOK
  <2>4. QED
    BY <2>1, <2>2, <2>3 DEF NothingHidden, Typed, TypeOK
<1>5. CASE DialFails(c)
  <2>1. /\ phase[c] = "dial" /\ UNCHANGED peer
        /\ pending' = [pending EXCEPT ![c] = pending[c] \ {Nearest(c)}]
        /\ \/ Goes(c, "closed") /\ Asks(c, Fresh)
           \/ UNCHANGED <<phase, query>>
    BY <1>5 DEF DialFails, Asks, Reply, tunnel
  <2>2. \A d \in Conns : pending'[d] \subseteq Public
    BY <2>1 DEF NothingHidden, Typed, TypeOK
  <2>3. CASE Goes(c, "closed") /\ Asks(c, Fresh)
    <3>1. \A d \in Conns : d # c => query'[d] = query[d]
      BY <2>3 DEF Asks, Typed, TypeOK
    <3>2. QED
      BY <2>1, <2>2, <2>3, <3>1 DEF NothingHidden, Goes, Typed, TypeOK
  <2>4. CASE UNCHANGED <<phase, query>>
    BY <2>1, <2>2, <2>4 DEF NothingHidden
  <2>5. QED
    BY <2>1, <2>3, <2>4
<1>6. CASE Accept(c) \/ RequestRefused(c) \/ RequestFails(c) \/ CloseTunnel(c) \/ DeadlinePasses(c)
  <2>1. UNCHANGED <<query, pending, peer>>
    BY <1>6 DEF Accept, RequestRefused, RequestFails, CloseTunnel, DeadlinePasses, tunnel
  <2>2. UNCHANGED phase \/ Goes(c, "closed") \/ (phase[c] = "new" /\ Goes(c, "header"))
    BY <1>6 DEF Accept, RequestRefused, RequestFails, CloseTunnel, DeadlinePasses, Reply
  <2>3. CASE phase[c] = "new" /\ Goes(c, "header")
    BY <2>1, <2>3 DEF NothingHidden, Goes, Typed, TypeOK
  <2>4. QED
    BY <1>1, <2>1, <2>2, <2>3
<1>7. CASE Client(c) \/ Server(c) \/ CopyUp(c) \/ CopyUpEnds(c) \/ CopyDown(c) \/ CopyDownEnds(c)
  BY <1>1, <1>7 DEF Client, Server, CopyUp, CopyUpEnds, CopyDown, CopyDownEnds
<1>8. QED
  BY <1>2, <1>3, <1>4, <1>5, <1>6, <1>7 DEF Handle, Relay
-----------------------------------------------------------------------------
(* The theorems.                                                           *)

LEMMA ProxyInvInit ==
  Init => ProxyInv
<1> SUFFICES ASSUME Init PROVE ProxyInv
  OBVIOUS
<1>1. Typed
  BY ProxyConstants, FreshType DEF Init, Typed, TypeOK, Status, QueryType
<1>2. Accounted
  <2>1. Holders = {}
    BY DEF Init, Holders
  <2>2. QED
    BY <2>1, FS_EmptySet DEF Accounted, Init
<1>3. Silent /\ CopiedBack /\ CopiedOn
  BY DEF Init, Silent, CopiedBack, CopiedOn
<1>4. NothingHidden
  BY DEF Init, NothingHidden, Fresh
<1>5. QED
  BY <1>1, <1>2, <1>3, <1>4 DEF ProxyInv

LEMMA ProxyInvStep ==
  ProxyInv /\ [Next]_vars => ProxyInv'
<1> SUFFICES ASSUME ProxyInv, [Next]_vars PROVE ProxyInv'
  OBVIOUS
<1> USE DEF ProxyInv
<1>1. CASE Next
  <2>1. PICK c \in Conns : Handle(c) \/ Relay(c) \/ DeadlinePasses(c) \/ Client(c) \/ Server(c)
    BY <1>1 DEF Next
  <2>2. Typed' /\ Accounted'
    BY <2>1, HandleTyped, RelayTyped, EnvironmentTyped
  <2>3. Silent' /\ CopiedBack' /\ CopiedOn' /\ NothingHidden'
    BY <2>1, SilentStep, CopiedBackStep, CopiedOnStep, NothingHiddenStep
  <2>4. QED
    BY <2>2, <2>3
<1>2. CASE UNCHANGED vars
  BY <1>2 DEF vars, tunnel, Typed, TypeOK, Accounted, Holders, Silent, CopiedBack, CopiedOn,
              Readable, NothingHidden
<1>3. QED
  BY <1>1, <1>2

LEMMA ProxyInvHolds ==
  Spec => []ProxyInv
BY ProxyInvInit, ProxyInvStep, PTL DEF Spec

\* The variables keep their types, with any number of connections.
THEOREM ProxyTypes ==
  Spec => []TypeOK
<1>1. ProxyInv => TypeOK
  BY DEF ProxyInv, Typed
<1>2. QED
  BY <1>1, ProxyInvHolds, PTL

\* The semaphore counts exactly the connections that are served, however many of
\* them come and in whichever way each ends, so that no more than Slots are.
THEOREM SlotsDoNotDrift ==
  Spec => []SlotsAreAccounted
<1>1. ProxyInv => SlotsAreAccounted
  BY ProxyConstants DEF ProxyInv, Typed, TypeOK, Accounted, SlotsAreAccounted
<1>2. QED
  BY <1>1, ProxyInvHolds, PTL

\* What is dialled, and all that the resolvers hold for the names taken when
\* something is, lies within the policy.
THEOREM TunnelsArePublic ==
  Spec => []OnlyPublic
<1>1. ProxyInv => OnlyPublic
  BY DEF ProxyInv, NothingHidden, OnlyPublic
<1>2. QED
  BY <1>1, ProxyInvHolds, PTL

\* A connection is answered once, and with 200 exactly when it becomes a tunnel.
THEOREM AnsweredOnce ==
  Spec => AnswersOnce
<1>1. ASSUME ProxyInv, [Next]_vars
      PROVE  [\A c \in Conns : answer'[c] # answer[c] =>
                /\ answer[c] = "none"
                /\ answer'[c] = "200" <=> phase'[c] = "tunnel"]_vars
  <2>1. CASE UNCHANGED vars
    BY <2>1
  <2>2. CASE Next
    <3>1. PICK c \in Conns : Handle(c) \/ Relay(c) \/ DeadlinePasses(c) \/ Client(c) \/ Server(c)
      BY <2>2 DEF Next
    <3>2. CASE \E status \in Status \ {"200"} :
                 phase[c] \in {"header", "resolve", "dial"} /\ Reply(c, status)
      <4>1. PICK status \in Status \ {"200"} :
              phase[c] \in {"header", "resolve", "dial"} /\ Reply(c, status)
        BY <3>2
      <4>2. phase' = [phase EXCEPT ![c] = "closed"]
            /\ \A d \in Conns : answer'[d] # answer[d] => d = c /\ answer'[d] = status
        BY <1>1, <4>1, ReplyEffect DEF ProxyInv, Goes
      <4>3. QED
        BY <1>1, <4>1, <4>2 DEF ProxyInv, Silent, Typed, TypeOK
    <3>3. CASE Connect(c)
      BY <1>1, <3>3 DEF Connect, Goes, ProxyInv, Silent, Typed, TypeOK
    <3>4. CASE UNCHANGED answer
      BY <3>4
    <3>5. CASE Resolve(c)
      BY <1>1, <3>2, <3>4, <3>5, ResolveEffect, StatusWords DEF ProxyInv
    <3>6. CASE RequestRefused(c) \/ RequestFails(c) \/ DialFails(c)
      BY <3>2, <3>4, <3>6, StatusWords DEF RequestRefused, RequestFails, DialFails
    <3>7. CASE Accept(c) \/ Request(c) \/ Relay(c) \/ DeadlinePasses(c) \/ Client(c) \/ Server(c)
      BY <3>4, <3>7 DEF Accept, Request, Relay, CopyUp, CopyUpEnds, CopyDown, CopyDownEnds,
                        CloseTunnel, DeadlinePasses, Client, Server
    <3>8. QED
      BY <3>1, <3>3, <3>5, <3>6, <3>7 DEF Handle
  <2>3. QED
    BY <1>1, <2>1, <2>2
<1>2. QED
  BY <1>1, ProxyInvHolds, PTL DEF Spec, AnswersOnce

\* A tunnel is not closed while an end that is there is owed bytes that the limits
\* let through, in either direction.
THEOREM TunnelsDrain ==
  Spec => NothingCutOff
<1>1. ASSUME ProxyInv, [Next]_vars
      PROVE  [\A c \in Conns : phase[c] = "tunnel" /\ phase'[c] = "closed" =>
                /\ ~clientOpen[c] \/ delivered[c] = pushed[c] \/ delivered[c] = TunnelLimit
                /\ \/ ~serverOpen[c] \/ relayed[c] = sent[c] \/ relayed[c] = TunnelLimit
                   \/ ~Readable(c)]_vars
  <2>1. CASE UNCHANGED vars
    BY <2>1
  <2>2. CASE Next
    <3>1. PICK c \in Conns : Handle(c) \/ Relay(c) \/ DeadlinePasses(c) \/ Client(c) \/ Server(c)
      BY <2>2 DEF Next
    <3>2. CASE CloseTunnel(c)
      <4>1. phase' = [phase EXCEPT ![c] = "closed"] /\ phase[c] = "tunnel" /\ ~down[c] /\ ~up[c]
        BY <3>2 DEF CloseTunnel, Goes, Drained
      <4>2. ~clientOpen[c] \/ delivered[c] = pushed[c] \/ delivered[c] = TunnelLimit
        BY <1>1, <4>1 DEF ProxyInv, CopiedBack
      <4>3. \/ ~serverOpen[c] \/ relayed[c] = sent[c] \/ relayed[c] = TunnelLimit
            \/ ~Readable(c)
        BY <1>1, <4>1 DEF ProxyInv, CopiedOn
      <4>4. QED
        BY <1>1, <4>1, <4>2, <4>3 DEF ProxyInv, Typed, TypeOK
    <3>3. CASE phase[c] # "tunnel" /\ \E next \in Phase : Goes(c, next)
      BY <1>1, <3>3 DEF Goes, ProxyInv, Typed, TypeOK
    <3>4. CASE UNCHANGED phase
      BY <3>4
    <3>5. CASE Resolve(c)
      <4>1. Reply(c, "502") => Goes(c, "closed")
        BY DEF Reply
      <4>2. QED
        BY <1>1, <3>3, <3>4, <3>5, <4>1, ResolveEffect DEF ProxyInv, Phase
    <3>6. CASE Accept(c) \/ Request(c) \/ RequestRefused(c) \/ RequestFails(c) \/ Connect(c) \/ DialFails(c)
      <4>1. phase[c] # "tunnel"
        BY <3>6 DEF Accept, Request, RequestRefused, RequestFails, Connect, DialFails
      <4>2. UNCHANGED phase \/ \E next \in {"header", "closed", "resolve", "tunnel"} : Goes(c, next)
        BY <3>6 DEF Accept, Request, RequestRefused, RequestFails, Connect, DialFails, Reply
      <4>3. QED
        BY <3>3, <3>4, <4>1, <4>2 DEF Phase
    <3>7. CASE CopyUp(c) \/ CopyUpEnds(c) \/ CopyDown(c) \/ CopyDownEnds(c)
               \/ DeadlinePasses(c) \/ Client(c) \/ Server(c)
      BY <3>4, <3>7 DEF CopyUp, CopyUpEnds, CopyDown, CopyDownEnds, DeadlinePasses, Client, Server
    <3>8. QED
      BY <3>1, <3>2, <3>5, <3>6, <3>7 DEF Handle, Relay
  <2>3. QED
    BY <1>1, <2>1, <2>2
<1>2. QED
  BY <1>1, ProxyInvHolds, PTL DEF Spec, NothingCutOff
=============================================================================
