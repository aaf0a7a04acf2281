--------------------------- MODULE NameResolution ---------------------------
(***************************************************************************)
(* resolveDNS and dnsRequest (proxy/dns.go): the exchange of one request   *)
(* with the resolvers of the startup snapshot, as steps on a record.  The  *)
(* name is asked for A, then for AAAA addresses; aliases are followed a    *)
(* bounded number of times; a resolver that cannot be reached or does not  *)
(* answer is passed over; a truncated UDP answer is asked for again over   *)
(* TCP, from the first resolver.                                           *)
(***************************************************************************)
EXTENDS Integers, FiniteSets

CONSTANTS
  Addresses,    \* addresses a name may resolve to, in the order of dialling
  V4,           \* those an A answer holds; the others come with AAAA
  Names, Host,  \* names in answers; the requested one
  Endpoints,    \* resolvers of the snapshot
  MaxCname      \* aliases followed

ASSUME ResolutionAssumption ==
  /\ Addresses \subseteq Nat /\ IsFiniteSet(Addresses) /\ V4 \subseteq Addresses
  /\ Host \in Names /\ Endpoints \in Nat \ {0} /\ MaxCname \in Nat

Records(type) == IF type = "A" THEN V4 ELSE Addresses \ V4

\* found: addresses so far.  held: what the resolvers' own records of the names
\* taken were, whether or not an answer showed all of them.
Queries ==
  [type : {"A", "AAAA"}, name : Names, visited : SUBSET Names, links : 0 .. MaxCname,
   found : SUBSET Addresses, held : SUBSET Addresses,
   tcp : BOOLEAN, endpoint : 1 .. Endpoints, prefixes : 0 .. Endpoints]

\* The state of a connection that is not resolving.
Fresh == [type |-> "A", name |-> Host, visited |-> {Host}, links |-> 0, found |-> {}, held |-> {},
          tcp |-> FALSE, endpoint |-> 1, prefixes |-> 0]

\* A length is put in front of the query at each resolver that is connected to,
\* in front of the one put there before.
Dialled(q) == IF q.tcp THEN [q EXCEPT !.prefixes = @ + 1] ELSE q
Intelligible(q) == Dialled(q).prefixes <= 1

\* The next resolver, if there is one.
LastEndpoint(q) == q.endpoint = Endpoints
NextEndpoint(q, dialled) ==
  [(IF dialled THEN Dialled(q) ELSE q) EXCEPT !.endpoint = @ + 1]

\* Answers to an intelligible query: what the resolver holds, what of it the
\* answer shows, an alias, and whether the answer says that it is cut.  Over TCP
\* nothing is cut.
Answers(q) ==
  {a \in [held : SUBSET Records(q.type), shown : SUBSET Records(q.type),
          cname : Names \cup {""}, truncated : BOOLEAN] :
     /\ a.shown \subseteq a.held
     /\ a.truncated \/ a.shown = a.held
     /\ a.truncated => ~q.tcp}

\* Mutant of Retried: what a cut answer shows is taken.
RetriedIfEmpty(q, a) == a.truncated /\ ~q.tcp /\ a.shown = {}

\* A cut answer is not used.
Retried(q, a) == a.truncated /\ ~q.tcp
OverTcp(q) == [q EXCEPT !.tcp = TRUE, !.endpoint = 1, !.prefixes = 0]

\* Addresses end the search for their type; so do an answer without an alias and
\* too many aliases, with none.
Complete(q, a) == a.shown # {} \/ a.cname = "" \/ q.links = MaxCname
Circular(q, a) == ~Complete(q, a) /\ a.cname \in q.visited

Asked(q) == [q EXCEPT !.tcp = FALSE, !.endpoint = 1, !.prefixes = 0]
Followed(q, a) ==
  [Asked(q) EXCEPT !.name = a.cname, !.visited = @ \cup {a.cname}, !.links = @ + 1]
Gained(q, a) == [q EXCEPT !.found = @ \cup a.shown, !.held = @ \cup a.held]
SecondType(q) ==
  [Asked(q) EXCEPT !.type = "AAAA", !.name = Host, !.visited = {Host}, !.links = 0]
=============================================================================
