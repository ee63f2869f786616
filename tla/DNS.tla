-------------------------------- MODULE DNS --------------------------------
(***************************************************************************)
(* The resolver of pkg/services/dns.go, over a ledger that is announced    *)
(* and gossiped as in Announce.                                            *)
(*                                                                         *)
(* Each request has a goroutine of its own.  It reads the node's data      *)
(* once: a record whose expression matches the name, with an entry of the  *)
(* type asked for, is the answer.  Otherwise, if the resolver forwards, it *)
(* looks in the cache, and then asks the servers one after the other, each *)
(* for up to 30 seconds.  The cache holds as many questions as it is large *)
(* and drops the one used longest ago; what it holds never expires.        *)
(***************************************************************************)
EXTENDS Announce, Sequences

CONSTANTS
    Query,      \* goroutines that answer requests
    Question,   \* a name and a type
    Matches,    \* question -> keys, the expressions its name matches
    Typed,      \* question -> records with an entry of its type
    DNSKey,     \* the bucket of the records
    Resolving,  \* nodes with a resolver, by the loops that run: pairs
    Forwarder,  \* whether resolvers forward
    Forward,    \* the servers, in the order in which they are asked
    Answer,     \* what servers say
    CacheSize,
    Nothing     \* an empty answer

ASSUME DNSAssumption ==
    /\ Matches \in [Question -> SUBSET Key]
    /\ Typed \in [Question -> SUBSET Value]
    /\ DNSKey \in Bucket
    /\ Resolving \subseteq Tasks \X Node
    /\ Forwarder \in BOOLEAN
    /\ CacheSize \in Nat \ {0}
    /\ Nothing \notin Value \cup Answer

VARIABLES
    query,      \* goroutine -> its request
    cache       \* node -> questions and answers, the last used one first

dnsVars == <<query, cache>>

(* rest: the servers not yet asked.                                         *)
NoQuery == [at |-> "idle", node |-> Nothing, question |-> Nothing,
            rest |-> <<>>, answer |-> Nothing]

DNSInit ==
    /\ AnnounceInit
    /\ query = [q \in Query |-> NoQuery]
    /\ cache = [n \in Node |-> <<>>]

-----------------------------------------------------------------------------

At(q, at) == query[q].at = at

Becomes(q, state) == query' = [query EXCEPT ![q] = state]

Answered(q, a) == Becomes(q, [query[q] EXCEPT !.at = "reply", !.rest = <<>>, !.answer = a])

(* A request comes in, and miekg/dns starts a goroutine.                    *)
HandleDNSRequest(q, n, x) ==
    /\ <<task, n>> \in Resolving /\ At(q, "idle")
    /\ Becomes(q, [NoQuery EXCEPT !.at = "parse", !.node = n, !.question = x])
    /\ UNCHANGED cache

(* The records of the ledger of n for x: any may come first, the order is   *)
(* that of a map.                                                           *)
Records(n, x) ==
    LET data == InBucket(chain[n].storage, DNSKey)
    IN  {data[k] : k \in Matches[x] \cap DOMAIN data} \cap Typed[x]

Held(n) == {cache[n][i] : i \in DOMAIN cache[n]}

Cached(n, x) == {c \in Held(n) : c.question = x}

(* mutated ParseQuery: the cache is looked at before the ledger             *)
ParseCacheFirst(q) ==
    LET n == query[q].node
        x == query[q].question
    IN  /\ At(q, "parse")
        /\ IF Cached(n, x) = {} /\ Records(n, x) # {}
           THEN \E a \in Records(n, x) : Answered(q, a)
           ELSE IF Forwarder THEN Becomes(q, [query[q] EXCEPT !.at = "forward"])
                             ELSE Answered(q, Nothing)
        /\ UNCHANGED cache

ParseQuery(q) ==
    LET records == Records(query[q].node, query[q].question) IN
    /\ At(q, "parse")
    /\ IF records # {} THEN \E a \in records : Answered(q, a)
       ELSE IF Forwarder THEN Becomes(q, [query[q] EXCEPT !.at = "forward"])
                         ELSE Answered(q, Nothing)
    /\ UNCHANGED cache

-----------------------------------------------------------------------------
(* The cache *)

(* What is used or added is the last to go.                                 *)
Used(entries, c) ==
    LET others == SelectSeq(entries, LAMBDA d : d.question # c.question)
    IN  <<c>> \o (IF Len(others) < CacheSize THEN others ELSE SubSeq(others, 1, CacheSize - 1))

Remember(q, a) ==
    LET n == query[q].node IN
    cache' = [cache EXCEPT ![n] = Used(@, [question |-> query[q].question, answer |-> a])]

(* forwardQuery: the cache has the question, or the servers are asked.      *)
ForwardQuery(q) ==
    LET known == Cached(query[q].node, query[q].question) IN
    /\ At(q, "forward")
    /\ IF known = {}
       THEN /\ Becomes(q, [query[q] EXCEPT !.at = "ask", !.rest = Forward])
            /\ UNCHANGED cache
       ELSE \E c \in known : Answered(q, c.answer) /\ Remember(q, c.answer)

-----------------------------------------------------------------------------
(* The servers *)

(* The next server does not answer in time, or has no answer.               *)
QueryFails(q) ==
    /\ At(q, "ask") /\ query[q].rest # <<>>
    /\ Becomes(q, [query[q] EXCEPT !.rest = Tail(@)])
    /\ UNCHANGED cache

(* It has, or it has a longer one than fits and sends nothing of it: this   *)
(* too is a success, and kept.                                              *)
QueryDNS(q, a) ==
    /\ At(q, "ask") /\ query[q].rest # <<>>
    /\ Answered(q, a) /\ Remember(q, a)

(* An answer beside an error is passed on and not kept.                     *)
NameError(q, a) ==
    /\ At(q, "ask") /\ query[q].rest # <<>>
    /\ Answered(q, a)
    /\ UNCHANGED cache

Unavailable(q) ==
    /\ At(q, "ask") /\ query[q].rest = <<>>
    /\ Answered(q, Nothing)
    /\ UNCHANGED cache

(* WriteMsg *)
Reply(q) ==
    /\ At(q, "reply")
    /\ Becomes(q, NoQuery)
    /\ UNCHANGED cache

(* The node stops, on its own account or in a request that is no query, for *)
(* which there is no response to fill in.                                   *)
RestartResolver(n) ==
    /\ RestartLoops(n)
    /\ query' = [q \in Query |-> IF query[q].node = n THEN NoQuery ELSE query[q]]
    /\ cache' = [cache EXCEPT ![n] = <<>>]

-----------------------------------------------------------------------------

Resolve(q) ==
    \/ ParseQuery(q) \/ ForwardQuery(q) \/ QueryFails(q) \/ Unavailable(q) \/ Reply(q)
    \/ \E a \in Answer \cup {Nothing} : QueryDNS(q, a) \/ NameError(q, a)

DNSNext ==
    \/ AnnounceStep /\ UNCHANGED dnsVars
    \/ \E n \in Restarting : RestartResolver(n)
    \/ \E q \in Query : Resolve(q) /\ UNCHANGED allVars
    \/ \E q \in Query, n \in Node, x \in Question :
            HandleDNSRequest(q, n, x) /\ UNCHANGED allVars

DNSSpec == DNSInit /\ [][DNSNext]_<<allVars, dnsVars>>

(* Every query of a server has a timeout.                                   *)
DNSFairSpec ==
    /\ DNSSpec /\ AnnounceFairness
    /\ \A q \in Query : WF_dnsVars(Resolve(q) /\ UNCHANGED allVars)

-----------------------------------------------------------------------------
(* Properties *)

(* Whoever is answered by n is answered with what its ledger has, if it has *)
(* something.                                                               *)
Right(n) ==
    \A q \in Query : At(q, "reply") /\ query[q].node = n =>
        LET records == Records(n, query[q].question)
        IN  records # {} => query[q].answer \in records

(* When records stay in the ledger of a node, its resolver answers with     *)
(* them in the end, although it may have answers of other servers in its    *)
(* cache, which never expire, and requests on their way (parseQuery).       *)
Resolved ==
    \A n \in Node :
        <>[](\A w \in Worker : Announces(w) => Seen(n, w)) => <>[]Right(n)
=============================================================================
