--------------------------- MODULE ServicesProofs ---------------------------
(***************************************************************************)
(* RightService for any nodes, names, files, calls, deployments, roles and *)
(* plans of coordinators.  What a ledger says of a name is always a node   *)
(* that offers it, however old the ledger is; a call goes to a node it was *)
(* told of, so what it wants is among what that node offers, and where a   *)
(* protocol has one name its handler serves no other.                      *)
(***************************************************************************)
EXTENDS Roles, FiniteSetTheorems, NaturalsInduction,
        FunctionTheorems, TLAPS

Storage ==
    [users: SUBSET Node, owner: [Name -> Node \cup {None}], egress: SUBSET Node,
     role: [Node -> Role \cup {None}], alive: SUBSET Node]

CallState ==
    [at: {"ready", "found", "chosen", "create", "open", "over"},
     serve: {"none", "new", "known", "open", "over"},
     to: Node \cup {None}, dest: Name \cup {None}, egress: SUBSET Node,
     closed: SUBSET End, hung: SUBSET End, reset: BOOLEAN, copying: SUBSET Copier,
     stalled: SUBSET Copier, signals: Int, farSignals: Int]

TypeOK ==
    /\ deployment \in Deployment /\ plan \in Plan
    /\ started \in [Node -> Nat]
    /\ \A n \in Node : started[n] <= Len(Registered(n))
    /\ ledger \in [Node -> Storage]
    /\ call \in [Call -> CallState]

(* Owners offer what they are named for.                                    *)
Honest ==
    \A n \in Node, s \in Name :
        ledger[n].owner[s] # None => s \in Offers(ledger[n].owner[s])

(* A call that is not a proxy's is on its way to a node that offers what it *)
(* wants.                                                                   *)
WellChosen(c) ==
    call[c].at = "chosen" /\ ~ IsProxied(c) =>
        call[c].to \in Node /\ Wants(c) \in Name \cap Offers(call[c].to)

(* A stream that was opened is at such a node, and there stays.             *)
WellServed(c) ==
    /\ call[c].at \in {"ready", "found", "chosen"} => call[c].serve = "none"
    /\ call[c].serve # "none" =>
        call[c].to \in Node /\ Wants(c) \in Name \cap Offers(call[c].to)
    /\ call[c].dest # None =>
        call[c].serve # "none" /\ call[c].dest = Handles(c, call[c].to)

Reached == \A c \in Call : WellChosen(c) /\ WellServed(c)

IInv == TypeOK /\ Honest /\ Reached

-----------------------------------------------------------------------------
(* Handlers *)

(* Max is defined on the sets of naturals that have a bound.                *)
LEMMA HasGreatest ==
    ASSUME NEW bound \in Nat, NEW S \in SUBSET (0 .. bound), S # {}
    PROVE  Max(S) \in S
<1> DEFINE Under == {bound - i : i \in S}
<1>1. Under \in SUBSET Nat /\ Under # {}
  <2>1. \A i \in S : bound - i \in Nat
    OBVIOUS
  <2> QED
    BY <2>1
<1>2. PICK x \in Under : \A y \in Under : ~ (<<y, x>> \in OpToRel(<, Nat))
  BY <1>1, NatLessThanWellFounded, WFMin
<1>3. \A y \in Under : ~ (y < x)
  BY <1>1, <1>2 DEF OpToRel
<1>4. PICK greatest \in S : x = bound - greatest
  OBVIOUS
<1>5. \A j \in S : greatest >= j
  <2> TAKE j \in S
  <2>1. bound - j \in Under /\ ~ (bound - j < x)
    BY <1>3
  <2>2. j \in 0 .. bound /\ greatest \in 0 .. bound
    OBVIOUS
  <2> QED
    BY <1>4, <2>1, <2>2
<1> QED
  BY <1>5 DEF Max

(* What a handler serves is among what the node offers, and of its kind.    *)
LEMMA LastIsOffered ==
    ASSUME deployment \in Deployment, NEW n \in Node, NEW names,
           LastOf(n, names) # None
    PROVE  LastOf(n, names) \in Offers(n) \cap names
<1> DEFINE those == {i \in DOMAIN Registered(n) :
                        Registered(n)[i].kind = "offer" /\ Registered(n)[i].name \in names}
<1>1. Registered(n) \in Seq(Registration)
  BY DEF Registered, Deployment
<1>2. DOMAIN Registered(n) = 1 .. Len(Registered(n)) /\ Len(Registered(n)) \in Nat
  BY <1>1
<1>3. those \in SUBSET (0 .. Len(Registered(n)))
  BY <1>2
<1>4. those # {} /\ LastOf(n, names) = Registered(n)[Max(those)].name
  BY DEF LastOf
<1>5. Max(those) \in those
  <2> HIDE DEF those
  <2> QED
    BY <1>2, <1>3, <1>4, HasGreatest
<1> QED
  BY <1>4, <1>5 DEF Offers, ToSet

LEMMA FewOffers ==
    ASSUME deployment \in Deployment, NEW n \in Node
    PROVE  IsFiniteSet(Offers(n))
<1>1. Registered(n) \in Seq(Registration)
  BY DEF Registered, Deployment
<1> DEFINE Indices == {i \in 1 .. Len(Registered(n)) : Registered(n)[i].kind = "offer"}
           nameAt == [i \in Indices |-> Registered(n)[i].name]
<1>2. IsFiniteSet(Indices)
  BY <1>1, FS_Interval, FS_Subset
<1>3. DOMAIN Registered(n) = 1 .. Len(Registered(n))
  BY <1>1
<1>4. \A x \in Offers(n) : \E i \in Indices : nameAt[i] = x
  BY <1>3 DEF Offers, ToSet
<1>5. \A i \in Indices : nameAt[i] \in Offers(n)
  BY <1>3 DEF Offers, ToSet
<1>6. nameAt \in Surjection(Indices, Offers(n))
  BY <1>4, <1>5 DEF Surjection
<1> QED
  BY <1>2, <1>6, FS_Surjection

LEMMA OneAtMost ==
    ASSUME NEW S, IsFiniteSet(S), Cardinality(S) <= 1, NEW x \in S, NEW y \in S
    PROVE  x = y
<1>1. Cardinality(S) \in Nat /\ Cardinality(S) # 0
  BY FS_CardinalityType, FS_EmptySet
<1>2. Cardinality(S) = 1
  BY <1>1
<1> QED
  BY <1>2, FS_Singleton

(* Where a protocol has one name, its handler serves whoever wants it.      *)
LEMMA HandlesWhatIsWanted ==
    ASSUME deployment \in Deployment, NEW c \in Call, NEW n \in Node, Plain(n),
           Wants(c) \in Name \cap Offers(n), Handles(c, n) # None
    PROVE  Handles(c, n) = Wants(c)
<1>1. CASE IsFile(c)
  <2>1. Handles(c, n) \in Offers(n) \cap File /\ Wants(c) \in Offers(n) \cap File
    BY <1>1, LastIsOffered DEF Handles, IsFile
  <2>2. IsFiniteSet(Offers(n) \cap File) /\ Cardinality(Offers(n) \cap File) <= 1
    BY FewOffers, FS_Subset DEF Plain
  <2> QED
    BY <2>1, <2>2, OneAtMost
<1>2. CASE ~ IsFile(c)
  <2>1. Handles(c, n) \in Offers(n) \ File /\ Wants(c) \in Offers(n) \ File
    BY <1>2, LastIsOffered DEF Handles, IsFile
  <2>2. IsFiniteSet(Offers(n) \ File) /\ Cardinality(Offers(n) \ File) <= 1
    BY FewOffers, FS_Subset DEF Plain
  <2> QED
    BY <2>1, <2>2, OneAtMost
<1> QED
  BY <1>1, <1>2
-----------------------------------------------------------------------------
(* Steps *)

LEMMA Initially == RolesInit => IInv
<1> SUFFICES ASSUME RolesInit PROVE IInv
  OBVIOUS
<1> USE DEF RolesInit, Init
<1>1. deployment \in Deployment /\ plan \in Plan
  BY ServicesAssumption, RolesAssumption
<1>2. started \in [Node -> Nat] /\ \A n \in Node : started[n] <= Len(Registered(n))
  <2>1. \A n \in Node : Registered(n) \in Seq(Registration)
    BY <1>1 DEF Deployment, Registered
  <2> QED
    BY <2>1
<1>3. ledger \in [Node -> Storage]
  BY DEF Storage
<1>4. call \in [Call -> CallState]
  BY DEF NewCall, CallState
<1>5. Honest
  BY DEF Honest
<1>6. Reached
  BY DEF Reached, WellChosen, WellServed, NewCall
<1> QED
  BY <1>1, <1>2, <1>3, <1>4, <1>5, <1>6 DEF IInv, TypeOK

(* What a step leaves alone when the deployment stays.                      *)
LEMMA SameNetwork ==
    ASSUME deployment' = deployment
    PROVE  /\ \A n \in Node : Registered(n)' = Registered(n) /\ Offers(n)' = Offers(n)
           /\ \A c \in Call : /\ Caller(c)' = Caller(c) /\ Wants(c)' = Wants(c)
                              /\ IsFile(c)' = IsFile(c) /\ IsProxied(c)' = IsProxied(c)
           /\ \A c \in Call, n \in Node : Handles(c, n)' = Handles(c, n)
BY DEF Registered, Offers, Caller, Wants, IsFile, IsProxied, Handles, LastOf

LEMMA Elsewhere ==
    ASSUME IInv, deployment' = deployment, NEW c \in Call, call'[c] = call[c]
    PROVE  WellChosen(c)' /\ WellServed(c)'
<1>1. WellChosen(c) /\ WellServed(c)
  BY DEF IInv, Reached
<1>2. call[c].to \in Node => Offers(call[c].to)' = Offers(call[c].to)
  BY SameNetwork
<1>3. WellChosen(c)'
  BY <1>1, <1>2, SameNetwork DEF WellChosen
<1> QED
  BY <1>1, <1>2, <1>3, SameNetwork DEF WellServed

(* Ledgers may change, as long as what they say of owners is true.          *)
LEMMA LedgerStep ==
    ASSUME IInv, UNCHANGED <<deployment, plan, started, call>>,
           ledger' \in [Node -> Storage],
           \A n \in Node, s \in Name :
               ledger'[n].owner[s] # None => s \in Offers(ledger'[n].owner[s])
    PROVE  IInv'
<1>1. Reached'
  BY Elsewhere DEF Reached
<1>2. TypeOK'
  BY SameNetwork DEF IInv, TypeOK
<1>3. Honest'
  <2> SUFFICES ASSUME NEW n \in Node, NEW s \in Name, ledger'[n].owner[s] # None
               PROVE  (s \in Offers(ledger[n].owner[s]))'
    BY DEF Honest
  <2>1. ledger'[n].owner[s] \in Node
    BY DEF Storage
  <2> QED
    BY <2>1, SameNetwork
<1> QED
  BY <1>1, <1>2, <1>3 DEF IInv

LEMMA WriteStep ==
    ASSUME IInv, UNCHANGED <<deployment, plan>>, NEW n \in Node, NEW storage \in Storage,
           Write(n, storage),
           \A s \in Name : storage.owner[s] # None => s \in Offers(storage.owner[s])
    PROVE  IInv'
<1>1. ledger' = [ledger EXCEPT ![n] = storage] /\ UNCHANGED <<started, call>>
  BY DEF Write
<1>2. ledger \in [Node -> Storage]
  BY DEF IInv, TypeOK
<1>3. ledger' \in [Node -> Storage]
  BY <1>1, <1>2
<1>4. \A m \in Node, s \in Name :
          ledger'[m].owner[s] # None => s \in Offers(ledger'[m].owner[s])
  BY <1>1, <1>2 DEF IInv, Honest
<1> QED
  BY <1>1, <1>3, <1>4, LedgerStep

(* A write that leaves the owners alone.                                    *)
LEMMA OtherWrite ==
    ASSUME IInv, UNCHANGED <<deployment, plan>>, NEW n \in Node, NEW storage \in Storage,
           Write(n, storage), storage.owner = ledger[n].owner
    PROVE  IInv'
BY WriteStep DEF IInv, Honest

(* What runs is registered.                                                 *)
LEMMA RunsOffered ==
    ASSUME IInv, NEW n \in Node, NEW s \in Runs(n, "offer")
    PROVE  s \in Offers(n)
<1>1. /\ Registered(n) \in Seq(Registration)
      /\ started[n] \in Nat /\ started[n] <= Len(Registered(n))
  BY DEF IInv, TypeOK, Registered, Deployment
<1>2. DOMAIN Registered(n) = 1 .. Len(Registered(n)) /\ Len(Registered(n)) \in Nat
  BY <1>1
<1>3. PICK i \in 1 .. started[n] : Registered(n)[i].kind = "offer" /\ s = Registered(n)[i].name
  BY DEF Runs
<1>4. i \in DOMAIN Registered(n)
  BY <1>1, <1>2
<1> QED
  BY <1>3, <1>4 DEF Offers, ToSet

LEMMA Announced ==
    ASSUME IInv, UNCHANGED <<deployment, plan>>, NEW n \in Node, NEW s \in Name,
           s \in Runs(n, "offer"), Write(n, [ledger[n] EXCEPT !.owner[s] = n])
    PROVE  IInv'
<1> DEFINE storage == [ledger[n] EXCEPT !.owner[s] = n]
<1>1. ledger[n] \in Storage
  BY DEF IInv, TypeOK
<1>2. storage \in Storage
  BY <1>1 DEF Storage
<1>3. s \in Offers(n)
  BY RunsOffered
<1>4. \A t \in Name : storage.owner[t] = IF t = s THEN n ELSE ledger[n].owner[t]
  BY <1>1 DEF Storage
<1>5. \A t \in Name : storage.owner[t] # None => t \in Offers(storage.owner[t])
  BY <1>3, <1>4 DEF IInv, Honest
<1> QED
  BY <1>2, <1>5, WriteStep

LEMMA StoreStep ==
    ASSUME IInv, UNCHANGED <<deployment, plan>>, NEW n \in Node,
           \/ \E m \in Node : Gossip(n, m)
           \/ \E s \in Name : ExposeService(n, s) \/ ShareFile(n, s)
           \/ ConnectService(n) \/ ReceiveFile(n) \/ ProxyService(n) \/ EgressService(n)
    PROVE  IInv'
<1>0. ledger \in [Node -> Storage] /\ ledger[n] \in Storage
  BY DEF IInv, TypeOK
<1>1. ASSUME NEW m \in Node, Gossip(n, m) PROVE IInv'
  <2>1. ledger' = [ledger EXCEPT ![n] = ledger[m]] /\ UNCHANGED <<started, call>>
    BY <1>1 DEF Gossip
  <2>2. ledger' \in [Node -> Storage]
    BY <1>0, <2>1
  <2>3. \A o \in Node : ledger'[o] = ledger[IF o = n THEN m ELSE o]
    BY <1>0, <2>1
  <2> QED
    BY <2>1, <2>2, <2>3, LedgerStep DEF IInv, Honest
<1>2. ASSUME NEW s \in Name, ExposeService(n, s) \/ ShareFile(n, s) PROVE IInv'
  BY <1>2, Announced DEF ExposeService, ShareFile
<1>3. CASE ConnectService(n) \/ ReceiveFile(n) \/ ProxyService(n)
  <2>1. Write(n, [ledger[n] EXCEPT !.users = @ \cup {n}])
    BY <1>3 DEF ConnectService, ReceiveFile, ProxyService, NewUser
  <2>2. /\ [ledger[n] EXCEPT !.users = @ \cup {n}] \in Storage
        /\ [ledger[n] EXCEPT !.users = @ \cup {n}].owner = ledger[n].owner
    BY <1>0 DEF Storage
  <2> QED
    BY <2>1, <2>2, OtherWrite
<1>4. CASE EgressService(n)
  <2>1. Write(n, [ledger[n] EXCEPT !.egress = @ \cup {n}])
    BY <1>4 DEF EgressService
  <2>2. /\ [ledger[n] EXCEPT !.egress = @ \cup {n}] \in Storage
        /\ [ledger[n] EXCEPT !.egress = @ \cup {n}].owner = ledger[n].owner
    BY <1>0 DEF Storage
  <2> QED
    BY <2>1, <2>2, OtherWrite
<1> QED
  BY <1>1, <1>2, <1>3, <1>4

LEMMA Started ==
    ASSUME IInv, UNCHANGED <<deployment, plan>>, NEW n \in Node, StartNext(n)
    PROVE  IInv'
<1>1. started' = [started EXCEPT ![n] = @ + 1] /\ UNCHANGED <<ledger, call>>
  BY DEF StartNext, ledgerVars
<1>2. started[n] < Len(Registered(n)) /\ Registered(n) \in Seq(Registration)
  BY DEF StartNext, IInv, TypeOK, Registered, Deployment
<1>3. Len(Registered(n)) \in Nat
  BY <1>2
<1>4. started' \in [Node -> Nat] /\ \A m \in Node : started'[m] <= Len(Registered(m))
  BY <1>1, <1>2, <1>3 DEF IInv, TypeOK
<1>5. TypeOK'
  BY <1>1, <1>4, SameNetwork DEF IInv, TypeOK
<1>6. Honest' /\ Reached'
  <2>1. Reached'
    BY <1>1, Elsewhere DEF Reached
  <2>2. \A m \in Node, s \in Name : ledger[m].owner[s] \in Node \cup {None}
    BY DEF IInv, TypeOK, Storage
  <2> QED
    BY <1>1, <2>1, <2>2, SameNetwork DEF IInv, Honest
<1> QED
  BY <1>5, <1>6 DEF IInv
-----------------------------------------------------------------------------
(* Calls *)

LEMMA CallStep ==
    ASSUME IInv, UNCHANGED <<deployment, plan, started, ledger>>, NEW c \in Call,
           NEW s \in CallState, call' = [call EXCEPT ![c] = s],
           (WellChosen(c) /\ WellServed(c))'
    PROVE  IInv'
<1>1. call \in [Call -> CallState]
  BY DEF IInv, TypeOK
<1>2. call' \in [Call -> CallState]
  BY <1>1
<1>3. TypeOK'
  BY <1>2, SameNetwork DEF IInv, TypeOK
<1>4. \A d \in Call \ {c} : call'[d] = call[d]
  BY <1>1
<1>5. Reached'
  BY <1>4, Elsewhere DEF Reached
<1>6. Honest'
  <2>1. \A m \in Node, t \in Name : ledger[m].owner[t] \in Node \cup {None}
    BY DEF IInv, TypeOK, Storage
  <2> QED
    BY <2>1, SameNetwork DEF IInv, Honest
<1> QED
  BY <1>3, <1>5, <1>6 DEF IInv

(* A call that neither turns to another peer nor is served anew.            *)
LEMMA KeptCall ==
    ASSUME IInv, UNCHANGED <<deployment, plan, started, ledger>>, NEW c \in Call,
           NEW s \in CallState, call' = [call EXCEPT ![c] = s],
           s.to = call[c].to, s.dest = call[c].dest,
           \/ s.at \in {call[c].at, "create", "open", "over"}
           \/ call[c].at = "ready" /\ s.at = "found",
           s.serve = call[c].serve \/ (call[c].serve # "none" /\ s.serve # "none")
    PROVE  IInv'
<1>1. call'[c] = s
  BY DEF IInv, TypeOK
<1>2. WellChosen(c) /\ WellServed(c)
  BY DEF IInv, Reached
<1>3. \A n \in Node : Offers(n)' = Offers(n) /\ Handles(c, n)' = Handles(c, n)
  BY SameNetwork
<1>4. Wants(c)' = Wants(c) /\ IsProxied(c)' = IsProxied(c)
  BY SameNetwork
<1>5. call'[c].to = call[c].to
  BY <1>1
<1>6. WellChosen(c)'
  <2>1. SUFFICES ASSUME s.at = "chosen", ~ IsProxied(c)
                 PROVE  (call[c].to \in Node /\ Wants(c) \in Name \cap Offers(call[c].to))'
    BY <1>1, <1>4 DEF WellChosen
  <2>2. call[c].to \in Node /\ Wants(c) \in Name \cap Offers(call[c].to)
    BY <1>2, <2>1 DEF WellChosen
  <2> QED
    BY <1>3, <1>4, <1>5, <2>2
<1>7. WellServed(c)'
  <2>1. s.at \in {"ready", "found", "chosen"} => s.serve = "none"
    BY <1>2 DEF WellServed
  <2>2. s.serve # "none" => call[c].to \in Node /\ Wants(c) \in Name \cap Offers(call[c].to)
    BY <1>2 DEF WellServed
  <2>3. s.serve # "none" => (call[c].to \in Node /\ Wants(c) \in Name \cap Offers(call[c].to))'
    BY <1>3, <1>4, <1>5, <2>2
  <2>4. s.dest # None => /\ call[c].serve # "none" /\ call[c].to \in Node
                         /\ s.dest = Handles(c, call[c].to)
    BY <1>2 DEF WellServed
  <2>5. s.dest # None => s.serve # "none" /\ (call[c].dest = Handles(c, call[c].to))'
    BY <1>1, <1>3, <1>5, <2>4
  <2> QED
    BY <1>1, <2>1, <2>3, <2>5 DEF WellServed
<1> QED
  BY <1>6, <1>7, CallStep

(* A call turns to a peer, or to nobody, before its stream is there.        *)
LEMMA Turned ==
    ASSUME IInv, UNCHANGED <<deployment, plan, started, ledger>>, NEW c \in Call,
           NEW s \in CallState, call' = [call EXCEPT ![c] = s],
           s.dest = call[c].dest, s.serve = call[c].serve, call[c].serve = "none",
           s.at = "chosen" /\ ~ IsProxied(c) =>
               s.to \in Node /\ Wants(c) \in Name \cap Offers(s.to)
    PROVE  IInv'
<1>1. call'[c] = s
  BY DEF IInv, TypeOK
<1>2. s.dest = None
  BY DEF IInv, Reached, WellServed
<1>3. WellServed(c)'
  BY <1>1, <1>2 DEF WellServed
<1>4. WellChosen(c)'
  <2>1. SUFFICES ASSUME s.at = "chosen", ~ IsProxied(c)
                 PROVE  (call[c].to \in Node /\ Wants(c) \in Name \cap Offers(call[c].to))'
    BY <1>1, SameNetwork DEF WellChosen
  <2>2. \A n \in Node : Offers(n)' = Offers(n)
    BY SameNetwork
  <2>3. Wants(c)' = Wants(c) /\ call'[c].to = s.to
    BY <1>1, SameNetwork
  <2> QED
    BY <2>1, <2>2, <2>3
<1> QED
  BY <1>3, <1>4, CallStep

LEMMA CallerSteps ==
    ASSUME IInv, UNCHANGED <<deployment, plan>>, NEW c \in Call,
           \/ CallerStep(c) \/ NewStreamFails(c) \/ CreateFails(c) \/ Reset(c)
    PROVE  IInv'
<1> DEFINE s == call[c]
<1>0. s \in CallState /\ Caller(c) \in Node /\ Wants(c) \in Name \cup {Egress, None}
  BY DEF IInv, TypeOK, Deployment, Caller, Wants
<1>1. WellChosen(c) /\ WellServed(c)
  BY DEF IInv, Reached
<1>2. Wants(c) \in Name /\ Owner(c) # None => Owner(c) \in Node /\ Wants(c) \in Offers(Owner(c))
  BY <1>0 DEF IInv, TypeOK, Storage, Honest, Owner
<1>3. IsFile(c) => Wants(c) \in Name
  BY ServicesAssumption DEF IsFile
<1> USE DEF Becomes, ledgerVars
<1>4. ASSUME Look(c) \/ ChooseFile(c) PROVE IInv'
  <2> DEFINE chosen == [s EXCEPT !.at = "chosen", !.to = Owner(c)]
  <2>1. Wants(c) \in Name /\ s.serve = "none"
    BY <1>1, <1>3, <1>4 DEF Look, ChooseFile, WellServed
  <2>2. UNCHANGED <<started, ledger>>
    BY <1>4 DEF Look, ChooseFile
  <2>3. CASE Owner(c) = None
    <3>1. \/ call' = [call EXCEPT ![c] = [s EXCEPT !.at = "over", !.closed = @ \cup {"conn"}]]
          \/ call' = [call EXCEPT ![c] = [s EXCEPT !.at = "over"]]
      BY <1>4, <2>3 DEF Look, ChooseFile
    <3>2. /\ [s EXCEPT !.at = "over", !.closed = @ \cup {"conn"}] \in CallState
          /\ [s EXCEPT !.at = "over"] \in CallState
      BY <1>0 DEF CallState, End
    <3> QED
      BY <1>0, <2>2, <3>1, <3>2, KeptCall DEF CallState
  <2>4. CASE Owner(c) # None
    <3>1. call' = [call EXCEPT ![c] = chosen]
      BY <1>4, <2>4 DEF Look, ChooseFile
    <3>2. chosen \in CallState /\ chosen.to = Owner(c)
      BY <1>0, <1>2, <2>1, <2>4 DEF CallState
    <3>3. chosen.dest = s.dest /\ chosen.serve = s.serve
      BY <1>0 DEF CallState
    <3>4. chosen.to \in Node /\ Wants(c) \in Name \cap Offers(chosen.to)
      BY <1>2, <2>1, <2>4, <3>2
    <3> HIDE DEF chosen
    <3> QED
      BY <2>1, <2>2, <3>1, <3>2, <3>3, <3>4, Turned
  <2> QED
    BY <2>3, <2>4
<1>5. ASSUME FindFile(c) PROVE IInv'
  <2>1. /\ call' = [call EXCEPT ![c] = [s EXCEPT !.at = "found"]]
        /\ UNCHANGED <<started, ledger>> /\ s.at = "ready"
    BY <1>5 DEF FindFile
  <2>2. [s EXCEPT !.at = "found"] \in CallState
    BY <1>0 DEF CallState
  <2> QED
    BY <1>0, <2>1, <2>2, KeptCall DEF CallState
<1>6. ASSUME ReadEgress(c) PROVE IInv'
  <2> DEFINE read == [s EXCEPT !.at = "found", !.egress = ledger[Caller(c)].egress]
  <2>1. /\ call' = [call EXCEPT ![c] = read]
        /\ UNCHANGED <<started, ledger>> /\ s.at = "ready"
    BY <1>6 DEF ReadEgress
  <2>2. ledger[Caller(c)].egress \in SUBSET Node
    BY <1>0 DEF IInv, TypeOK, Storage
  <2>3. read \in CallState
    BY <1>0, <2>2 DEF CallState
  <2> QED
    BY <1>0, <2>1, <2>3, KeptCall DEF CallState
<1>7. ASSUME ChooseEgress(c) PROVE IInv'
  <2>1. IsProxied(c) /\ s.at = "found" /\ s.serve = "none"
    BY <1>1, <1>7 DEF ChooseEgress, WellServed
  <2>2. PICK nodes \in AvailableNodes(Caller(c)) :
          LET available == s.egress \cap nodes
              done == [s EXCEPT !.egress = {}]
          IN  IF Cardinality(available) < 2
              THEN Becomes(c, [done EXCEPT !.at = "over", !.closed = @ \cup {"conn"}])
              ELSE \E n \in available : Becomes(c, [done EXCEPT !.at = "chosen", !.to = n])
    BY <1>7 DEF ChooseEgress
  <2> DEFINE done == [s EXCEPT !.egress = {}]
             over == [done EXCEPT !.at = "over", !.closed = @ \cup {"conn"}]
  <2>3. done \in CallState /\ done.dest = s.dest /\ done.serve = s.serve /\ done.to = s.to
    BY <1>0 DEF CallState
  <2>4. CASE Becomes(c, over)
    <3>1. over \in CallState /\ over.dest = s.dest /\ over.serve = s.serve
          /\ over.to = s.to /\ over.at = "over"
      <4> HIDE DEF done
      <4> QED
        BY <2>3 DEF CallState, End
    <3> HIDE DEF over
    <3> QED
      BY <2>4, <3>1, KeptCall
  <2>5. ASSUME NEW n \in s.egress, Becomes(c, [done EXCEPT !.at = "chosen", !.to = n])
        PROVE  IInv'
    <3> DEFINE chosen == [done EXCEPT !.at = "chosen", !.to = n]
    <3>1. n \in Node
      BY <1>0 DEF CallState
    <3>2. chosen \in CallState /\ chosen.dest = s.dest /\ chosen.serve = s.serve
      <4> HIDE DEF done
      <4> QED
        BY <2>3, <3>1 DEF CallState
    <3>3. call' = [call EXCEPT ![c] = chosen] /\ UNCHANGED <<started, ledger>>
      BY <2>5
    <3> HIDE DEF chosen
    <3> QED
      BY <2>1, <3>2, <3>3, Turned
  <2> HIDE DEF Becomes, done, over
  <2> QED
    BY <2>2, <2>4, <2>5 DEF done, over
<1>8. ASSUME NewStream(c) PROVE IInv'
  <2>1. s.at = "chosen" /\ ~ IsProxied(c)
    BY <1>8 DEF NewStream, Reachable
  <2>2. s.to \in Node /\ Wants(c) \in Name \cap Offers(s.to) /\ s.dest = None
    BY <1>1, <2>1 DEF WellChosen, WellServed
  <2> DEFINE state == IF IsFile(c)
                      THEN [s EXCEPT !.at = "create", !.serve = "new"]
                      ELSE [s EXCEPT !.at = "open", !.serve = "new", !.copying = {"up", "down"}]
  <2>3. call' = [call EXCEPT ![c] = state] /\ UNCHANGED <<started, ledger>>
    BY <1>8 DEF NewStream
  <2>4. /\ state \in CallState /\ state.to = s.to /\ state.dest = None
        /\ state.serve = "new" /\ state.at \in {"create", "open"}
    BY <1>0, <2>2 DEF CallState, Copier
  <2> HIDE DEF state
  <2>5. call'[c] = state
    BY <2>3 DEF IInv, TypeOK
  <2>6. (call[c].to \in Node /\ Wants(c) \in Name \cap Offers(call[c].to))'
    <3>1. \A n \in Node : Offers(n)' = Offers(n)
      BY SameNetwork
    <3>2. Wants(c)' = Wants(c) /\ call'[c].to = s.to
      BY <2>4, <2>5, SameNetwork
    <3> QED
      BY <2>2, <3>1, <3>2
  <2>7. WellServed(c)' /\ WellChosen(c)'
    BY <2>4, <2>5, <2>6 DEF WellServed, WellChosen
  <2> QED
    BY <2>3, <2>4, <2>7, CallStep
<1>9. ASSUME NewStreamFails(c) PROVE IInv'
  <2>1. s.at = "chosen" /\ s.serve = "none" /\ UNCHANGED <<started, ledger>>
    BY <1>1, <1>9 DEF NewStreamFails, WellServed
  <2>2. CASE IsFile(c)
    <3> DEFINE again == [s EXCEPT !.at = "ready", !.to = None]
    <3>1. call' = [call EXCEPT ![c] = again]
      BY <1>9, <2>2 DEF NewStreamFails
    <3>2. /\ again \in CallState /\ again.dest = s.dest /\ again.serve = s.serve
          /\ again.at = "ready"
      BY <1>0 DEF CallState
    <3> HIDE DEF again
    <3> QED
      BY <2>1, <3>1, <3>2, Turned
  <2>3. CASE ~ IsFile(c)
    <3>1. call' = [call EXCEPT ![c] = [s EXCEPT !.at = "over", !.closed = @ \cup {"conn"}]]
      BY <1>9, <2>3 DEF NewStreamFails
    <3>2. [s EXCEPT !.at = "over", !.closed = @ \cup {"conn"}] \in CallState
      BY <1>0 DEF CallState, End
    <3> QED
      BY <1>0, <2>1, <3>1, <3>2, KeptCall DEF CallState
  <2> QED
    BY <2>2, <2>3
<1>10. ASSUME ProxyFails(c) \/ CreateFile(c) \/ CreateFails(c) \/ Reset(c) PROVE IInv'
  <2>1. UNCHANGED <<started, ledger>>
    BY <1>10 DEF ProxyFails, CreateFile, CreateFails, Reset
  <2> DEFINE refused == [s EXCEPT !.at = "over", !.closed = @ \cup {"conn"}]
             created == [s EXCEPT !.at = "open", !.copying = @ \cup {"down"}]
             over == [s EXCEPT !.at = "over"]
             cut == [s EXCEPT !.reset = TRUE]
             Kept(t) == /\ t \in CallState /\ t.to = s.to /\ t.dest = s.dest
                        /\ t.at \in {s.at, "open", "over"} /\ t.serve = s.serve
  <2>2. \/ call' = [call EXCEPT ![c] = refused]
        \/ call' = [call EXCEPT ![c] = created]
        \/ call' = [call EXCEPT ![c] = over]
        \/ call' = [call EXCEPT ![c] = cut]
    BY <1>10 DEF ProxyFails, CreateFile, CreateFails, Reset
  <2>3. Kept(refused)
    BY <1>0 DEF CallState, End
  <2>4. Kept(created)
    BY <1>0 DEF CallState, Copier
  <2>5. Kept(over) /\ Kept(cut)
    BY <1>0 DEF CallState
  <2>6. ASSUME NEW t, Kept(t), call' = [call EXCEPT ![c] = t] PROVE IInv'
    BY <2>1, <2>6, KeptCall
  <2> HIDE DEF Kept, refused, created, over, cut
  <2> QED
    BY <2>2, <2>3, <2>4, <2>5, <2>6
<1> QED
  BY <1>4, <1>5, <1>6, <1>7, <1>8, <1>9, <1>10 DEF CallerStep

LEMMA PeerSteps ==
    ASSUME IInv, UNCHANGED <<deployment, plan>>, NEW c \in Call,
           PeerStep(c) \/ DialFails(c) \/ OpenFails(c)
    PROVE  IInv'
<1> DEFINE s == call[c]
<1>0. s \in CallState
  BY DEF IInv, TypeOK
<1>1. WellChosen(c) /\ WellServed(c)
  BY DEF IInv, Reached
<1> USE DEF Becomes, ledgerVars
<1>2. ASSUME CheckService(c) \/ CheckFile(c) \/ DialFails(c) \/ OpenFails(c) PROVE IInv'
  <2>1. UNCHANGED <<started, ledger>> /\ s.serve # "none"
    BY <1>2 DEF CheckService, CheckFile, Checked, DialFails, OpenFails
  <2> DEFINE known == [s EXCEPT !.serve = "known"]
             refused == [s EXCEPT !.serve = "over", !.reset = TRUE]
             over == [s EXCEPT !.serve = "over"]
             Kept(t) == /\ t \in CallState /\ t.to = s.to /\ t.dest = s.dest
                        /\ t.at = s.at /\ t.serve # "none"
  <2>2. \/ call' = [call EXCEPT ![c] = known]
        \/ call' = [call EXCEPT ![c] = refused]
        \/ call' = [call EXCEPT ![c] = over]
    BY <1>2 DEF CheckService, CheckFile, Checked, DialFails, OpenFails
  <2>3. Kept(known) /\ Kept(refused) /\ Kept(over)
    BY <1>0 DEF CallState
  <2>4. ASSUME NEW t, Kept(t), call' = [call EXCEPT ![c] = t] PROVE IInv'
    BY <2>1, <2>4, KeptCall
  <2> HIDE DEF Kept, known, refused, over
  <2> QED
    BY <2>2, <2>3, <2>4
<1>3. ASSUME Serve(c) PROVE IInv'
  <2>1. s.serve = "known" /\ UNCHANGED <<started, ledger>>
    BY <1>3 DEF Serve
  <2>2. s.to \in Node /\ Wants(c) \in Name \cap Offers(s.to)
        /\ s.at \notin {"ready", "found", "chosen"}
    BY <1>1, <2>1 DEF WellServed
  <2>3. Handles(c, s.to) \in Name \cup {None}
    <3>1. deployment \in Deployment
      BY DEF IInv, TypeOK
    <3>2. Handles(c, s.to) # None => Handles(c, s.to) \in File \cup (Name \ File)
      BY <2>2, <3>1, LastIsOffered DEF Handles
    <3> QED
      BY <3>2, ServicesAssumption
  <2> DEFINE state == [s EXCEPT !.serve = "open", !.dest = Handles(c, s.to),
                        !.copying = @ \cup (IF IsFile(c) THEN {"farDown"} ELSE {"farUp", "farDown"})]
  <2>4. call' = [call EXCEPT ![c] = state]
    BY <1>3 DEF Serve
  <2>5. /\ state \in CallState /\ state.to = s.to /\ state.at = s.at
        /\ state.serve = "open" /\ state.dest = Handles(c, s.to)
    BY <1>0, <2>3 DEF CallState, Copier
  <2> HIDE DEF state
  <2>6. call'[c] = state
    BY <2>4 DEF IInv, TypeOK
  <2>7. /\ (call[c].to \in Node /\ Wants(c) \in Name \cap Offers(call[c].to))'
        /\ (call[c].dest = Handles(c, call[c].to))'
    <3>1. \A n \in Node : Offers(n)' = Offers(n) /\ Handles(c, n)' = Handles(c, n)
      BY SameNetwork
    <3>2. Wants(c)' = Wants(c) /\ call'[c].to = s.to /\ call'[c].dest = Handles(c, s.to)
      BY <2>5, <2>6, SameNetwork
    <3> QED
      BY <2>2, <3>1, <3>2
  <2>8. WellServed(c)' /\ WellChosen(c)'
    BY <2>2, <2>5, <2>6, <2>7 DEF WellServed, WellChosen
  <2> QED
    BY <2>1, <2>4, <2>5, <2>8, CallStep
<1> QED
  BY <1>2, <1>3 DEF PeerStep

LEMMA CloseSteps ==
    ASSUME IInv, UNCHANGED <<deployment, plan>>, NEW c \in Call,
           \/ CloseStep(c)
           \/ \E g \in Copier : Stall(c, g) \/ WriteFails(c, g)
           \/ \E e \in End : HangUp(c, e)
    PROVE  IInv'
<1> DEFINE s == call[c]
<1>0. s \in CallState
  BY DEF IInv, TypeOK
<1> USE DEF Becomes, ledgerVars
<1>1. ASSUME NEW g \in Copier, CopyEnds(c, g) \/ WriteFails(c, g) PROVE IInv'
  <2>1. call' = [call EXCEPT ![c] = Signalled(s, g)] /\ UNCHANGED <<started, ledger>>
    BY <1>1 DEF CopyEnds, WriteFails
  <2>2. s.signals + 1 \in Int /\ s.farSignals + 1 \in Int
    BY <1>0 DEF CallState
  <2>3. \A i \in Int :
            /\ [s EXCEPT !.copying = @ \ {g}, !.stalled = @ \ {g}, !.signals = i] \in CallState
            /\ [s EXCEPT !.copying = @ \ {g}, !.stalled = @ \ {g}, !.farSignals = i] \in CallState
    BY <1>0 DEF CallState
  <2>4. Signalled(s, g) \in CallState
    BY <2>2, <2>3 DEF Signalled
  <2>5. /\ Signalled(s, g).to = s.to /\ Signalled(s, g).dest = s.dest
        /\ Signalled(s, g).at = s.at /\ Signalled(s, g).serve = s.serve
    BY <1>0 DEF CallState, Signalled
  <2> QED
    BY <2>1, <2>4, <2>5, KeptCall
<1>2. ASSUME CloseNear(c) \/ CloseFar(c) PROVE IInv'
  <2> DEFINE near == [s EXCEPT !.at = "over", !.signals = @ - 1,
                       !.closed = @ \cup {"near", "conn"}]
             far == [s EXCEPT !.serve = "over", !.farSignals = @ - 1,
                      !.closed = @ \cup {"far", "out"}]
  <2>1. CASE CloseNear(c)
    <3>1. call' = [call EXCEPT ![c] = near] /\ UNCHANGED <<started, ledger>>
      BY <2>1 DEF CloseNear
    <3>2. \A i \in Int : [s EXCEPT !.at = "over", !.signals = i,
                          !.closed = @ \cup {"near", "conn"}] \in CallState
      BY <1>0 DEF CallState, End
    <3>3. s.signals - 1 \in Int
      BY <1>0 DEF CallState
    <3>4. near.to = s.to /\ near.dest = s.dest /\ near.at = "over" /\ near.serve = s.serve
      BY <1>0 DEF CallState
    <3>5. near \in CallState
      BY <3>2, <3>3
    <3> HIDE DEF near
    <3> QED
      BY <3>1, <3>4, <3>5, KeptCall
  <2>2. CASE CloseFar(c)
    <3>1. call' = [call EXCEPT ![c] = far] /\ UNCHANGED <<started, ledger>> /\ s.serve = "open"
      BY <2>2 DEF CloseFar
    <3>2. \A i \in Int : [s EXCEPT !.serve = "over", !.farSignals = i,
                          !.closed = @ \cup {"far", "out"}] \in CallState
      BY <1>0 DEF CallState, End
    <3>3. s.farSignals - 1 \in Int
      BY <1>0 DEF CallState
    <3>4. far.to = s.to /\ far.dest = s.dest /\ far.at = s.at /\ far.serve = "over"
      BY <1>0 DEF CallState
    <3>5. far \in CallState
      BY <3>2, <3>3
    <3> HIDE DEF far
    <3> QED
      BY <3>1, <3>4, <3>5, KeptCall
  <2> QED
    BY <1>2, <2>1, <2>2
<1>3. ASSUME SendFile(c) PROVE IInv'
  <2> DEFINE sent == [s EXCEPT !.serve = "over", !.copying = @ \ {"farDown"},
                       !.closed = @ \cup {"far", "out"}]
  <2>1. call' = [call EXCEPT ![c] = sent] /\ UNCHANGED <<started, ledger>> /\ s.serve = "open"
    BY <1>3 DEF SendFile
  <2>2. sent \in CallState /\ sent.to = s.to /\ sent.dest = s.dest
        /\ sent.at = s.at /\ sent.serve = "over"
    BY <1>0 DEF CallState, End
  <2> HIDE DEF sent
  <2> QED
    BY <2>1, <2>2, KeptCall
<1>4. ASSUME SaveFile(c) PROVE IInv'
  <2> DEFINE saved == [s EXCEPT !.at = "over", !.copying = @ \ {"down"}]
  <2>1. call' = [call EXCEPT ![c] = saved] /\ UNCHANGED <<started, ledger>>
    BY <1>4 DEF SaveFile
  <2>2. saved \in CallState /\ saved.to = s.to /\ saved.dest = s.dest
        /\ saved.at = "over" /\ saved.serve = s.serve
    BY <1>0 DEF CallState
  <2> HIDE DEF saved
  <2> QED
    BY <2>1, <2>2, KeptCall
<1>5. ASSUME NEW e \in End, HangUp(c, e) PROVE IInv'
  <2> DEFINE left == [s EXCEPT !.hung = @ \cup {e}]
  <2>1. call' = [call EXCEPT ![c] = left] /\ UNCHANGED <<started, ledger>>
    BY <1>5 DEF HangUp
  <2>2. left \in CallState /\ left.to = s.to /\ left.dest = s.dest
        /\ left.at = s.at /\ left.serve = s.serve
    BY <1>0 DEF CallState
  <2> HIDE DEF left
  <2> QED
    BY <2>1, <2>2, KeptCall
<1>6. ASSUME NEW g \in Copier, Stall(c, g) PROVE IInv'
  <2> DEFINE stuck == [s EXCEPT !.stalled = @ \cup {g}]
  <2>1. call' = [call EXCEPT ![c] = stuck] /\ UNCHANGED <<started, ledger>>
    BY <1>6 DEF Stall
  <2>2. /\ stuck \in CallState /\ stuck.to = s.to /\ stuck.dest = s.dest
        /\ stuck.at = s.at /\ stuck.serve = s.serve
    BY <1>0 DEF CallState
  <2> HIDE DEF stuck
  <2> QED
    BY <2>1, <2>2, KeptCall
<1> QED
  BY <1>1, <1>2, <1>3, <1>4, <1>5, <1>6 DEF CloseStep

-----------------------------------------------------------------------------
(* Roles *)

LEMMA RoleSteps ==
    ASSUME IInv, UNCHANGED <<deployment, plan>>, Api \/ \E n \in Node : ServiceNode(n)
    PROVE  IInv'
<1>0. ledger \in [Node -> Storage] /\ plan \in Plan
  BY DEF IInv, TypeOK
<1>1. ASSUME NEW r \in plan.sets, Set(r[1], r[2], r[3]) PROVE IInv'
  <2>0. r[1] \in Node /\ r[2] \in Node /\ r[3] \in Role
    BY <1>0 DEF Plan
  <2>1. r[1] \in Node /\ ledger[r[1]] \in Storage
    BY <1>0, <2>0
  <2>2. Write(r[1], [ledger[r[1]] EXCEPT !.role[r[2]] = r[3]])
    BY <1>1 DEF Set
  <2>3. /\ [ledger[r[1]] EXCEPT !.role[r[2]] = r[3]] \in Storage
        /\ [ledger[r[1]] EXCEPT !.role[r[2]] = r[3]].owner = ledger[r[1]].owner
    BY <2>0, <2>1 DEF Storage
  <2> QED
    BY <2>1, <2>2, <2>3, OtherWrite
<1>2. ASSUME NEW m \in plan.cleans, Clean(m) PROVE IInv'
  <2>1. m \in Node /\ ledger[m] \in Storage
    BY <1>0 DEF Plan
  <2>2. /\ [ledger[m] EXCEPT !.role = NoRoles] \in Storage
        /\ [ledger[m] EXCEPT !.role = NoRoles].owner = ledger[m].owner
    BY <2>1 DEF Storage, NoRoles
  <2> QED
    BY <1>2, <2>1, <2>2, OtherWrite DEF Clean
<1>3. ASSUME NEW n \in Node, Beat(n) \/ Scrub(n) \/ Advertize(n) PROVE IInv'
  <2>1. ledger[n] \in Storage
    BY <1>0
  <2>2. /\ [ledger[n] EXCEPT !.alive = @ \cup {n}] \in Storage
        /\ [ledger[n] EXCEPT !.alive = @ \cup {n}].owner = ledger[n].owner
        /\ [ledger[n] EXCEPT !.alive = {}] \in Storage
        /\ [ledger[n] EXCEPT !.alive = {}].owner = ledger[n].owner
    BY <2>1 DEF Storage
  <2> QED
    BY <1>3, <2>1, <2>2, OtherWrite DEF Beat, Scrub, Advertize
<1>4. ASSUME UNCHANGED <<started, ledger, call>> PROVE IInv'
  <2>1. \A m \in Node, s \in Name : ledger[m].owner[s] \in Node \cup {None}
    BY <1>0 DEF Storage
  <2> QED
    BY <1>0, <1>4, <2>1, LedgerStep DEF IInv, Honest
<1>5. ASSUME NEW r \in plan.sets, SetEnds(r[1], r[2], r[3]) PROVE IInv'
  BY <1>4, <1>5 DEF SetEnds, ledgerVars
<1>6. ASSUME NEW m \in plan.cleans, CleanEnds(m) PROVE IInv'
  BY <1>4, <1>6 DEF CleanEnds, ledgerVars
<1>7. ASSUME NEW n \in Node,
             Start(n) \/ CountNodes(n) \/ CountFails(n) \/ GetRole(n) \/ GetFails(n)
      PROVE  IInv'
  BY <1>4, <1>7
     DEF Start, CountNodes, CountFails, Count, GetRole, GetFails, Goes, ledgerVars
<1> QED
  BY <1>1, <1>2, <1>3, <1>5, <1>6, <1>7 DEF Api, ServiceNode

LEMMA Inductive == IInv /\ [RolesNext]_<<vars, roleVars>> => IInv'
<1> SUFFICES ASSUME IInv, [RolesNext]_<<vars, roleVars>> PROVE IInv'
  OBVIOUS
<1>1. CASE Next /\ UNCHANGED roleVars
  <2>1. UNCHANGED <<deployment, plan>> /\ Step
    BY <1>1 DEF Next, roleVars
  <2> QED
    BY <2>1, StoreStep, Started, CallerSteps, PeerSteps, CloseSteps DEF Step
<1>2. CASE (Api \/ \E n \in Node : ServiceNode(n)) /\ UNCHANGED <<deployment, plan>>
  BY <1>2, RoleSteps
<1>3. CASE UNCHANGED <<vars, roleVars>>
  <2>1. UNCHANGED <<deployment, plan, started, ledger, call>>
    BY <1>3 DEF vars, ledgerVars, roleVars
  <2> QED
    BY <2>1, LedgerStep DEF IInv, TypeOK, Honest
<1> QED
  BY <1>1, <1>2, <1>3 DEF RolesNext

-----------------------------------------------------------------------------

(* However many nodes offer a name, however old the ledger a caller looks   *)
(* in and whatever its peer does meanwhile, what handleStream or the        *)
(* handler of ShareFile connects a call to is what the call asked for, as   *)
(* long as no node registers two services, or two files, whose handlers     *)
(* share a protocol.                                                        *)
THEOREM WantedIsServed == RolesSpec => []RightService
<1>1. IInv => RightService
  <2> SUFFICES ASSUME IInv, \A n \in Node : Plain(n), NEW c \in Call, call[c].dest # None
               PROVE  call[c].dest = Wants(c)
    BY DEF RightService
  <2>1. /\ call[c].dest = Handles(c, call[c].to) /\ call[c].to \in Node
        /\ Wants(c) \in Name \cap Offers(call[c].to)
    BY DEF IInv, Reached, WellServed
  <2>2. deployment \in Deployment
    BY DEF IInv, TypeOK
  <2> QED
    BY <2>1, <2>2, HandlesWhatIsWanted
<1> QED
  BY <1>1, Initially, Inductive, PTL DEF RolesSpec
=============================================================================
