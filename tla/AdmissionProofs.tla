--------------------------- MODULE AdmissionProofs ---------------------------
(***************************************************************************)
(* Proofs about module Admission for any number of requests, addresses and *)
(* accounts and any limits: the type invariant, and that the rate          *)
(* limiter's counts are exact and within the cap.                          *)
(***************************************************************************)
EXTENDS Admission, FiniteSetTheorems, TLAPS

\* The handlers of an address that hold a slot are finitely many.
LEMMA HoldersFinite ==
    ASSUME NEW ip
    PROVE  IsFiniteSet(Holders(ip)) /\ Cardinality(Holders(ip)) \in Nat
  BY AdmissionAssumption, FS_Subset, FS_CardinalityType DEF Holders

\* Whatever the headers hold, a request is counted under some address.
LEMMA ResolvedAddress ==
    ASSUME NEW r \in Reqs
    PROVE  resolveClientIP(r) \in Addresses
  <1>1. \A v \in Addresses : remoteIPAddress(v) \in Addresses
    BY AdmissionAssumption DEF remoteIPAddress, canonicalIPAddress
  <1>2. CASE Len(Header[r]) = 1 /\ canonicalIPAddress(Header[r][1]) # invalid
    <2>1. Header[r] \in Seq(Addresses)
      BY AdmissionAssumption
    <2>2. Header[r][1] \in Addresses
      BY <1>2, <2>1
    <2>3. canonicalIPAddress(Header[r][1]) \in Addresses
      BY <1>2, <2>2, AdmissionAssumption DEF canonicalIPAddress
    <2> QED BY <1>1, <2>3, AdmissionAssumption DEF resolveClientIP
  <1>3. CASE ~(Len(Header[r]) = 1 /\ canonicalIPAddress(Header[r][1]) # invalid)
    BY <1>1, <1>3, AdmissionAssumption DEF resolveClientIP
  <1> QED BY <1>2, <1>3

\* It is the same address when the handler releases its slot.
LEMMA ResolvedOnce ==
    ASSUME UNCHANGED serverVars
    PROVE  \A r \in Reqs : resolveClientIP(r)' = resolveClientIP(r)
  BY DEF serverVars, resolveClientIP, remoteIPAddress, canonicalIPAddress

\* A handler that moves between two phases that both hold a slot, or that both
\* do not, changes no address's holders.
LEMMA StayCounted ==
    ASSUME TypeOK, NEW r \in Reqs, NEW phase, Goto(r, phase),
           pc[r] \in Holding <=> phase \in Holding,
           UNCHANGED <<serverVars, counts>>, SlotsAccounted
    PROVE  SlotsAccounted'
  <1>1. \A ip \in Addresses : Holders(ip)' = Holders(ip)
    BY ResolvedOnce DEF TypeOK, Goto, Holders
  <1> QED BY <1>1 DEF SlotsAccounted

\* A handler that takes a slot below the cap adds one to its address.
LEMMA TakeSlot ==
    ASSUME TypeOK, NEW r \in Reqs, NEW phase \in Holding, Goto(r, phase),
           pc[r] \notin Holding, UNCHANGED serverVars, counts[resolveClientIP(r)] < MaxPerIP,
           counts' = [counts EXCEPT ![resolveClientIP(r)] = @ + 1], SlotsAccounted
    PROVE  SlotsAccounted'
  <1> SUFFICES ASSUME NEW ip \in Addresses
               PROVE  /\ counts'[ip] = Cardinality(Holders(ip)')
                      /\ Cardinality(Holders(ip)') <= MaxPerIP
    BY DEF SlotsAccounted
  <1>1. counts[ip] = Cardinality(Holders(ip)) /\ Cardinality(Holders(ip)) <= MaxPerIP
    BY DEF SlotsAccounted
  <1>2. resolveClientIP(r) \in Addresses /\ MaxPerIP \in Nat /\ counts \in [Addresses -> 0 .. MaxPerIP]
    BY AdmissionAssumption, ResolvedAddress DEF TypeOK
  <1>3. CASE ip = resolveClientIP(r)
    <2>1. Holders(ip)' = Holders(ip) \cup {r} /\ r \notin Holders(ip)
      BY <1>3, ResolvedOnce DEF TypeOK, Goto, Holders
    <2>2. Cardinality(Holders(ip)') = Cardinality(Holders(ip)) + 1
      BY <2>1, HoldersFinite, FS_AddElement
    <2>3. counts'[ip] = counts[ip] + 1 /\ counts[ip] < MaxPerIP
      BY <1>2, <1>3
    <2> QED BY <1>1, <1>2, <2>2, <2>3, HoldersFinite
  <1>4. CASE ip # resolveClientIP(r)
    <2>1. Holders(ip)' = Holders(ip)
      BY <1>4, ResolvedOnce DEF TypeOK, Goto, Holders
    <2>2. counts'[ip] = counts[ip]
      BY <1>2, <1>4
    <2> QED BY <1>1, <2>1, <2>2
  <1> QED BY <1>3, <1>4

\* A handler that gives up its slot takes one from its address.
LEMMA GiveSlot ==
    ASSUME TypeOK, NEW r \in Reqs, Goto(r, "done"), pc[r] \in Holding, UNCHANGED serverVars,
           ReleaseConnection(resolveClientIP(r)), SlotsAccounted
    PROVE  SlotsAccounted'
  <1> SUFFICES ASSUME NEW ip \in Addresses
               PROVE  /\ counts'[ip] = Cardinality(Holders(ip)')
                      /\ Cardinality(Holders(ip)') <= MaxPerIP
    BY DEF SlotsAccounted
  <1>1. counts[ip] = Cardinality(Holders(ip)) /\ Cardinality(Holders(ip)) <= MaxPerIP
    BY DEF SlotsAccounted
  <1>2. resolveClientIP(r) \in Addresses /\ MaxPerIP \in Nat /\ counts \in [Addresses -> 0 .. MaxPerIP]
    BY AdmissionAssumption, ResolvedAddress DEF TypeOK
  <1>3. CASE ip = resolveClientIP(r)
    <2>1. Holders(ip)' = Holders(ip) \ {r} /\ r \in Holders(ip)
      BY <1>3, ResolvedOnce DEF TypeOK, Goto, Holders, Holding
    <2>2. Cardinality(Holders(ip)') = Cardinality(Holders(ip)) - 1
      BY <2>1, HoldersFinite, FS_RemoveElement
    <2>3. Cardinality(Holders(ip)) >= 1
      BY <2>1, HoldersFinite, FS_EmptySet
    <2>4. counts'[ip] = IF counts[ip] <= 1 THEN 0 ELSE counts[ip] - 1
      BY <1>2, <1>3 DEF ReleaseConnection
    <2> QED BY <1>1, <1>2, <2>2, <2>3, <2>4, HoldersFinite
  <1>4. CASE ip # resolveClientIP(r)
    <2>1. Holders(ip)' = Holders(ip)
      BY <1>4, ResolvedOnce DEF TypeOK, Goto, Holders
    <2>2. counts'[ip] = counts[ip]
      BY <1>2, <1>4 DEF ReleaseConnection
    <2> QED BY <1>1, <2>1, <2>2
  <1> QED BY <1>3, <1>4

\* One step of handleWebSocket keeps the types.
LEMMA TypeStep ==
    ASSUME TypeOK, [Next]_vars
    PROVE  TypeOK'
  <1> USE AdmissionAssumption DEF TypeOK, Phases, Goto, serverVars, limiterVars
  <1>1. ASSUME NEW r \in Reqs, ServerStep(r)
        PROVE  TypeOK'
    <2> DEFINE ip == resolveClientIP(r)
    <2>0. ip \in Addresses
      BY ResolvedAddress
    <2> HIDE DEF ip
    <2>1. CASE AllowConnection(r)
      <3>1. counts[ip] \in 0 .. MaxPerIP
        BY <2>0
      <3>2. CASE counts[ip] >= MaxPerIP
        <4>1. /\ rejectedConnections' = rejectedConnections + 1
              /\ pc' = [pc EXCEPT ![r] = "done"]
              /\ UNCHANGED <<jwtAuth, trustCFConnectingIP, counts, groups>>
          BY <2>1, <3>2 DEF AllowConnection, ip
        <4> QED BY <4>1
      <3>3. CASE ~(counts[ip] >= MaxPerIP)
        <4>1. /\ counts' = [counts EXCEPT ![ip] = @ + 1]
              /\ pc' = [pc EXCEPT ![r] = "allowed"]
              /\ UNCHANGED <<jwtAuth, trustCFConnectingIP, rejectedConnections, groups>>
          BY <2>1, <3>3 DEF AllowConnection, ip
        <4>2. counts[ip] + 1 \in 0 .. MaxPerIP
          BY <3>1, <3>3
        <4>3. counts' \in [Addresses -> 0 .. MaxPerIP]
          BY <2>0, <4>1, <4>2
        <4> QED BY <4>1, <4>3
      <3> QED BY <3>2, <3>3
    <2>2. CASE Accept(r) \/ AuthUnavailable(r) \/ AllowGroup(r) \/ RejectAuth(r)
      BY <2>2 DEF Accept, AuthUnavailable, AllowGroup, RejectAuth
    <2>3. CASE AcceptFails(r) \/ DeferredRelease(r)
      <3>1. ReleaseConnection(ip)
        BY <2>3 DEF AcceptFails, DeferredRelease, ip
      <3>2. counts' \in [Addresses -> 0 .. MaxPerIP] /\ rejectedConnections' \in Nat
        BY <2>0, <3>1 DEF ReleaseConnection
      <3> QED BY <2>3, <3>2 DEF AcceptFails, DeferredRelease
    <2>4. CASE GetOrCreateGroup(r)
      BY <2>4 DEF GetOrCreateGroup
    <2> QED BY <1>1, <2>1, <2>2, <2>3, <2>4 DEF ServerStep
  <1>2. ASSUME NEW r \in Reqs, Authenticate(r) \/ LeaveGroup(r)
        PROVE  TypeOK'
    BY <1>2 DEF Authenticate, LeaveGroup
  <1>3. CASE UNCHANGED vars
    BY <1>3 DEF vars
  <1> QED BY <1>1, <1>2, <1>3 DEF Next, Finished

\* One step of handleWebSocket keeps the counts exact.
LEMMA SlotsStep ==
    ASSUME TypeOK, SlotsAccounted, [Next]_vars
    PROVE  SlotsAccounted'
  <1>1. ASSUME NEW r \in Reqs, AllowConnection(r)
        PROVE  SlotsAccounted'
    <2>1. CASE counts[resolveClientIP(r)] >= MaxPerIP
      BY <1>1, <2>1, StayCounted DEF AllowConnection, Holding
    <2>2. CASE ~(counts[resolveClientIP(r)] >= MaxPerIP)
      <3>1. counts[resolveClientIP(r)] < MaxPerIP
        <4>1. counts[resolveClientIP(r)] \in 0 .. MaxPerIP
          BY ResolvedAddress DEF TypeOK
        <4> QED BY <2>2, <4>1, AdmissionAssumption
      <3> QED BY <1>1, <2>2, <3>1, TakeSlot DEF AllowConnection, Holding, limiterVars
    <2> QED BY <2>1, <2>2
  <1>2. ASSUME NEW r \in Reqs, AcceptFails(r) \/ DeferredRelease(r)
        PROVE  SlotsAccounted'
    BY <1>2, GiveSlot DEF AcceptFails, DeferredRelease, Holding
  <1>3. ASSUME NEW r \in Reqs, Accept(r) \/ AuthUnavailable(r) \/ AllowGroup(r) \/ RejectAuth(r)
        PROVE  SlotsAccounted'
    BY <1>3, StayCounted DEF Accept, AuthUnavailable, AllowGroup, RejectAuth, Holding, limiterVars
  <1>4. ASSUME NEW r \in Reqs, Authenticate(r) \/ GetOrCreateGroup(r) \/ LeaveGroup(r)
        PROVE  SlotsAccounted'
    BY <1>4, StayCounted DEF Authenticate, GetOrCreateGroup, LeaveGroup, Holding, limiterVars
  <1>5. CASE UNCHANGED vars
    BY <1>5, ResolvedOnce DEF vars, limiterVars, SlotsAccounted, Holders
  <1> QED BY <1>1, <1>2, <1>3, <1>4, <1>5 DEF Next, ServerStep, Finished

\* handleWebSocket keeps its types: in particular no count exceeds maxPerIP.
THEOREM TypeCorrect == Spec => []TypeOK
  <1>1. Init => TypeOK
    BY AdmissionAssumption DEF Init, TypeOK, Phases
  <1>2. TypeOK /\ [Next]_vars => TypeOK'
    BY TypeStep
  <1> QED BY <1>1, <1>2, PTL DEF Spec

\* The rate limiter's count of every address is the number of handlers that
\* hold one of its slots, and at most maxPerIP do (handler.go:104-124).
THEOREM SlotsCorrect == Spec => []SlotsAccounted
  <1>1. Init => SlotsAccounted
    <2> SUFFICES ASSUME Init, NEW ip \in Addresses
                 PROVE  /\ counts[ip] = Cardinality(Holders(ip))
                        /\ Cardinality(Holders(ip)) <= MaxPerIP
      BY DEF SlotsAccounted
    <2>1. Holders(ip) = {} /\ counts[ip] = 0
      BY DEF Init, Holders, Holding
    <2> QED BY <2>1, FS_EmptySet, AdmissionAssumption
  <1>2. TypeOK /\ SlotsAccounted /\ [Next]_vars => SlotsAccounted'
    BY SlotsStep
  <1> QED BY <1>1, <1>2, TypeCorrect, PTL DEF Spec

\* At most maxPerIP connections of one client are served at a time, however its
\* requests spell its address and whichever proxy they come through
\* (handler.go:54-93).
THEOREM ClientCapCorrect == Spec => []ClientCap
  <1>1. ASSUME SlotsAccounted, NEW ip \in Addresses
        PROVE  Cardinality({r \in Reqs : CameFrom(r, ip) /\ pc[r] \in Holding}) <= MaxPerIP
    <2> DEFINE served == {r \in Reqs : CameFrom(r, ip) /\ pc[r] \in Holding}
    <2>1. \A r \in Reqs : CameFrom(r, ip) => resolveClientIP(r) = ip
      BY AdmissionAssumption DEF CameFrom, resolveClientIP, remoteIPAddress, canonicalIPAddress
    <2>2. served \subseteq Holders(ip)
      BY <2>1 DEF Holders
    <2>3. Cardinality(served) <= Cardinality(Holders(ip)) /\ Cardinality(served) \in Nat
      BY <2>2, HoldersFinite, FS_Subset, FS_CardinalityType
    <2> HIDE DEF served
    <2>4. Cardinality(Holders(ip)) <= MaxPerIP /\ Cardinality(Holders(ip)) \in Nat
      BY <1>1, HoldersFinite DEF SlotsAccounted
    <2>5. Cardinality(served) <= MaxPerIP
      BY <2>3, <2>4, AdmissionAssumption
    <2> QED BY <2>5 DEF served
  <1>2. SlotsAccounted => ClientCap
    BY <1>1 DEF ClientCap
  <1> QED BY <1>2, SlotsCorrect, PTL
===============================================================================
