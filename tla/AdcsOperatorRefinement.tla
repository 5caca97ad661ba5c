----------------------- MODULE AdcsOperatorRefinement -----------------------
(***************************************************************************)
(* The operator keeps the lifecycle of AdcsRequestLifecycle: to a reader   *)
(* of the API every AdcsRequest goes from Unknown through Pending to one   *)
(* final state, and its id is set once.  Also, at the end, what a process  *)
(* keeps when another one uses the same API server and ADCS.               *)
(***************************************************************************)
EXTENDS AdcsOperatorCopies

(***************************************************************************)
(* The invariant behind it.  A stored AdcsRequest has an id from its first *)
(* answer on.  A worker that still holds the stored version is ahead of it *)
(* by at most one answer of ADCS; one that holds an older version may have *)
(* anything in memory, but it cannot write it.                             *)
(***************************************************************************)
WellFormed(ar) == (ar.state = "Unknown" <=> ar.id = 0) /\ (~ar.live => ar.state = "Unknown")

Same(s, o) == o.state = s.state /\ o.id = s.id
Ahead(s, o) ==
    \/ Same(s, o)
    \/ s.state = "Unknown" /\ o.state # "Unknown" /\ o.id # 0
    \/ s.state = "Pending" /\ o.state # "Unknown" /\ o.id = s.id

Reached(s, o) ==
    /\ arPc \in {"issuer", "submit", "fetch"} => Same(s, o)
    /\ arPc = "submit" => o.state = "Unknown"
    /\ arPc = "fetch" => o.state = "Unknown" \/ (o.state = "Pending" /\ arId = o.id)
    /\ Ahead(s, o)

StoreInv == \A n \in Names : WellFormed(ars[n]) /\ WellFormed(arCache[n])
WorkInv == arKey # NoName /\ arObj.rev = ars[arKey].rev => Reached(ars[arKey], arObj)
VerdictInv == StoreInv /\ WorkInv

LEMMA StoreNext ==
    ASSUME TypeInv, VerdictInv, [Next]_vars,
           \A n \in Names : arCache'[n] \in {arCache[n], ars'[n]}
    PROVE  StoreInv'
<1>1. ASSUME NEW n \in Names PROVE WellFormed(ars'[n])
  <2>1. CASE ars' = ars
    BY <2>1 DEF VerdictInv, StoreInv
  <2>2. CASE \E m \in Names : Deletes(m) \/ Creates(m)
    <3>1. \A m \in Names : ars[m] \in AdcsRequest
      BY DEF TypeInv, TypeOK, KubeTypeOK
    <3>2. PICK m \in Names : Deletes(m) \/ Creates(m)
      BY <2>2
    <3>3. ars'[n] = ars[n] \/ (ars'[n].state = "Unknown" /\ ars'[n].id = 0)
      <4>1. CASE Deletes(m)
        BY <3>1, <4>1, DeletedObject DEF Deletes, TypeInv, TypeOK, KubeTypeOK
      <4>2. CASE Creates(m)
        <5>1. PICK cr : ars' = [ars EXCEPT ![m] = NewAr(ars[m], cr)]
          BY <4>2 DEF Creates
        <5>2. NewAr(ars[m], cr).state = "Unknown" /\ NewAr(ars[m], cr).id = 0
          BY NewObject
        <5>3. QED
          BY <5>1, <5>2 DEF TypeInv, TypeOK, KubeTypeOK
      <4>3. QED
        BY <3>2, <4>1, <4>2
    <3>4. QED
      BY <3>3 DEF VerdictInv, StoreInv, WellFormed
  <2>3. CASE \E m \in Names : Writes(m)
    <3>1. arKey \in Names /\ ars[arKey] \in AdcsRequest /\ arObj \in AdcsRequest
      BY <2>3 DEF Writes, TypeInv, TypeOK, KubeTypeOK, ArWorkTypeOK
    <3> DEFINE w == WrittenAr(ars[arKey], arObj)
    <3>2. ars' = [ars EXCEPT ![arKey] = w] /\ Current(ars[arKey], arObj)
      BY <2>3 DEF Writes
    <3>3. w.live = ars[arKey].live /\ w.state = arObj.state /\ w.id = arObj.id
      BY <3>1, WrittenObject
    <3>4. ars[arKey].live /\ Ahead(ars[arKey], arObj)
      BY <3>1, <3>2, NamesAssumption DEF Current, VerdictInv, WorkInv, Reached
    <3>5. WellFormed(w)
      BY <3>1, <3>3, <3>4 DEF Ahead, Same, WellFormed, VerdictInv, StoreInv
    <3> HIDE DEF w
    <3>6. QED
      BY <3>1, <3>2, <3>5 DEF VerdictInv, StoreInv, TypeInv, TypeOK, KubeTypeOK
  <2>4. QED
    BY <2>1, <2>2, <2>3, StoreSteps
<1>2. QED
  BY <1>1 DEF VerdictInv, StoreInv

(***************************************************************************)
(* A worker that keeps its AdcsRequest has reached no more than before,    *)
(* unless it moves: whoever changes the stored object counts the version.  *)
(***************************************************************************)
LEMMA StillCurrent ==
    ASSUME TypeInv, CopiesAreHonest, ArsCounted, arKey # NoName,
           arObj'.rev = arObj.rev, arObj'.rev = ars'[arKey].rev
    PROVE  ars'[arKey] = ars[arKey] /\ arObj.rev = ars[arKey].rev
<1>1. arKey \in Names /\ arObj.rev \in Nat /\ ars[arKey].rev \in Nat
  BY Versions
<1>2. arObj.rev <= ars[arKey].rev
  BY DEF CopiesAreHonest, Honest, SpecOf
<1>3. QED
  BY <1>1, <1>2 DEF ArsCounted, Counted

LEMMA WorkStaysReached ==
    ASSUME TypeInv, CopiesAreHonest, WorkInv, ArsCounted, UNCHANGED arWork
    PROVE  WorkInv'
BY StillCurrent DEF WorkInv, arWork, Reached

LEMMA WorkOfWorker ==
    ASSUME TypeInv, CopiesAreHonest, VerdictInv, ArWorker
    PROVE  WorkInv'
<1> SUFFICES ASSUME arKey' # NoName, arObj'.rev = ars'[arKey'].rev
             PROVE  Reached(ars[arKey], arObj)'
  BY DEF WorkInv
<1>1. CASE \E n \in Names : ArTake(n)
  <2>1. PICK n \in Names : ArTake(n)
    BY <1>1
  <2>2. arPc' = "issuer" /\ arKey' = n /\ arObj' = arCache[n] /\ ars' = ars
    BY <2>1 DEF ArTake, arWork, TypeInv, TypeOK, ArWorkTypeOK
  <2>3. arCache[n] = ars[n]
    BY <2>2 DEF CopiesAreHonest, Honest
  <2>4. QED
    BY <2>2, <2>3 DEF Reached, Ahead, Same
<1>2. CASE ArCalls
  <2>1. /\ arKey' = arKey /\ arKey \in Names /\ arObj \in AdcsRequest /\ ~ArRetry /\ ~ArDone
        /\ Reached(ars[arKey], arObj) /\ ars'[arKey] = ars[arKey] /\ IdIsKnown(arObj)
    BY <1>2, CallsKeep, StillCurrent, ArWorkerCounts
       DEF VerdictInv, WorkInv, TypeInv, TypeOK, ArWorkTypeOK, IdsAreKnown
  <2> DEFINE s == ars[arKey]
  <2>2. SUFFICES Reached(s, arObj)'
    BY <2>1
  <2>3. CASE ArGetIssuer
    <3>1. /\ Same(s, arObj) /\ UNCHANGED arObj /\ arPc' = IssueStart(arObj)
          /\ arPc' = "fetch" => arId' = arObj.id
      BY <2>1, <2>3 DEF ArGetIssuer, Reached
    <3>2. QED
      BY <2>1, <3>1 DEF IssueStart, Reached, Ahead, Same
  <2>4. ASSUME NEW status \in {"Pending", "Ready", "Errored", "Rejected"}, NEW id, NEW cert,
               Issued(status, id, cert), id # 0, arObj.state = "Unknown" \/ id = arObj.id, Same(s, arObj),
               arObj.state \in {"Unknown", "Pending"}
        PROVE  Reached(s, arObj)'
    <3>1. arObj'.state = status /\ arObj'.id = id /\ arPc' = "chain"
      BY <2>1, <2>4 DEF Issued, AdcsRequest
    <3>2. QED
      BY <2>1, <2>4, <3>1 DEF Reached, Ahead, Same
  <2>5. CASE ArSubmit
    <3>1. arObj.state = "Unknown" /\ Same(s, arObj)
      BY <2>1, <2>5 DEF ArSubmit, Reached
    <3>2. \/ \E cert : Issued("Ready", IdNone, cert)
          \/ arPc' = "fetch" /\ UNCHANGED arObj
      BY <2>1, <2>5 DEF ArSubmit, SubmissionFails, Posted
    <3>3. QED
      BY <2>1, <2>4, <3>1, <3>2 DEF IdNone, Reached, Ahead, Same
  <2>6. CASE ArFetch
    <3>1. PICK reply : Fetched(reply)
      BY <2>6 DEF ArFetch
    <3> DEFINE res == GetExistingCertificate(reply, arId)
    <3>2. /\ res.status \in {"Pending", "Ready", "Errored", "Rejected"}
          /\ \E cert : Issued(res.status, arId, cert)
      BY <2>1, <3>1, FetchedResult DEF Fetched
    <3>3. /\ Same(s, arObj) /\ arId # 0
          /\ arObj.state = "Unknown" \/ (arObj.state = "Pending" /\ arId = arObj.id)
      BY <2>1, <2>6 DEF ArFetch, Reached, TypeInv, TypeOK, IdsAreKnown, AdcsTypeOK
    <3> HIDE DEF res
    <3>4. QED
      BY <2>4, <3>2, <3>3
  <2>7. CASE ArChain \/ ArGetCr \/ ArSetCr
    BY <2>1, <2>7 DEF ArChain, ArGetCr, ArSetCr, CrSet, NotSet, Reached, Ahead, Same
  <2>8. CASE ArSetAr
    BY <2>1, <2>8 DEF ArSetAr, Saved, Finished, ArRetry
  <2>9. QED
    BY <1>2, <2>3, <2>5, <2>6, <2>7, <2>8 DEF ArCalls
<1>3. QED
  BY <1>1, <1>2 DEF ArWorker, ArStep

LEMMA VerdictNext == TypeInv /\ CopiesAreHonest /\ VerdictInv /\ [Next]_vars => VerdictInv'
<1> SUFFICES ASSUME TypeInv, CopiesAreHonest, VerdictInv, [Next]_vars PROVE VerdictInv'
  OBVIOUS
<1>1. CASE ArWorker
  BY <1>1, StoreNext, ArWorkerCounts, WorkOfWorker DEF VerdictInv
<1>2. CASE Restart
  <2>1. \A n \in Names : arCache'[n] \in {arCache[n], ars'[n]}
    BY <1>2 DEF Restart, storeVars
  <2>2. QED
    BY <1>2, <2>1, StoreNext DEF Restart, ArDone, VerdictInv, WorkInv
<1>3. CASE User \/ Cluster \/ CrWorker \/ UNCHANGED vars \/ \E id \in DOMAIN adcs : AdcsDecides(id)
  <2>1. ArsCounted /\ UNCHANGED arWork /\ \A n \in Names : arCache'[n] \in {arCache[n], ars'[n]}
    <3>1. CASE User
      BY <3>1, UserCounts DEF ArsCounted, Counted
    <3>2. CASE Cluster \/ CrWorker
      BY <3>2, ClusterCounts, CrWorkerCounts
    <3>3. CASE UNCHANGED vars \/ \E id \in DOMAIN adcs : AdcsDecides(id)
      BY <3>3 DEF vars, kubeVars, AdcsDecides, ArsCounted, Counted
    <3>4. QED
      BY <1>3, <3>1, <3>2, <3>3
  <2>2. QED
    BY <2>1, StoreNext, WorkStaysReached DEF VerdictInv
<1>4. QED
  BY <1>1, <1>2, <1>3 DEF Next

(* What a record of the abstract state becomes when only its state changes. *)
LEMMA StateOfView ==
    ASSUME NEW live, NEW state, NEW id, NEW new
    PROVE  [[live |-> live, state |-> state, id |-> id] EXCEPT !.state = new]
             = [live |-> live, state |-> new, id |-> id]
OBVIOUS

(***************************************************************************)
(* Every step is a step of the lifecycle, or none.                         *)
(***************************************************************************)
LEMMA LifecycleStep ==
    ASSUME TypeInv, VerdictInv, [Next]_vars
    PROVE  [Lifecycle!Next]_request
<1>1. CASE ars' = ars
  BY <1>1 DEF request
<1>2. ASSUME NEW n \in Names, Deletes(n) \/ Creates(n) \/ Writes(n)
      PROVE  [Lifecycle!Next]_request
  <2> DEFINE view(ar) == [live |-> ar.live, state |-> ar.state, id |-> ar.id]
  <2>1. ars[n] \in AdcsRequest /\ arObj \in AdcsRequest /\ request[n] = view(ars[n])
    BY DEF TypeInv, TypeOK, KubeTypeOK, ArWorkTypeOK, request
  <2>2. ASSUME NEW x, ars' = [ars EXCEPT ![n] = x]
        PROVE  request' = [request EXCEPT ![n] = view(x)]
    BY <2>2 DEF request, TypeInv, TypeOK, KubeTypeOK
  <2>3. CASE Deletes(n)
    <3>1. view(DeletedAr(ars[n])) = Lifecycle!Absent
      BY DeletedObject DEF Lifecycle!Absent
    <3>2. request' = [request EXCEPT ![n] = Lifecycle!Absent]
      BY <2>2, <2>3, <3>1 DEF Deletes
    <3>3. request[n].live
      BY <2>1, <2>3 DEF Deletes
    <3>4. Lifecycle!Remove(n)
      BY <3>2, <3>3 DEF Lifecycle!Remove, Lifecycle!Become
    <3>5. QED
      BY <3>4 DEF Lifecycle!Next
  <2>4. CASE Creates(n)
    <3>1. PICK cr : ars' = [ars EXCEPT ![n] = NewAr(ars[n], cr)]
      BY <2>4 DEF Creates
    <3>2. view(NewAr(ars[n], cr)) = Lifecycle!Fresh
      BY NewObject DEF Lifecycle!Fresh
    <3>3. request[n] = Lifecycle!Absent
      <4>1. ars[n].live = FALSE /\ ars[n].state = "Unknown" /\ ars[n].id = 0
        BY <2>1, <2>4 DEF AdcsRequest, Creates, VerdictInv, StoreInv, WellFormed
      <4>2. QED
        BY <2>1, <4>1 DEF Lifecycle!Absent
    <3>4. Lifecycle!Create(n)
      BY <2>2, <3>1, <3>2, <3>3 DEF Lifecycle!Create, Lifecycle!Become
    <3>5. QED
      BY <3>4 DEF Lifecycle!Next
  <2>5. CASE Writes(n)
    <3>1. ars[n].live /\ Ahead(ars[n], arObj) /\ WellFormed(ars[n]) /\ IdIsKnown(arObj)
      BY <2>5, NamesAssumption DEF Writes, Current, VerdictInv, WorkInv, StoreInv, Reached,
         TypeInv, IdsAreKnown
    <3>2. view(WrittenAr(ars[n], arObj)) = [live |-> TRUE, state |-> arObj.state, id |-> arObj.id]
      <4>1. ars[n].live = TRUE
        BY <2>1, <3>1 DEF AdcsRequest
      <4>2. QED
        BY <2>1, <4>1, WrittenObject
    <3>3. request' = [request EXCEPT ![n] = [live |-> TRUE, state |-> arObj.state, id |-> arObj.id]]
      BY <2>2, <2>5, <3>2 DEF Writes
    <3>4. request[n] = [live |-> TRUE, state |-> ars[n].state, id |-> ars[n].id]
      BY <2>1, <3>1 DEF AdcsRequest
    <3>5. arObj.state \in State /\ arObj.id \in {0, IdNone} \cup 1..MaxSubmissions
      BY <2>1, <3>1, SubmissionsAssumption DEF AdcsRequest, IdIsKnown, TypeInv, TypeOK, AdcsTypeOK
    <3>6. CASE Same(ars[n], arObj)
      BY <3>3, <3>4, <3>6 DEF Same, request
    <3>7. CASE ars[n].state = "Unknown" /\ arObj.state # "Unknown" /\ arObj.id # 0
      <4>1. request[n] = Lifecycle!Fresh
        BY <3>1, <3>4, <3>7 DEF WellFormed, Lifecycle!Fresh
      <4>2. Lifecycle!Accept(n)
        BY <3>3, <3>5, <3>7, <4>1
           DEF State, Lifecycle!Accept, Lifecycle!Become, Lifecycle!FinalState
      <4>3. QED
        BY <4>2 DEF Lifecycle!Next
    <3>8. CASE /\ ars[n].state = "Pending" /\ arObj.state \notin {"Unknown", "Pending"}
               /\ arObj.id = ars[n].id
      <4>1. [request[n] EXCEPT !.state = arObj.state] = view(WrittenAr(ars[n], arObj))
        <5>1. [view(ars[n]) EXCEPT !.state = arObj.state]
                = [live |-> ars[n].live, state |-> arObj.state, id |-> ars[n].id]
          BY StateOfView
        <5>2. QED
          BY <2>1, <3>8, <5>1, WrittenObject
      <4>2. arObj.state \in Lifecycle!FinalState
        BY <3>5, <3>8 DEF State, Lifecycle!FinalState
      <4>3. request[n].live /\ request[n].state = "Pending"
        BY <3>4, <3>8
      <4>4. Lifecycle!Become(n, [request[n] EXCEPT !.state = arObj.state])
        BY <2>2, <2>5, <4>1 DEF Writes, Lifecycle!Become
      <4>5. Lifecycle!Conclude(n)
        BY <4>2, <4>3, <4>4 DEF Lifecycle!Conclude
      <4>6. QED
        BY <4>5 DEF Lifecycle!Next
    <3>9. QED
      BY <3>1, <3>6, <3>7, <3>8 DEF Ahead, Same
  <2>6. QED
    BY <1>2, <2>3, <2>4, <2>5
<1>3. QED
  BY <1>1, <1>2, StoreSteps

(***************************************************************************)
(* The operator implements the lifecycle: final states stay, and an id     *)
(* that is set is not changed, for any number of names, faults, restarts   *)
(* and lagging caches.                                                     *)
(***************************************************************************)
THEOREM ImplementsLifecycle == Spec => LifecycleSpec
<1>1. Init => VerdictInv
  BY DEF Init, KubeInit, ArWorkInit, VerdictInv, StoreInv, WorkInv, WellFormed, NoAr
<1>2. TypeInv /\ CopiesAreHonest /\ VerdictInv /\ [Next]_vars => VerdictInv'
  BY VerdictNext
<1>3. Init => Lifecycle!Init
  BY DEF Init, KubeInit, NoAr, request, Lifecycle!Init, Lifecycle!Absent
<1>4. TypeInv /\ VerdictInv /\ [Next]_vars => [Lifecycle!Next]_request
  BY LifecycleStep
<1>5. Spec => []TypeInv
  BY TypesAndIds, PTL DEF TypeInv
<1>6. QED
  BY <1>1, <1>2, <1>3, <1>4, <1>5, Copies, PTL DEF Spec, LifecycleSpec, Lifecycle!Spec
-----------------------------------------------------------------------------
(***************************************************************************)
(* One process among others that use the same API server and ADCS: what it *)
(* keeps in memory stays right when another one moves, since all that it   *)
(* needs of the others is that they count the versions they write, store   *)
(* what is well-formed, and take back no submission.                       *)
(***************************************************************************)
ProcessInv == TypeInv /\ CopiesAreHonest /\ UndecidedInv /\ VerdictInv

Memory == <<crCache, arCache, crQueue, arQueue, crTimer, arTimer, crWork, arWork>>

SharedInv ==
    /\ crs \in [Names -> CertificateRequest] /\ ars \in [Names -> AdcsRequest]
    /\ faults \in 0..MaxFaults /\ issuerReady \in BOOLEAN
    /\ AdcsTypeOK(Names, Csrs \cup {NoCsr})
    /\ approvals \subseteq Names \X Nat \X (Csrs \cup {NoCsr})
    /\ \A n \in Names : IdIsKnown(ars[n]) /\ WellFormed(ars[n])

Cooperates == CrsCounted /\ ArsCounted /\ DOMAIN adcs \subseteq DOMAIN adcs'

LEMMA SharedPart == ProcessInv => SharedInv
BY DEF ProcessInv, TypeInv, TypeOK, KubeTypeOK, ArWorkTypeOK, IdsAreKnown, VerdictInv, StoreInv, SharedInv

LEMMA SubmissionsStay == TypeInv /\ [Next]_vars => DOMAIN adcs \subseteq DOMAIN adcs'
<1> SUFFICES ASSUME TypeInv, [Next]_vars PROVE DOMAIN adcs \subseteq DOMAIN adcs'
  OBVIOUS
<1>1. CASE ArSubmit
  <2>1. adcs' = adcs \/ \E s : adcs' = Append(adcs, s)
    BY <1>1 DEF ArSubmit, SubmissionFails, Submit
  <2>2. DOMAIN adcs = 1..Len(adcs) /\ Len(adcs) \in Nat
    BY DEF TypeInv, TypeOK, AdcsTypeOK
  <2>3. ASSUME NEW s, adcs' = Append(adcs, s) PROVE DOMAIN adcs' = 1..(Len(adcs) + 1)
    BY <2>3 DEF TypeInv, TypeOK, AdcsTypeOK
  <2>4. QED
    BY <2>1, <2>2, <2>3
<1>2. CASE \E id \in DOMAIN adcs : AdcsDecides(id)
  BY <1>2 DEF AdcsDecides, Decide
<1>3. CASE ArWorker /\ ~ArSubmit
  BY <1>3 DEF ArWorker, ArStep, ArCalls, ArTake, ArGetIssuer, ArFetch, ArChain, ArGetCr, ArSetCr, ArSetAr
<1>4. CASE User \/ Cluster \/ CrWorker \/ Restart \/ UNCHANGED vars
  BY <1>4 DEF User, CreateRequest, Approve, Deny, DeleteRequest, StoreCr, ConfigureIssuer, BreakIssuer,
     Cluster, Others, CrWorker, Restart, vars
<1>5. QED
  BY <1>1, <1>2, <1>3, <1>4 DEF Next

LEMMA ProcessNext == ProcessInv /\ [Next]_vars => ProcessInv' /\ Cooperates
BY TypeNext, CopiesNext, UndecidedNext, VerdictNext, CopySteps, SubmissionsStay DEF ProcessInv, Cooperates

LEMMA ProcessRests ==
    ASSUME ProcessInv, Cooperates, SharedInv', UNCHANGED Memory
    PROVE  ProcessInv'
<1> USE DEF Memory, crWork, arWork
<1>1. \A ar : IdIsKnown(ar) => IdIsKnown(ar)'
  BY DEF IdIsKnown, Cooperates
<1>2. TypeInv'
  <2>1. KubeTypeOK' /\ CrWorkTypeOK' /\ ArWorkTypeOK'
    BY DEF ProcessInv, TypeInv, TypeOK, KubeTypeOK, CrWorkTypeOK, ArWorkTypeOK, SharedInv
  <2>2. \A n \in Names : IdIsKnown(ars[n])' /\ IdIsKnown(arCache[n])'
    BY DEF ProcessInv, TypeInv, IdsAreKnown, SharedInv, IdIsKnown, Cooperates
  <2>3. IdIsKnown(arObj)' /\ (arPc = "fetch" => arId \in DOMAIN adcs)'
    BY DEF ProcessInv, TypeInv, IdsAreKnown, IdIsKnown, Cooperates
  <2>4. QED
    BY <2>1, <2>2, <2>3 DEF TypeInv, TypeOK, IdsAreKnown, SharedInv
<1>3. CopiesAreHonest'
  BY CachesStay, WorkStays DEF ProcessInv, Cooperates, CopiesAreHonest
<1>4. StoreInv'
  BY DEF ProcessInv, VerdictInv, StoreInv, SharedInv, WellFormed
<1>5. WorkInv'
  BY WorkStaysReached DEF ProcessInv, VerdictInv, Cooperates
<1>6. UndecidedInv'
  BY DEF ProcessInv, UndecidedInv
<1>7. QED
  BY <1>2, <1>3, <1>4, <1>5, <1>6 DEF ProcessInv, VerdictInv

(* A process that starts with what is stored. *)
LEMMA ProcessStarts ==
    ASSUME SharedInv, crCache = crs, arCache = ars, CrWorkInit, ArWorkInit, crTimer = {}, arTimer = {},
           crQueue \subseteq Names, arQueue \subseteq Names
    PROVE  ProcessInv
<1>1. TypeInv
  <2>1. KubeTypeOK /\ CrWorkTypeOK /\ ArWorkTypeOK
    BY CrTypes, ArTypes DEF SharedInv, CrWorkInit, ArWorkInit, KubeTypeOK, CrWorkTypeOK, ArWorkTypeOK
  <2>2. IdsAreKnown
    BY DEF SharedInv, ArWorkInit, IdsAreKnown, IdIsKnown, NoAr
  <2>3. QED
    BY <2>1, <2>2 DEF TypeInv, TypeOK, SharedInv
<1>2. CopiesAreHonest
  <2>1. \A n \in Names : Honest(arCache[n], ars[n]) /\ Honest(crCache[n], crs[n])
    BY DEF SharedInv, Honest, CertificateRequest, AdcsRequest
  <2>2. QED
    BY <2>1 DEF CrWorkInit, ArWorkInit, CopiesAreHonest
<1>3. UndecidedInv /\ VerdictInv
  BY DEF SharedInv, CrWorkInit, ArWorkInit, UndecidedInv, VerdictInv, StoreInv, WorkInv
<1>4. QED
  BY <1>1, <1>2, <1>3 DEF ProcessInv
=============================================================================
