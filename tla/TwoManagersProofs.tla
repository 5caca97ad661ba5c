-------------------------- MODULE TwoManagersProofs --------------------------
(***************************************************************************)
(* Two processes: every lemma about one holds of the second as well, with  *)
(* its variables, and neither is disturbed by what the other writes.       *)
(***************************************************************************)
EXTENDS TwoManagers, AdcsOperatorRefinement

Two == INSTANCE AdcsOperatorRefinement WITH
    crCache <- crCache2, arCache <- arCache2, crQueue <- crQueue2, arQueue <- arQueue2,
    crTimer <- crTimer2, arTimer <- arTimer2, crPc <- crPc2, crKey <- crKey2, crObj <-
    crObj2, arPc <- arPc2, arKey <- arKey2, arObj <- arObj2, arId <- arId2, arCert <-
    arCert2, arCr <- arCr2

(* The lemmas about one process, of the second. *)
LEMMA SecondMoves ==
    Two!ProcessInv /\ [Two!Next]_(Two!vars) => Two!ProcessInv' /\ Two!Cooperates
BY Two!ProcessNext, NamesAssumption, BoundsAssumption, ControllerAssumption, SubmissionsAssumption,
   UsersAssumption DEF IssuerRef, Two!IssuerRef

LEMMA SecondRests ==
    ASSUME Two!ProcessInv, Two!Cooperates, Two!SharedInv', UNCHANGED Two!Memory
    PROVE  Two!ProcessInv'
BY Two!ProcessRests, NamesAssumption, BoundsAssumption, ControllerAssumption, SubmissionsAssumption,
   UsersAssumption DEF IssuerRef, Two!IssuerRef

LEMMA SecondStarts ==
    ASSUME Two!SharedInv, crCache2 = crs, arCache2 = ars, Two!CrWorkInit, Two!ArWorkInit,
           crTimer2 = {}, arTimer2 = {}, crQueue2 \subseteq Names, arQueue2 \subseteq Names
    PROVE  Two!ProcessInv
BY Two!ProcessStarts, NamesAssumption, BoundsAssumption, ControllerAssumption, SubmissionsAssumption,
   UsersAssumption DEF IssuerRef, Two!IssuerRef

LEMMA SecondShares == Two!ProcessInv => Two!SharedInv
BY Two!SharedPart, NamesAssumption, BoundsAssumption, ControllerAssumption, SubmissionsAssumption,
   UsersAssumption DEF IssuerRef, Two!IssuerRef

LEMMA SecondKeepsAnswers ==
    ASSUME Two!ProcessInv, Two!CrWorker, NEW n \in Names, Two!Decided(crs[n])
    PROVE  crs'[n] = crs[n]
BY Two!AnswerStays, NamesAssumption, BoundsAssumption, ControllerAssumption, SubmissionsAssumption,
   UsersAssumption DEF IssuerRef, Two!IssuerRef, Two!ProcessInv

LEMMA SecondKeepsLifecycle ==
    ASSUME Two!ProcessInv, [Two!Next]_(Two!vars)
    PROVE  [Two!Lifecycle!Next]_(Two!request)
BY Two!LifecycleStep, NamesAssumption, BoundsAssumption, ControllerAssumption, SubmissionsAssumption,
   UsersAssumption DEF IssuerRef, Two!IssuerRef, Two!ProcessInv
-----------------------------------------------------------------------------
(* What the two instances of one module say of the same variables is the same. *)
LEMMA SameShared == Two!SharedInv <=> SharedInv
BY DEF Two!SharedInv, SharedInv, Two!CertificateRequest, CertificateRequest, Two!AdcsRequest, AdcsRequest,
   Two!IssuerRef, IssuerRef, Two!ReadyReason, ReadyReason, Two!State, State, Two!AdcsTypeOK, AdcsTypeOK,
   Two!Submission, Submission, Two!IdIsKnown, IdIsKnown, Two!IdNone, IdNone, Two!WellFormed, WellFormed

LEMMA SameCooperation == Two!Cooperates <=> Cooperates
BY DEF Two!Cooperates, Cooperates, Two!CrsCounted, CrsCounted, Two!ArsCounted, ArsCounted,
   Two!Counted, Counted

LEMMA SameLifecycle == [Two!Lifecycle!Next]_(Two!request) <=> [Lifecycle!Next]_request
BY DEF Two!request, request, Two!Lifecycle!Next, Lifecycle!Next, Two!Lifecycle!Create, Lifecycle!Create,
   Two!Lifecycle!Accept, Lifecycle!Accept, Two!Lifecycle!Conclude, Lifecycle!Conclude,
   Two!Lifecycle!Remove, Lifecycle!Remove, Two!Lifecycle!Become, Lifecycle!Become,
   Two!Lifecycle!Absent, Lifecycle!Absent, Two!Lifecycle!Fresh, Lifecycle!Fresh,
   Two!Lifecycle!FinalState, Lifecycle!FinalState, Two!IdNone, IdNone

LEMMA SameInvariants ==
    /\ Second!CopiesAreHonest <=> Two!CopiesAreHonest
    /\ Second!IdsAreKnown <=> Two!IdsAreKnown
BY DEF Second!CopiesAreHonest, Two!CopiesAreHonest, Second!Honest, Two!Honest, Second!SpecOf, Two!SpecOf,
   Second!IdsAreKnown, Two!IdsAreKnown, Second!IdIsKnown, Two!IdIsKnown, Second!IdNone, Two!IdNone

LEMMA SameCluster == Second!Cluster <=> Two!Cluster
BY DEF Second!Cluster, Two!Cluster, Second!Others, Two!Others,
   Second!crWork, Two!crWork, Second!arWork, Two!arWork,
   Second!crVars, Two!crVars, Second!arVars, Two!arVars, Second!storeVars, Two!storeVars,
   Second!SyncCr, Two!SyncCr, Second!SyncAr, Two!SyncAr, Second!CrTimerFires, Two!CrTimerFires,
   Second!ArTimerFires, Two!ArTimerFires, Second!Synced, Two!Synced, Second!Resync, Two!Resync,
   Second!GarbageCollect, Two!GarbageCollect, Second!DeletedAr, Two!DeletedAr, Second!NoAr, Two!NoAr

LEMMA SameCrWorker == Second!CrWorker <=> Two!CrWorker
BY DEF Second!CrWorker, Two!CrWorker, Second!CrStep, Two!CrStep, Second!arWork, Two!arWork,
   Second!CrCalls, Two!CrCalls, Second!CrTake, Two!CrTake, Second!CrDeny, Two!CrDeny,
   Second!CrLookup, Two!CrLookup, Second!CrDelete, Two!CrDelete, Second!CrCreate, Two!CrCreate,
   Second!CrSetPending, Two!CrSetPending, Second!Ignored, Two!Ignored,
   Second!GetCertificateRequest, Two!GetCertificateRequest, Second!crWork, Two!crWork,
   Second!arVars, Two!arVars, Second!CrSetStatus, Two!CrSetStatus, Second!RequestDiffers,
   Two!RequestDiffers, Second!CrDone, Two!CrDone, Second!CrGoto, Two!CrGoto, Second!kubeVars,
   Two!kubeVars, Second!DeletedAr, Two!DeletedAr, Second!Fault, Two!Fault, Second!crVars,
   Two!crVars, Second!CanCreate, Two!CanCreate, Second!Created, Two!Created, Second!CrFail,
   Two!CrFail, Second!Decided, Two!Decided, Second!UpdateCr, Two!UpdateCr, Second!NoCr, Two!NoCr,
   Second!NoAr, Two!NoAr, Second!NewAr, Two!NewAr, Second!Current, Two!Current, Second!WrittenCr,
   Two!WrittenCr, Second!Written, Two!Written

LEMMA SameArWorker == Second!ArWorker <=> Two!ArWorker
BY DEF Second!ArWorker, Two!ArWorker, Second!ArStep, Two!ArStep, Second!crWork, Two!crWork,
   Second!ArCalls, Two!ArCalls, Second!ArTake, Two!ArTake, Second!ArGetIssuer, Two!ArGetIssuer,
   Second!ArSubmit, Two!ArSubmit, Second!ArFetch, Two!ArFetch, Second!ArChain, Two!ArChain,
   Second!ArGetCr, Two!ArGetCr, Second!ArSetCr, Two!ArSetCr, Second!ArSetAr, Two!ArSetAr,
   Second!arWork, Two!arWork, Second!crVars, Two!crVars, Second!IssueStart, Two!IssueStart,
   Second!ArRetry, Two!ArRetry, Second!SubmissionFails, Two!SubmissionFails, Second!Submit,
   Two!Submit, Second!SubmissionAnswers, Two!SubmissionAnswers, Second!Posted, Two!Posted,
   Second!Fault, Two!Fault, Second!FaultReplies, Two!FaultReplies, Second!Fetched, Two!Fetched,
   Second!DispositionPage, Two!DispositionPage, Second!GetCertificateRequest,
   Two!GetCertificateRequest, Second!WithOutcome, Two!WithOutcome, Second!UpdateCr, Two!UpdateCr,
   Second!CrSet, Two!CrSet, Second!NotSet, Two!NotSet, Second!UpdateAr, Two!UpdateAr,
   Second!Saved, Two!Saved, Second!ArDone, Two!ArDone, Second!Accepts, Two!Accepts,
   Second!HtmlPage, Two!HtmlPage, Second!CertificatePage, Two!CertificatePage,
   Second!AnsweredAtOnce, Two!AnsweredAtOnce, Second!Issued, Two!Issued, Second!IdNone,
   Two!IdNone, Second!CertId, Two!CertId, Second!NoReply, Two!NoReply, Second!ServerError,
   Two!ServerError, Second!GetExistingCertificate, Two!GetExistingCertificate, Second!Current,
   Two!Current, Second!WrittenCr, Two!WrittenCr, Second!NoCr, Two!NoCr, Second!WrittenAr,
   Two!WrittenAr, Second!Finished, Two!Finished, Second!NoAr, Two!NoAr, Second!Served, Two!Served,
   Second!Disposition, Two!Disposition, Second!Classified, Two!Classified, Second!Obtained,
   Two!Obtained, Second!Failed, Two!Failed, Second!Written, Two!Written

LEMMA SameBeginning ==
    /\ Second!CrWorkInit <=> Two!CrWorkInit
    /\ Second!ArWorkInit <=> Two!ArWorkInit
BY DEF Second!CrWorkInit, Two!CrWorkInit, Second!ArWorkInit, Two!ArWorkInit, Second!NoCr, Two!NoCr,
   Second!NoAr, Two!NoAr
-----------------------------------------------------------------------------
(***************************************************************************)
(* The invariant of both: each process keeps its own, whoever moves.       *)
(***************************************************************************)
BothInv == ProcessInv /\ Two!ProcessInv

(* The requests that the processes find are approved ones, with what is left of a process before. *)
LEMMA TwoBegin == TwoInit => SharedInv
<1> SUFFICES ASSUME TwoInit PROVE SharedInv
  OBVIOUS
<1>1. \A csr \in Csrs : ApprovedCr(NoCr, csr, "adcs") \in CertificateRequest
  <2> SUFFICES ASSUME NEW csr \in Csrs PROVE ApprovedCr(NoCr, csr, "adcs") \in CertificateRequest
    OBVIOUS
  <2>1. NewCr(NoCr, csr, "adcs") \in CertificateRequest
    BY CrTypes DEF IssuerRef
  <2>2. [NewCr(NoCr, csr, "adcs") EXCEPT !.approved = TRUE] \in CertificateRequest
    BY <2>1, CrField
  <2>3. NewCr(NoCr, csr, "adcs").rev + 1 \in Nat
    BY <2>1 DEF CertificateRequest
  <2>4. QED
    BY <2>2, <2>3, CrField DEF ApprovedCr
<1>2. Approved({"adcs"}) \subseteq [Names -> CertificateRequest]
  BY <1>1 DEF Approved
<1>3. HandedOver \subseteq [Names -> CertificateRequest]
  <2>1. \A cr \in CertificateRequest :
          [cr EXCEPT !.ready = "Processing", !.rev = @ + 1] \in CertificateRequest
    <3> SUFFICES ASSUME NEW cr \in CertificateRequest
                 PROVE  [cr EXCEPT !.ready = "Processing", !.rev = @ + 1] \in CertificateRequest
      OBVIOUS
    <3>1. [cr EXCEPT !.ready = "Processing"] \in CertificateRequest
      BY CrField DEF ReadyReason
    <3>2. cr.rev + 1 \in Nat
      BY DEF CertificateRequest
    <3>3. QED
      BY <3>1, <3>2, CrField
  <2>2. QED
    BY <1>2, <2>1 DEF HandedOver
<1>4. /\ NoAr \in AdcsRequest /\ IdIsKnown(NoAr) /\ WellFormed(NoAr)
      /\ \A csr \in Csrs : LET ar == NewAr(NoAr, First(csr)) IN
           ar \in AdcsRequest /\ IdIsKnown(ar) /\ WellFormed(ar)
  BY <1>1, ArTypes DEF First, NewAr, NoAr, IdIsKnown, WellFormed
<1>5. /\ ars \in [Names -> AdcsRequest]
      /\ \A n \in Names : IdIsKnown(ars[n]) /\ WellFormed(ars[n])
  <2>1. CASE ars \in NoAdcsRequests
    BY <1>4, <2>1 DEF NoAdcsRequests
  <2>2. CASE ars \in LeftOver
    <3>1. PICK csr \in Csrs : ars = [n \in Names |-> IF n = Used THEN NewAr(NoAr, First(csr)) ELSE NoAr]
      BY <2>2 DEF LeftOver, LeftOverOf
    <3> DEFINE ar == NewAr(NoAr, First(csr))
    <3>2. ar \in AdcsRequest /\ IdIsKnown(ar) /\ WellFormed(ar)
      BY <1>4
    <3> HIDE DEF ar
    <3>3. QED
      BY <1>4, <3>1, <3>2 DEF ar
  <2>3. QED
    BY <2>1, <2>2 DEF TwoInit, Found
<1>6. crs \in [Names -> CertificateRequest]
  BY <1>2, <1>3 DEF TwoInit, Found
<1>7. approvals \subseteq Names \X Nat \X (Csrs \cup {NoCsr})
  <2>1. approvals = {<<n, crs[n].uid, crs[n].csr>> : n \in {m \in Names : crs[m].live}}
                    \cup {<<n, ars[n].owner, ars[n].csr>> : n \in {m \in Names : ars[m].live}}
    BY DEF TwoInit, Found
  <2>2. \A n \in Names : crs[n].uid \in Nat /\ crs[n].csr \in Csrs \cup {NoCsr}
    BY <1>6 DEF CertificateRequest
  <2>3. \A n \in Names : ars[n].owner \in Nat /\ ars[n].csr \in Csrs \cup {NoCsr}
    BY <1>5 DEF AdcsRequest
  <2>4. QED
    BY <2>1, <2>2, <2>3
<1>8. faults \in 0..MaxFaults /\ issuerReady \in BOOLEAN /\ AdcsTypeOK(Names, Csrs \cup {NoCsr})
  <2>1. faults = 0 /\ issuerReady \in IssuerAtStart /\ adcs = <<>>
    BY DEF TwoInit, Found
  <2>2. QED
    BY <2>1, BoundsAssumption, UsersAssumption, SubmissionsAssumption DEF AdcsTypeOK
<1>9. QED
  BY <1>5, <1>6, <1>7, <1>8 DEF SharedInv

LEMMA BothStart == TwoInit => BothInv
<1> SUFFICES ASSUME TwoInit PROVE BothInv
  OBVIOUS
<1>1. SharedInv /\ Two!SharedInv
  BY TwoBegin, SameShared
<1>2. ProcessInv
  BY <1>1, ProcessStarts DEF TwoInit, Found
<1>3. crCache2 = crs /\ arCache2 = ars /\ crTimer2 = {} /\ arTimer2 = {}
      /\ crQueue2 \subseteq Names /\ arQueue2 \subseteq Names
  BY DEF TwoInit, Found
<1>4. Two!ProcessInv
  BY <1>1, <1>3, SecondStarts, SameBeginning DEF TwoInit
<1>5. QED
  BY <1>2, <1>4 DEF BothInv

(* A step of the second process is one of the instance whose lemmas are above. *)
LEMMA SecondStepsAre == SecondSteps => Two!Next /\ UNCHANGED process1
BY SameCluster, SameCrWorker, SameArWorker DEF SecondSteps, Two!Next

LEMMA BothNext ==
    ASSUME BothInv, [FirstSteps \/ SecondSteps]_allVars
    PROVE  BothInv'
<1>1. CASE FirstSteps \/ UNCHANGED allVars
  <2>1. [Next]_vars /\ UNCHANGED process2
    BY <1>1 DEF FirstSteps, allVars
  <2>2. ProcessInv' /\ Cooperates
    BY <2>1, ProcessNext DEF BothInv
  <2>3. Two!SharedInv' /\ Two!Cooperates
    BY <2>2, SharedPart, SameShared, SameCooperation, PTL
  <2>4. UNCHANGED Two!Memory
    BY <2>1 DEF process2, Two!Memory, Two!crWork, Two!arWork
  <2>5. QED
    BY <2>2, <2>3, <2>4, SecondRests DEF BothInv
<1>2. CASE SecondSteps
  <2>1. [Two!Next]_(Two!vars) /\ UNCHANGED process1
    BY <1>2, SecondStepsAre
  <2>2. Two!ProcessInv' /\ Two!Cooperates
    BY <2>1, SecondMoves DEF BothInv
  <2>3. SharedInv' /\ Cooperates
    BY <2>2, SecondShares, SameShared, SameCooperation, PTL
  <2>4. UNCHANGED Memory
    BY <2>1 DEF process1, Memory, crWork, arWork
  <2>5. QED
    BY <2>2, <2>3, <2>4, ProcessRests DEF BothInv
<1>3. QED
  BY <1>1, <1>2

LEMMA Both == TwoSpec => []BothInv
BY BothStart, BothNext, PTL DEF TwoSpec
-----------------------------------------------------------------------------
(***************************************************************************)
(* Neither process asks ADCS for an id that it did not give.               *)
(***************************************************************************)
THEOREM BothKnowTheirIds == TwoSpec => []BothIdsAreKnown
<1>1. BothInv => BothIdsAreKnown
  BY SameInvariants DEF BothInv, ProcessInv, TypeInv, Two!ProcessInv, Two!TypeInv, BothIdsAreKnown
<1>2. QED
  BY <1>1, Both, PTL

(***************************************************************************)
(* Versions protect two processes from each other as they protect one from *)
(* its own delays: no copy in either is ahead of the store, and one with   *)
(* the version of the stored object has its contents.                      *)
(***************************************************************************)
THEOREM BothCopies == TwoSpec => []BothCopiesAreHonest
<1>1. BothInv => BothCopiesAreHonest
  BY SameInvariants DEF BothInv, ProcessInv, Two!ProcessInv, BothCopiesAreHonest
<1>2. QED
  BY <1>1, Both, PTL

(***************************************************************************)
(* Neither CertificateRequest reconciler takes back an answer, whichever   *)
(* process it is from.                                                     *)
(***************************************************************************)
THEOREM AnswersStayWithBoth == TwoSpec => AnswersAreKeptByBoth
<1>1. ASSUME BothInv, NEW n \in Names, CrWorker \/ Second!CrWorker, Decided(crs[n])
      PROVE  crs'[n] = crs[n]
  <2>1. CASE CrWorker
    BY <1>1, <2>1, AnswerStays DEF BothInv, ProcessInv
  <2>2. CASE Second!CrWorker
    BY <1>1, <2>2, SecondKeepsAnswers, SameCrWorker DEF BothInv, Decided, Two!Decided
  <2>3. QED
    BY <1>1, <2>1, <2>2
<1>2. BothInv =>
        [\A n \in Names : (CrWorker \/ Second!CrWorker) /\ Decided(crs[n]) => crs'[n] = crs[n]]_allVars
  BY <1>1
<1>3. QED
  BY <1>2, Both, PTL DEF AnswersAreKeptByBoth

(***************************************************************************)
(* Readers of the API see the documented lifecycle although two processes  *)
(* may submit the same request: the slower one's update is refused.        *)
(***************************************************************************)
THEOREM LifecycleIsShared == TwoSpec => SharedLifecycle
<1>1. ASSUME BothInv, [FirstSteps \/ SecondSteps]_allVars PROVE [Lifecycle!Next]_request
  <2>1. CASE FirstSteps \/ UNCHANGED allVars
    <3>1. [Next]_vars
      BY <2>1 DEF FirstSteps, allVars
    <3>2. QED
      BY <1>1, <3>1, LifecycleStep DEF BothInv, ProcessInv
  <2>2. CASE SecondSteps
    <3>1. [Two!Next]_(Two!vars)
      BY <2>2, SecondStepsAre
    <3>2. QED
      BY <1>1, <3>1, SecondKeepsLifecycle, SameLifecycle DEF BothInv
  <2>3. QED
    BY <1>1, <2>1, <2>2
<1>2. QED
  BY <1>1, Both, PTL DEF TwoSpec, SharedLifecycle
=============================================================================
