--------------------------- MODULE MCAdcsOperator ---------------------------
(***************************************************************************)
(* AdcsOperator on small instances.  The CSRs are interchangeable, except  *)
(* the refused ones.                                                       *)
(***************************************************************************)
EXTENDS AdcsOperator, TLC

CsrSymmetry == Permutations(Csrs)

(***************************************************************************)
(* What a restart finds: the stored objects, delivered and queued, with    *)
(* some of the faults that there may be already behind it.                 *)
(***************************************************************************)
Found(requests, adcsRequests, past) ==
    /\ crs \in requests /\ crCache = crs /\ crTimer = {}
    /\ crQueue = {n \in Names : crs[n].live}
    /\ ars \in adcsRequests /\ arCache = ars /\ arTimer = {}
    /\ arQueue = {n \in Names : ars[n].live}
    /\ faults = past /\ CrWorkInit /\ ArWorkInit
    /\ adcs = <<>> /\ issuerReady \in IssuerAtStart
    /\ approvals = {<<n, crs[n].uid, crs[n].csr>> : n \in {m \in Names : crs[m].live}}
                   \cup {<<n, ars[n].owner, ars[n].csr>> : n \in {m \in Names : ars[m].live}}

ApprovedCr(old, csr, ref) == [NewCr(old, csr, ref) EXCEPT !.approved = TRUE, !.rev = @ + 1]
First(csr) == ApprovedCr(NoCr, csr, "adcs")
NoAdcsRequests == {[n \in Names |-> NoAr]}

(* Approved requests, each with a CSR of its own. *)
Approved(refs) ==
    {r \in [Names -> {ApprovedCr(NoCr, csr, ref) : csr \in Csrs, ref \in refs}] :
        \A n, m \in Names : n # m => r[n].csr # r[m].csr}
-----------------------------------------------------------------------------
(***************************************************************************)
(* Four beginnings for the liveness properties.  In all but the second one *)
(* name is in use, and no request is made under the others again.          *)
(***************************************************************************)
Used == CHOOSE n \in Names : TRUE
Retired == [NoCr EXCEPT !.uid = MaxRequests]
OnlyUsed(cr) == [n \in Names |-> IF n = Used THEN cr ELSE Retired]

UsedBefore == crs[Used].uid = 2
ReusedAtStart == UsedBefore /\ <<Used, 1, crs[Used].csr>> \in approvals

(* One name, under which everything is yet to come. *)
FreshStart == Found({OnlyUsed(NoCr)}, NoAdcsRequests, 0)

(* Every name has an approved request; the others are refused by ADCS or of a kind never settled. *)
Waiting ==
    {r \in Approved({"adcs", "unsupported"}) : \A n \in Names :
        n = Used <=> r[n].ref = "adcs" /\ r[n].csr \notin Refused}
QueueAtStart == Found(Waiting, NoAdcsRequests, MaxFaults) /\ issuerReady

(* A request was deleted and made again; the AdcsRequest of the first is there still. *)
MadeAgain == {OnlyUsed(ApprovedCr(DeletedCr(First(csr)), csr, "adcs")) : csr \in Csrs \ Refused}
LeftOverOf(csrs) == {[n \in Names |-> IF n = Used THEN NewAr(NoAr, First(csr)) ELSE NoAr] : csr \in csrs}
LeftOver == LeftOverOf(Csrs \ Refused)
ReuseAtStart == Found(MadeAgain, LeftOver, MaxFaults) /\ issuerReady

(* The same with another CSR: the AdcsRequest has to be replaced, and a fault is yet to come. *)
ReplaceAtStart == Found(MadeAgain, LeftOverOf(Refused), 0) /\ issuerReady

(***************************************************************************)
(* In all but the first, ADCS issues whatever it decides, for a name used  *)
(* before at once.  In the last, the fault is one of the CertificateRequest*)
(* reconciler.  Only in the third the informers resync: elsewhere nothing  *)
(* may be forgotten till then.                                             *)
(***************************************************************************)
Late == \E n \in Names : crs[n].uid = IF n = Used THEN MaxRequests ELSE 1
ResyncStep == Resync /\ UNCHANGED Others

AsBegun ==
    /\ ResyncStep => ReusedAtStart
    /\ Late => \A k \in DOMAIN adcs' :
           adcs'[k].disp \in IF UsedBefore THEN {"Issued"} ELSE {"Pending", "Issued"}
    /\ UsedBefore /\ faults' # faults => CrWorker

StartsFairSpec ==
    /\ FreshStart \/ QueueAtStart \/ ReuseAtStart \/ ReplaceAtStart
    /\ [][Next /\ AsBegun]_vars
    /\ Fairness /\ WF_vars(ResyncStep /\ ReusedAtStart)
=============================================================================
