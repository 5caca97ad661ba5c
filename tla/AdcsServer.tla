----------------------------- MODULE AdcsServer -----------------------------
(***************************************************************************)
(* The ADCS certification authority, as src/adcs/ uses it: it numbers the  *)
(* requests it accepts, decides about each at once or later (an official   *)
(* "takes it under submission"), never changes a decision, and shows the   *)
(* disposition of a request to who asks for its number.                    *)
(***************************************************************************)
EXTENDS Sequences, Certsrv

CONSTANTS
    Verdicts,           \* what may be decided about a submission
    Refused,            \* CSRs for which it gives no id, whenever they are posted
    MaxSubmissions      \* bound on accepted submissions

ASSUME SubmissionsAssumption ==
    Verdicts \subseteq {"Issued", "Denied", "Error"} /\ MaxSubmissions \in Nat

VARIABLE adcs   \* the accepted submissions; the id of one is its place

(* name, uid: the AdcsRequest it came from; owner: the uid of that one's CertificateRequest. *)
Submission(names, csrs) ==
    [name : names, uid : Nat, owner : Nat, csr : csrs, disp : Verdicts \cup {"Pending"}]

AdcsTypeOK(names, csrs) ==
    adcs \in Seq(Submission(names, csrs)) /\ Len(adcs) <= MaxSubmissions

(* A CSR that does not fit its template, say, is refused on the spot; the bound refuses the rest. *)
Accepts(csr) == csr \notin Refused /\ Len(adcs) < MaxSubmissions

Submit(n, ar, disp) ==
    /\ Accepts(ar.csr)
    /\ adcs' = Append(adcs, [name |-> n, uid |-> ar.uid, owner |-> ar.owner,
                             csr |-> ar.csr, disp |-> disp])

(* The answers to an accepted POST: the page with the id, or the certificate itself. *)
SubmissionAnswers(id, disp) ==
    {HtmlPage({}, id)} \cup (IF disp = "Issued" THEN {CertificatePage} ELSE {})

(* The page of request id. *)
DispositionPage(id) ==
    CASE adcs[id].disp = "Issued"  -> CertificatePage
      [] adcs[id].disp = "Denied"  -> HtmlPage({"Disposition message", "Denied by"}, id)
      [] adcs[id].disp = "Error"   -> HtmlPage({"Disposition message"}, id)
      [] adcs[id].disp = "Pending" ->
            HtmlPage({"Disposition message", "Taken Under Submission"}, id)

(* What an exchange that goes wrong brings back: nothing, an error, or a page of another server. *)
FaultReplies == {NoReply, ServerError, HtmlPage({}, 0)}

Decide(id) ==
    /\ id \in DOMAIN adcs /\ adcs[id].disp = "Pending"
    /\ \E v \in Verdicts : adcs' = [adcs EXCEPT ![id].disp = v]
=============================================================================
