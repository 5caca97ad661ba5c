------------------------------ MODULE Certsrv ------------------------------
(***************************************************************************)
(* The client of the ADCS web enrolment pages (src/adcs/).  A reply is what *)
(* one HTTP exchange brought back; the operators say what the NTLM and the *)
(* Kerberos clients make of it.  The two clients run the same code after   *)
(* authentication, except where `mode` is an argument.                     *)
(***************************************************************************)
EXTENDS Integers

(* Status of a certificate request as the client reports it. *)
AdcsResponseStatus == {"Unknown", "Pending", "Ready", "Errored", "Rejected"}

(* The id returned with a certificate that came with the answer to the POST. *)
IdNone == -1

(* Fragments of a page that the regular expressions look for. *)
Marks == {"Disposition message", "Taken Under Submission", "Denied by"}

(***************************************************************************)
(* arrived: the transport returned a response; ok: its status is 200;      *)
(* ctype, params: its content type, and whether parameters follow it;      *)
(* whole: its body could be read to the end; marks, reqId: what the page   *)
(* says, reqId = 0 when it names no request id.                            *)
(***************************************************************************)
ContentType == {"html", "pkix", "pkcs7", "other"}
Reply == [arrived : BOOLEAN, ok : BOOLEAN, ctype : ContentType,
          params : BOOLEAN, whole : BOOLEAN, marks : SUBSET Marks, reqId : Nat]

NoReply == [arrived |-> FALSE, ok |-> FALSE, ctype |-> "other", params |-> FALSE,
            whole |-> FALSE, marks |-> {}, reqId |-> 0]
HtmlPage(marks, id) ==
    [arrived |-> TRUE, ok |-> TRUE, ctype |-> "html", params |-> FALSE,
     whole |-> TRUE, marks |-> marks, reqId |-> id]
CertificatePage ==
    [arrived |-> TRUE, ok |-> TRUE, ctype |-> "pkix", params |-> FALSE,
     whole |-> TRUE, marks |-> {}, reqId |-> 0]
ServerError == [HtmlPage({}, 0) EXCEPT !.ok = FALSE]

(***************************************************************************)
(* Results: err is "none", "error", or "panic" for the nil dereference in  *)
(* the message of a non-200 answer; cert says whether the returned         *)
(* certificate is the whole body that the server sent.                     *)
(***************************************************************************)
Cert == {"none", "whole", "truncated"}
Result == [status : AdcsResponseStatus, id : Int, err : {"none", "error", "panic"}, cert : Cert]

Failed(id, err) == [status |-> "Unknown", id |-> id, err |-> err, cert |-> "none"]
ClassifiedNoId(status, id) == [status |-> status, id |-> 0, err |-> "none", cert |-> "none"]
Classified(status, id) == [status |-> status, id |-> id, err |-> "none", cert |-> "none"]
Obtained(reply, id) ==
    [status |-> "Ready", id |-> id, err |-> "none",
     cert |-> IF reply.whole THEN "whole" ELSE "truncated"]

(* The whole body of an answer with status 200 was read. *)
Served(reply) == reply.arrived /\ reply.ok /\ reply.whole

(* Slips a change to the client could make, for the mutation runs. *)
DispositionOfAnyPage(marks) ==
    IF "Taken Under Submission" \in marks THEN "Pending"
    ELSE IF "Denied by" \in marks THEN "Rejected" ELSE "Errored"

(***************************************************************************)
(* The status that a page shows.  The disposition message has to be there, *)
(* but the two fragments are searched in the whole page, in this order.    *)
(***************************************************************************)
Disposition(marks) ==
    IF "Disposition message" \notin marks THEN "Unknown"
    ELSE IF "Taken Under Submission" \in marks THEN "Pending"
    ELSE IF "Denied by" \in marks THEN "Rejected" ELSE "Errored"

(***************************************************************************)
(* GetExistingCertificate: parameters of the content type are cut off, a   *)
(* body that cannot be read is an error, and a status other than 200       *)
(* formats err.Error() although err is nil.                                *)
(***************************************************************************)
GetExistingCertificate(reply, id) ==
    IF Served(reply) /\ reply.ctype = "html" /\ Disposition(reply.marks) # "Unknown"
    THEN Classified(Disposition(reply.marks), id)
    ELSE IF Served(reply) /\ reply.ctype = "pkix"
    THEN Obtained(reply, id)
    ELSE Failed(id, IF reply.arrived /\ ~reply.ok THEN "panic" ELSE "error")

(***************************************************************************)
(* RequestCertificate, up to the answer to the POST: a bare pkix header    *)
(* means the certificate is the body, before the error of reading it is    *)
(* looked at; a page gives the id to ask for next; anything else fails.    *)
(* The status code of this answer is never looked at.                      *)
(***************************************************************************)
AnsweredAtOnce(post) == post.arrived /\ post.ctype = "pkix" /\ ~post.params
CertIdOfAnything(post) == IF AnsweredAtOnce(post) THEN IdNone ELSE post.reqId
CertId(post) == IF post.arrived /\ post.whole /\ ~AnsweredAtOnce(post) THEN post.reqId ELSE 0

(***************************************************************************)
(* obtainCaCertificate, second exchange: the content type must be exactly  *)
(* the expected one.  On a status other than 200 the Kerberos client       *)
(* dereferences a nil error, the NTLM client returns an error.             *)
(***************************************************************************)
Chain(err) == [Failed(0, err) EXCEPT !.cert = IF err = "none" THEN "whole" ELSE "none"]
CaCertificate(mode, reply, expected) ==
    IF Served(reply) /\ reply.ctype = expected /\ ~reply.params
    THEN Chain("none")
    ELSE Chain(IF mode = "kerberos" /\ reply.arrived /\ ~reply.ok THEN "panic" ELSE "error")
=============================================================================
