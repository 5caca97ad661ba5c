--------------------------- MODULE CertsrvProofs ---------------------------
(***************************************************************************)
(* The contract of the AdcsCertsrv interface, for any request ids that     *)
(* pages may show and whatever is answered; and what Issue makes of a      *)
(* certificate and a CA chain, whatever texts are answered: a CA of the    *)
(* chain, nothing that was not sent, and nothing lost of an answer that    *)
(* ends its last line.                                                     *)
(***************************************************************************)
EXTENDS CaChain, SequenceTheorems, TLAPS

(* What is fetched is the page of an id. *)
FetchHasId == pc = "fetch" => asked # 0

ContractInv == TypeOK /\ FetchHasId /\ VerdictIsBacked /\ PendingCanBeFetched

(* A result of a fetch is about the id that was asked for, and comes from a reply that says it. *)
Fetched(res, reply, id) ==
    /\ res \in Result /\ res.id = id
    /\ res.status = "Unknown" <=> res.err # "none"
    /\ res.cert # "none" <=> res.status = "Ready"
    /\ res.cert # "truncated"
    /\ res.status \in {"Pending", "Rejected", "Errored"} =>
           Served(reply) /\ reply.ctype = "html" /\ "Disposition message" \in reply.marks
    /\ res.status = "Ready" => reply.arrived /\ reply.ctype = "pkix"

LEMMA FetchResult ==
    ASSUME NEW reply \in Replies, NEW id \in ReqIds
    PROVE  Fetched(GetExistingCertificate(reply, id), reply, id)
<1> SUFFICES ASSUME NEW res, res = GetExistingCertificate(reply, id)
             PROVE  Fetched(res, reply, id)
  OBVIOUS
<1> USE DEF Fetched
<1>1. id \in Int
  BY ReqIdsAssumption
<1>2. Disposition(reply.marks) \in {"Unknown", "Pending", "Rejected", "Errored"}
  BY DEF Disposition
<1>3. Disposition(reply.marks) # "Unknown" => "Disposition message" \in reply.marks
  BY DEF Disposition
<1>4. CASE res = Classified(Disposition(reply.marks), id) /\ Served(reply)
           /\ reply.ctype = "html" /\ Disposition(reply.marks) # "Unknown"
  <2>1. res.status \in {"Pending", "Rejected", "Errored"}
    BY <1>2, <1>4 DEF Classified
  <2>2. res.id = id /\ res.err = "none" /\ res.cert = "none"
    BY <1>4 DEF Classified
  <2>3. res \in Result
    BY <1>1, <1>2, <1>4 DEF Classified, Result, AdcsResponseStatus, Cert
  <2>4. QED
    BY <1>3, <1>4, <2>1, <2>2, <2>3
<1>5. CASE res = Obtained(reply, id) /\ Served(reply) /\ reply.ctype = "pkix"
  <2>1. res = [status |-> "Ready", id |-> id, err |-> "none", cert |-> "whole"]
    BY <1>5 DEF Obtained, Served
  <2>2. reply.arrived
    BY <1>5 DEF Served
  <2>3. QED
    BY <1>1, <1>5, <2>1, <2>2 DEF Result, AdcsResponseStatus, Cert
<1>6. CASE res = Failed(id, "panic") \/ res = Failed(id, "error")
  <2>1. /\ res.status = "Unknown" /\ res.id = id /\ res.cert = "none"
        /\ res.err = "panic" \/ res.err = "error"
    BY <1>6 DEF Failed
  <2>2. res \in Result
    BY <1>1, <1>6 DEF Failed, Result, AdcsResponseStatus, Cert
  <2>3. QED
    BY <2>1, <2>2
<1>7. QED
  <2>1. CASE Served(reply) /\ reply.ctype = "html" /\ Disposition(reply.marks) # "Unknown"
    BY <2>1, <1>4 DEF GetExistingCertificate
  <2>2. CASE ~(Served(reply) /\ reply.ctype = "html" /\ Disposition(reply.marks) # "Unknown")
             /\ Served(reply) /\ reply.ctype = "pkix"
    BY <2>2, <1>5 DEF GetExistingCertificate
  <2>3. CASE ~(Served(reply) /\ reply.ctype = "html" /\ Disposition(reply.marks) # "Unknown")
             /\ ~(Served(reply) /\ reply.ctype = "pkix")
    BY <2>3, <1>6 DEF GetExistingCertificate
  <2>4. QED
    BY <2>1, <2>2, <2>3

(* An answer at once, a failure of the POST, and what comes of the call for a CA. *)
LEMMA OtherResults ==
    /\ \A reply \in Replies : LET res == Obtained(reply, IdNone) IN
           /\ res \in Result /\ res.id = IdNone /\ res.status = "Ready"
           /\ res.err = "none" /\ res.cert # "none"
    /\ Failed(0, "error") \in Result /\ Failed(0, "error").status = "Unknown"
    /\ Failed(0, "error").cert = "none" /\ Failed(0, "error").err = "error"
    /\ \A err \in {"none", "error", "panic"} :
           /\ Chain(err) \in Result /\ Chain(err).status = "Unknown" /\ Chain(err).err = err
           /\ Chain(err).cert = IF err = "none" THEN "whole" ELSE "none"
BY DEF Obtained, Failed, Chain, Result, AdcsResponseStatus, Cert, IdNone

LEMMA ContractPost ==
    ASSUME ContractInv, NEW reply \in Replies, Post(reply)
    PROVE  ContractInv'
<1> USE DEF ContractInv
<1>1. CASE AnsweredAtOnce(reply) /\ Return(Obtained(reply, IdNone), reply) /\ UNCHANGED asked
  BY <1>1, OtherResults
     DEF Post, Return, AnsweredAtOnce, TypeOK, FetchHasId, VerdictIsBacked, PendingCanBeFetched
<1>2. CASE CertId(reply) # 0 /\ pc' = "fetch" /\ asked' = CertId(reply) /\ UNCHANGED <<last, result>>
  <2>1. CertId(reply) \in ReqIds \cup {0}
    <3>1. reply.reqId \in ReqIds \cup {0}
      <4>1. CASE reply = NoReply
        BY <4>1 DEF NoReply
      <4>2. CASE reply # NoReply
        BY <4>2 DEF Replies
      <4>3. QED
        BY <4>1, <4>2
    <3>2. QED
      BY <3>1 DEF CertId
  <2>2. QED
    BY <1>2, <2>1 DEF Post, TypeOK, FetchHasId, VerdictIsBacked, PendingCanBeFetched
<1>3. CASE Return(Failed(0, "error"), reply) /\ UNCHANGED asked
  BY <1>3, OtherResults
     DEF Post, Return, TypeOK, FetchHasId, VerdictIsBacked, PendingCanBeFetched
<1>4. QED
  BY <1>1, <1>2, <1>3 DEF Post

LEMMA ContractFetch ==
    ASSUME ContractInv, NEW reply \in Replies, Fetch(reply)
    PROVE  ContractInv'
<1>1. asked \in ReqIds
  BY DEF Fetch, ContractInv, FetchHasId, TypeOK
<1>2. pc' = "done" /\ last' = reply /\ UNCHANGED <<mode, asked, expected>>
      /\ result' = GetExistingCertificate(reply, asked)
  BY DEF Fetch, Return
<1>3. asked # 0
  BY <1>1, ReqIdsAssumption
<1>4. Fetched(result', reply, asked)
  BY <1>1, <1>2, FetchResult
<1>5. VerdictIsBacked'
  BY <1>2, <1>4 DEF Fetched, VerdictIsBacked
<1>6. PendingCanBeFetched'
  BY <1>2, <1>3, <1>4 DEF Fetched, PendingCanBeFetched
<1>7. TypeOK' /\ FetchHasId'
  BY <1>1, <1>2, <1>4 DEF Fetched, ContractInv, TypeOK, FetchHasId
<1>8. QED
  BY <1>5, <1>6, <1>7 DEF ContractInv

(* obtainCaCertificate, after either of its exchanges. *)
LEMMA ContractCa ==
    ASSUME ContractInv, NEW reply \in Replies, Renewals(reply) \/ CaCert(reply)
    PROVE  ContractInv'
<1>1. CASE pc' = "cacert" /\ UNCHANGED <<mode, asked, expected, last, result>>
  BY <1>1 DEF ContractInv, TypeOK, FetchHasId, VerdictIsBacked, PendingCanBeFetched
<1>2. ASSUME NEW err \in {"none", "error", "panic"}, Return(Chain(err), reply),
             UNCHANGED <<mode, asked, expected>>,
             err = "none" => Served(reply) /\ reply.ctype = expected
      PROVE  ContractInv'
  <2>1. Chain(err) \in Result /\ Chain(err).status = "Unknown" /\ Chain(err).err = err
        /\ Chain(err).cert = IF err = "none" THEN "whole" ELSE "none"
    BY OtherResults
  <2>2. QED
    BY <1>2, <2>1
       DEF Return, ContractInv, TypeOK, FetchHasId, VerdictIsBacked, PendingCanBeFetched, Served
<1>3. QED
  BY <1>1, <1>2 DEF Renewals, CaCert, CaCertificate

LEMMA ContractNext == ContractInv /\ [Next]_vars => ContractInv'
<1> SUFFICES ASSUME ContractInv, [Next]_vars PROVE ContractInv'
  OBVIOUS
<1>1. CASE CallRequestCertificate \/ CallGetCaCertificate \/ CallGetCaCertificateChain
  BY <1>1 DEF CallRequestCertificate, CallGetCaCertificate, CallGetCaCertificateChain,
     ContractInv, TypeOK, FetchHasId, VerdictIsBacked, PendingCanBeFetched
<1>2. CASE CallGetExistingCertificate
  BY <1>2, ReqIdsAssumption DEF CallGetExistingCertificate,
     ContractInv, TypeOK, FetchHasId, VerdictIsBacked, PendingCanBeFetched
<1>3. CASE \E reply \in Replies : Post(reply) \/ Fetch(reply) \/ Renewals(reply) \/ CaCert(reply)
  BY <1>3, ContractPost, ContractFetch, ContractCa
<1>4. CASE Leave
  <2>1. Failed(0, "none") \in Result
    BY DEF Failed, Result, AdcsResponseStatus, Cert
  <2>2. QED
    BY <1>4, <2>1 DEF Leave, Replies,
       ContractInv, TypeOK, FetchHasId, VerdictIsBacked, PendingCanBeFetched
<1>5. CASE UNCHANGED vars
  BY <1>5 DEF vars, ContractInv, TypeOK, FetchHasId, VerdictIsBacked, PendingCanBeFetched
<1>6. QED
  BY <1>1, <1>2, <1>3, <1>4, <1>5 DEF Next

(***************************************************************************)
(* Both clients keep their contract whatever a server and a network        *)
(* answer: no verdict is guessed, and what is pending can be asked for.    *)
(***************************************************************************)
THEOREM ContractIsKept == Spec => [](TypeOK /\ VerdictIsBacked /\ PendingCanBeFetched)
<1>1. Init => ContractInv
  <2>1. Failed(0, "none") \in Result
    BY DEF Failed, Result, AdcsResponseStatus, Cert
  <2>2. QED
    BY <2>1 DEF Init, Replies, ContractInv, TypeOK, FetchHasId, VerdictIsBacked, PendingCanBeFetched
<1>2. QED
  BY <1>1, ContractNext, PTL DEF Spec, ContractInv
-----------------------------------------------------------------------------
(* The first block of a body, and the certificate kept of it, are in the body. *)
LEMMA KeptIsInside ==
    ASSUME NEW text \in PemText, NEW block \in FirstBlock(text), NEW kept \in Kept(block)
    PROVE  kept \in ChainOf(text) /\ kept \in Cas \cup {Leaf}
<1>1. block \in Pool(text) /\ block \in Blocks
  BY ChainAssumption DEF FirstBlock, Pool, StandsAlone
<1>2. kept \in ToSet(block.certs) /\ kept \in Cas \cup {Leaf}
  <2>1. CASE \E cert \in Cas \cup {Leaf} : block = X509(cert)
    <3>1. PICK cert \in Cas \cup {Leaf} : block = X509(cert)
      BY <2>1
    <3>2. kept \in ToSet(<<cert>>) /\ block.certs = <<cert>>
      BY <3>1 DEF Kept, X509
    <3>3. QED
      BY <3>2 DEF ToSet
  <2>2. CASE \E certs \in Signed : block = Pkcs7(certs)
    <3>1. PICK certs \in Signed : block = Pkcs7(certs)
      BY <2>2
    <3>2. kept \in FirstWithValue(certs) /\ block.certs = certs
      BY <3>1 DEF Kept, Pkcs7
    <3>3. certs \in Seq(Cas \cup {EmptyRaw})
      BY ChainAssumption
    <3>4. QED
      BY <3>2, <3>3 DEF FirstWithValue, ToSet
  <2>3. CASE block = Garbage
    BY <2>3 DEF Garbage, Kept, FirstWithValue
  <2>4. QED
    BY <1>1, <2>1, <2>2, <2>3 DEF Blocks
<1>3. kept # EmptyRaw
  BY <1>2, ChainAssumption
<1>4. QED
  BY <1>1, <1>2, <1>3 DEF ChainOf, Inside

(* One certificate that ends its line is found again. *)
LEMMA OneInside ==
    ASSUME NEW cert \in Cas \cup {Leaf}
    PROVE  Encoded(cert) \in PemText /\ Inside(Encoded(cert)) = {cert}
<1>1. X509(cert) \in Certificates /\ Eol \notin Certificates
  BY ChainAssumption, PemAssumption DEF Blocks
<1>2. Pool(<<X509(cert), Eol>>) = {X509(cert)}
  BY <1>1 DEF Pool, StandsAlone
<1>3. ToSet(X509(cert).certs) = {cert}
  BY DEF X509, ToSet
<1>4. QED
  BY <1>1, <1>2, <1>3 DEF Inside, Encoded, PemText

(* A text, a block after it, and the end of its line. *)
WithBlock(text, block) == text \o <<block, Eol>>

(***************************************************************************)
(* What a block after a text adds to the certificates found in it: at the  *)
(* most itself, and itself without a loss when the text ends its line.     *)
(***************************************************************************)
LEMMA Appended ==
    ASSUME NEW text \in PemText, NEW block \in Certificates, NEW longer, longer = WithBlock(text, block)
    PROVE  /\ longer \in PemText
           /\ Pool(longer) \subseteq Pool(text) \cup {block}
           /\ text = <<>> \/ Last(text) = Eol => Pool(text) \cup {block} \subseteq Pool(longer)
<1> DEFINE S == Certificates \cup {Eol, Word}
           m == Len(text)
           end == <<block, Eol>>
<1>1. Eol \notin Certificates /\ text \in Seq(S) /\ end \in Seq(S) /\ Len(end) = 2 /\ m \in Nat
      /\ end[1] = block /\ end[2] = Eol
  BY PemAssumption DEF PemText
<1> HIDE DEF S, end
<1>2. /\ longer \in Seq(S) /\ Len(longer) = m + 2
      /\ \A i \in 1..m + 2 : longer[i] = IF i <= m THEN text[i] ELSE end[i - m]
  <2>1. longer = text \o end
    BY DEF end, WithBlock
  <2>2. /\ text \o end \in Seq(S) /\ Len(text \o end) = Len(text) + Len(end)
        /\ \A i \in 1..Len(text) + Len(end) :
               (text \o end)[i] = IF i <= Len(text) THEN text[i] ELSE end[i - Len(text)]
    BY <1>1, ConcatProperties
  <2>3. QED
    BY <1>1, <2>1, <2>2
<1>3. DOMAIN text = 1..m /\ DOMAIN longer = 1..m + 2
  BY <1>1, <1>2
<1>4. \A i \in 1..m : longer[i] = text[i] /\ i \in 1..m + 2
  BY <1>1, <1>2
<1>5. longer[m + 1] = block /\ longer[m + 2] = Eol /\ m + 1 \in 1..m + 2
  <2>1. /\ m + 1 \in 1..m + 2 /\ m + 2 \in 1..m + 2 /\ ~(m + 1 <= m) /\ ~(m + 2 <= m)
        /\ (m + 1) - m = 1 /\ (m + 2) - m = 2
    BY <1>1
  <2>2. longer[m + 1] = end[1] /\ longer[m + 2] = end[2]
    BY <1>2, <2>1
  <2>3. QED
    BY <1>1, <2>1, <2>2
<1> HIDE DEF m
<1>6. Pool(longer) \subseteq Pool(text) \cup {block}
  <2> SUFFICES ASSUME NEW i \in 1..m + 2, StandsAlone(longer, i)
               PROVE  longer[i] \in Pool(text) \cup {block}
    BY <1>3 DEF Pool
  <2>1. i \in 1..m \/ i = m + 1 \/ i = m + 2
    BY <1>1
  <2>2. CASE i \in 1..m
    <3>1. i = 1 \/ text[i - 1] = Eol
      <4>1. i # 1 => i - 1 \in 1..m
        BY <1>1, <2>2
      <4>2. QED
        BY <1>4, <4>1 DEF StandsAlone
    <3>2. i = m \/ text[i + 1] = Eol
      <4>1. i # m => i + 1 \in 1..m
        BY <1>1, <2>2
      <4>2. i # Len(longer)
        BY <1>1, <1>2, <2>2
      <4>3. QED
        BY <1>4, <4>1, <4>2 DEF StandsAlone
    <3>3. StandsAlone(text, i)
      BY <1>4, <2>2, <3>1, <3>2 DEF StandsAlone, m
    <3>4. QED
      BY <1>3, <1>4, <2>2, <3>3 DEF Pool
  <2>3. CASE i = m + 1
    BY <1>5, <2>3
  <2>4. CASE i = m + 2
    BY <1>1, <1>5, <2>4 DEF StandsAlone
  <2>5. QED
    BY <2>1, <2>2, <2>3, <2>4
<1>7. ASSUME text = <<>> \/ Last(text) = Eol PROVE Pool(text) \cup {block} \subseteq Pool(longer)
  <2>1. m = 0 \/ (m \in 1..m /\ text[m] = Eol)
    BY <1>1, <1>7 DEF Last, m
  <2>2. StandsAlone(longer, m + 1)
    <3>1. m + 1 = 1 \/ longer[(m + 1) - 1] = Eol
      <4>1. (m + 1) - 1 = m
        BY <1>1
      <4>2. m \in 1..m /\ text[m] = Eol => longer[m] = Eol
        BY <1>4
      <4>3. m = 0 => m + 1 = 1
        BY <1>1
      <4>4. QED
        BY <2>1, <4>1, <4>2, <4>3
    <3>2. longer[(m + 1) + 1] = Eol
      <4>1. (m + 1) + 1 = m + 2
        BY <1>1
      <4>2. QED
        BY <1>5, <4>1
    <3>3. QED
      BY <1>5, <3>1, <3>2 DEF StandsAlone
  <2>3. ASSUME NEW i \in 1..m, StandsAlone(text, i) PROVE StandsAlone(longer, i)
    <3>1. i # m /\ i + 1 \in 1..m /\ text[i + 1] = Eol
      BY <1>1, <2>1, <2>3 DEF StandsAlone, m
    <3>2. i = 1 \/ (i - 1 \in 1..m /\ text[i - 1] = Eol)
      BY <1>1, <2>3 DEF StandsAlone
    <3>3. QED
      BY <1>4, <2>3, <3>1, <3>2 DEF StandsAlone
  <2>4. Pool(text) \subseteq Pool(longer)
    <3> SUFFICES ASSUME NEW i \in 1..m, StandsAlone(text, i) PROVE text[i] \in Pool(longer)
      BY <1>3 DEF Pool
    <3>1. QED
      BY <1>3, <1>4, <2>3 DEF Pool
  <2>5. block \in Pool(longer)
    BY <1>3, <1>5, <2>2 DEF Pool
  <2>6. QED
    BY <2>4, <2>5
<1>8. longer \in PemText
  BY <1>2 DEF PemText, S
<1>9. QED
  BY <1>6, <1>7, <1>8

(* The same of what the texts hold. *)
LEMMA AppendedInside ==
    ASSUME NEW text \in PemText, NEW cert \in Cas \cup {Leaf}, NEW longer, longer = text \o Encoded(cert)
    PROVE  /\ longer \in PemText
           /\ Inside(longer) \subseteq Inside(text) \cup {cert}
           /\ text = <<>> \/ Last(text) = Eol => Inside(longer) = Inside(text) \cup {cert}
<1>1. X509(cert) \in Certificates
  BY ChainAssumption DEF Blocks
<1>2. /\ longer \in PemText
      /\ Pool(longer) \subseteq Pool(text) \cup {X509(cert)}
      /\ text = <<>> \/ Last(text) = Eol => Pool(text) \cup {X509(cert)} \subseteq Pool(longer)
  <2>1. longer = text \o <<X509(cert), Eol>>
    BY DEF Encoded
  <2>2. longer = WithBlock(text, X509(cert))
    BY <2>1 DEF WithBlock
  <2>3. QED
    BY <1>1, <2>2, Appended
<1>3. ToSet(X509(cert).certs) = {cert}
  BY DEF X509, ToSet
<1>4. QED
  BY <1>2, <1>3 DEF Inside

(* What is left of a body that breaks off is a text. *)
LEMMA BeginningsAreTexts ==
    ASSUME NEW text \in PemText, NEW start \in Beginnings(text)
    PROVE  start \in PemText
<1>1. PICK n \in 0..Len(text) - 1, part \in {<<>>, <<Word>>, <<Word, Eol>>} : start = SubSeq(text, 1, n) \o part
  BY DEF Beginnings
<1>2. SubSeq(text, 1, n) \in PemText /\ part \in PemText
  <2> DEFINE S == Certificates \cup {Eol, Word}
  <2>1. text \in Seq(S) /\ Len(text) \in Nat /\ PemText = Seq(S)
    BY DEF PemText
  <2>2. Eol \in S /\ Word \in S
    OBVIOUS
  <2> HIDE DEF S
  <2>3. <<>> \in Seq(S) /\ <<Word>> \in Seq(S) /\ <<Word, Eol>> \in Seq(S)
    BY <2>2
  <2>4. n \in Int /\ n <= Len(text)
    BY <1>1, <2>1
  <2>5. \A i \in 1..n : text[i] \in S
    BY <2>1, <2>4
  <2>6. SubSeq(text, 1, n) \in Seq(S)
    BY <2>1, <2>4, <2>5, SubSeqProperties
  <2>7. QED
    BY <1>1, <2>1, <2>3, <2>6
<1>3. QED
  BY <1>1, <1>2, ConcatProperties DEF PemText

(* The CA that Issue has found is one of the chain; the status is made of it and of the answer. *)
FoundInv ==
    stage \in {"combine", "done"} =>
        \E kept \in ChainOf(body) :
            /\ kept \in Cas \cup {Leaf} /\ ca = Encoded(kept)
            /\ stage = "done" /\ verdict = "Ready" => authority = ca /\ certificate = answer \o ca

StageOK ==
    /\ stage \in {"certificate", "chain", "combine", "done", "retry"}
    /\ stage \notin {"certificate", "chain"} => pc = "idle"
    /\ verdict \in AdcsResponseStatus
    /\ {answer, body, ca, certificate, authority} \subseteq PemText

IssueInv == StageOK /\ FoundInv

LEMMA IssueInvNext == TypeOK /\ IssueInv /\ [IssueNext]_issueVars => IssueInv'
<1> SUFFICES ASSUME TypeOK, IssueInv, [IssueNext]_issueVars PROVE IssueInv'
  OBVIOUS
<1> USE DEF IssueInv, StageOK
<1>1. <<>> \in PemText /\ "Unknown" \in AdcsResponseStatus
  BY DEF PemText, AdcsResponseStatus
<1>2. CASE Call \/ GetCaCertificate
  BY <1>2 DEF Call, GetCaCertificate, Leave, chainVars, FoundInv
<1>3. CASE CallFails
  BY <1>3 DEF CallFails, Leave, FoundInv
<1>4. CASE Combine
  <2>1. PICK kept \in ChainOf(body) : kept \in Cas \cup {Leaf} /\ ca = Encoded(kept)
    BY <1>4 DEF Combine, FoundInv
  <2>2. answer \o ca \in PemText
    BY <2>1, AppendedInside
  <2>3. /\ stage' = "done" /\ UNCHANGED <<verdict, answer, body, ca, pc>> /\ stage = "combine"
        /\ verdict = "Ready" => certificate' = answer \o ca /\ authority' = ca
        /\ verdict # "Ready" => UNCHANGED <<certificate, authority>>
    BY <1>4 DEF Combine, vars
  <2>4. FoundInv'
    BY <2>1, <2>3 DEF FoundInv
  <2>5. QED
    BY <2>2, <2>3, <2>4
<1>5. CASE Again
  BY <1>1, <1>5 DEF Again, FoundInv, vars
<1>6. ASSUME NEW text \in Answers, GetCertificate(text) PROVE IssueInv'
  <2>1. answer' \in PemText
    BY <1>6, ChainAssumption, BeginningsAreTexts DEF GetCertificate
  <2>2. verdict' \in AdcsResponseStatus
    BY <1>6 DEF GetCertificate, TypeOK, Result
  <2>3. QED
    BY <1>6, <2>1, <2>2 DEF GetCertificate, Leave, FoundInv
<1>7. ASSUME NEW text \in Bodies, GetChain(text) PROVE IssueInv'
  <2>1. text \in PemText
    BY ChainAssumption
  <2> DEFINE found == UNION {Kept(block) : block \in FirstBlock(text)}
  <2>2. CASE found = {}
    BY <1>7, <2>1, <2>2 DEF GetChain, Leave, FoundInv
  <2>3. CASE found # {}
    <3>1. PICK kept \in found : ca' = Encoded(kept)
      BY <1>7, <2>3 DEF GetChain
    <3>2. kept \in ChainOf(text) /\ kept \in Cas \cup {Leaf}
      BY <2>1, KeptIsInside
    <3>3. ca' \in PemText
      BY <3>1, <3>2, OneInside
    <3>4. stage' = "combine" /\ body' = text /\ pc' = "idle"
          /\ UNCHANGED <<verdict, answer, certificate, authority>>
      BY <1>7, <2>3 DEF GetChain, Leave
    <3>5. QED
      BY <2>1, <3>1, <3>2, <3>3, <3>4 DEF FoundInv
  <2>4. QED
    BY <2>2, <2>3
<1>8. CASE UNCHANGED issueVars
  BY <1>8 DEF issueVars, chainVars, vars, FoundInv
<1>9. QED
  BY <1>2, <1>3, <1>4, <1>5, <1>6, <1>7, <1>8 DEF IssueNext

(***************************************************************************)
(* To the client, the rest of Issue is its caller.                         *)
(***************************************************************************)
LEMMA IssueCalls == IssueSpec => Spec
<1>1. IssueInit => Init
  BY DEF IssueInit
<1>2. [IssueNext]_issueVars => [Next]_vars
  <2>1. Leave => Next
    BY DEF Next
  <2>2. QED
    BY <2>1 DEF IssueNext, Call, GetCaCertificate, CallFails, GetCertificate, GetChain, Combine, Again, issueVars
<1>3. QED
  BY <1>1, <1>2, PTL DEF IssueSpec, Spec

(***************************************************************************)
(* Whatever ADCS sends as its answer and as its chain, in any number of    *)
(* pieces, whole or broken off: the CA in the status of an issued request  *)
(* is one of the chain, nothing was made up, and an answer that ends its   *)
(* last line is readable with that CA after it.                            *)
(***************************************************************************)
THEOREM StatusReads == IssueSpec => [](IssueTypeOK /\ StatusIsReadable)
<1>1. IssueInit => IssueInv
  BY DEF IssueInit, IssueInv, StageOK, FoundInv, PemText, AdcsResponseStatus
<1>2. IssueInv => StatusIsReadable
  <2> SUFFICES ASSUME IssueInv, stage = "done", verdict = "Ready"
               PROVE  /\ \E one \in ChainOf(body) : Inside(authority) = {one}
                      /\ Inside(certificate) \subseteq Inside(answer) \cup Inside(authority)
                      /\ answer = <<>> \/ Last(answer) = Eol =>
                             Inside(certificate) = Inside(answer) \cup Inside(authority)
    BY DEF StatusIsReadable
  <2>1. PICK kept \in ChainOf(body) : /\ kept \in Cas \cup {Leaf} /\ authority = Encoded(kept)
                                      /\ certificate = answer \o Encoded(kept)
    BY DEF IssueInv, FoundInv
  <2>2. answer \in PemText
    BY DEF IssueInv, StageOK
  <2>3. Inside(authority) = {kept}
    BY <2>1, OneInside
  <2>4. /\ Inside(certificate) \subseteq Inside(answer) \cup {kept}
        /\ answer = <<>> \/ Last(answer) = Eol => Inside(certificate) = Inside(answer) \cup {kept}
    BY <2>1, <2>2, AppendedInside
  <2>5. QED
    BY <2>3, <2>4
<1>3. Spec => []TypeOK
  BY ContractIsKept, PTL
<1>4. TypeOK /\ IssueInv => IssueTypeOK
  BY DEF IssueInv, StageOK, IssueTypeOK
<1>5. QED
  BY <1>1, <1>2, <1>3, <1>4, IssueInvNext, IssueCalls, PTL DEF IssueSpec
=============================================================================
