-------------------------- MODULE MCIssuerFactory --------------------------
(***************************************************************************)
(* IssuerFactory with an issuer of a namespace, one of the cluster, and    *)
(* one of another kind.  Objects of the same names with other contents lie *)
(* in the namespace that the other issuer uses.                            *)
(***************************************************************************)
EXTENDS IssuerFactory

CONSTANTS root, issuing, foreign

MCCertificates == {root, issuing, foreign}
Line(cert) == <<cert, Eol>>

NoRef == [name |-> "", kind |-> "", key |-> "", keys |-> <<>>]
RefTo(kind, key, keys) == [name |-> "ca", kind |-> kind, key |-> key, keys |-> keys]
IssuerSpec(url, inline, ref) ==
    [url |-> url, credentialsRef |-> "login", caBundle |-> inline, caBundleRef |-> ref,
     retryInterval |-> "", statusCheckInterval |-> "soon", templateName |-> ""]

Specs ==
    {IssuerSpec("old", Line(root), NoRef),
     IssuerSpec("new", Line(root), RefTo("", "", <<>>)),
     [IssuerSpec("new", <<>>, RefTo("Secret", "ca.crt", <<"root", "issuing">>)) EXCEPT
        !.retryInterval = "5m", !.templateName = "Machine"],
     IssuerSpec("old", Line(issuing), RefTo("Bucket", "root", <<>>)),
     [IssuerSpec("old", <<>>, RefTo("Secret", "root", <<>>)) EXCEPT !.credentialsRef = "ca"],
     IssuerSpec("new", <<>>, RefTo("ConfigMap", "issuing", <<>>))}

Logins ==
    [username |-> <<Word>>, password |-> <<Word>>, realm |-> <<Word, Word>>]
Anonymous == [username |-> <<>>, password |-> <<Word>>]

Bundles ==
    {[root |-> Line(root), issuing |-> Line(issuing)],
     [root |-> <<root>>, issuing |-> <<issuing, Eol>>],
     "ca.crt" :> <<Word>>, "ca.crt" :> <<>>,
     [username |-> <<Word>>, password |-> <<Word>>, root |-> Line(root)]}

Issuer == <<"AdcsIssuer", "app", "adcs">>
Login == <<"Secret", "app", "login">>
Ca == <<"Secret", "app", "ca">>
CaMap == <<"ConfigMap", "app", "ca">>
ClusterIssuer == <<"ClusterAdcsIssuer", "", "adcs">>
SystemLogin == <<"Secret", "system", "login">>
SystemCa == <<"Secret", "system", "ca">>

ClusterSpec == IssuerSpec("cluster", <<>>, RefTo("Secret", "", <<>>))
ConfigMapData == [issuing |-> <<Word, Eol, issuing>>]
SystemLogins == [Logins EXCEPT !.username = <<Word, Word>>]

MCContents ==
    Issuer :> (Specs \cup {Absent}) @@ ClusterIssuer :> {ClusterSpec, Absent}
    @@ Login :> {Logins, Anonymous, Absent} @@ SystemLogin :> {SystemLogins}
    @@ Ca :> (Bundles \cup {Absent}) @@ SystemCa :> {"ca.crt" :> Line(foreign), Absent}
    @@ CaMap :> {ConfigMapData, Absent}

(* To begin with, the objects around the issuer that is asked for are in place. *)
MCClusters ==
    {Issuer :> sp @@ ClusterIssuer :> ClusterSpec @@ Login :> login @@ SystemLogin :> SystemLogins
     @@ Ca :> ca @@ SystemCa :> ("ca.crt" :> Line(foreign)) @@ CaMap :> ConfigMapData :
        sp \in MCContents[Issuer], login \in MCContents[Login], ca \in MCContents[Ca]}

MCIssuerCalls ==
    {[kind |-> kind, namespace |-> "app", name |-> "adcs"] :
        kind \in {"AdcsIssuer", "ClusterAdcsIssuer", "Issuer"}}

(* Where another issuer is asked for, the objects of the namespace are one decoy. *)
Decoy(objects) ==
    /\ objects[Issuer] = IssuerSpec("old", Line(root), NoRef) /\ objects[Login] = Logins
    /\ objects[Ca] = "ca.crt" :> <<Word>>
MCInit == Init /\ (call.kind # "AdcsIssuer" => Decoy(cache))
MCSpec == MCInit /\ [][Next]_vars /\ Fairness
=============================================================================
