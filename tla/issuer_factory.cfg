SPECIFICATION MCSpec
CONSTANTS
    root = root
    issuing = issuing
    foreign = foreign
    Certificates <- MCCertificates
    Eol = eol
    Word = word
    IssuerCalls <- MCIssuerCalls
    ClusterNamespace = "system"
    DefaultTemplate = "BasicSSLWebServer"
    AuthModes = {"kerberos", "ntlm"}
    Durations = {"5m"}
    ListedKinds = {"Secret", "ConfigMap"}
    Contents <- MCContents
    Clusters <- MCClusters
    Absent = absent
    MaxChanges = 2
    MaxLoginFailures = 1
INVARIANTS TypeOK SingleChangeIsAtomic ListedCertificatesAreTrusted
PROPERTY ConfigurationTakesEffect
