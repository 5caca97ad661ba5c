SPECIFICATION MCSpec
CONSTANTS
    root = root
    issuing = issuing
    foreign = foreign
    Certificates <- MCCertificates
    Eol = eol
    Word = word
    IssuerCalls <- MCIssuerCalls
    ClusterNamespace = "system"
    DefaultTemplate = "BasicSSLWebServer"
    AuthModes = {"kerberos", "ntlm"}
    Durations = {"5m"}
    ListedKinds = {"Secret"}
    Contents <- MCContents
    Clusters <- MCClusters
    Absent = absent
    MaxChanges = 1
    MaxLoginFailures = 0
PROPERTY BundleReadEnds
CHECK_DEADLOCK FALSE
