SPECIFICATION IssueSpec
CONSTANTS
    ReqIds = {1, 2}
    root = root
    issuing = issuing
    Cas = {root, issuing}
    Leaf = leaf
    EmptyRaw = empty
    Signed <- MCSigned
    Answers <- MCAnswers
    Bodies <- MCBodies
    Certificates <- Blocks
    Eol = eol
    Word = word
INVARIANTS IssueTypeOK VerdictIsBacked PendingCanBeFetched StatusIsReadable
