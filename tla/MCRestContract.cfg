SPECIFICATION RestSpec
CONSTANTS
    Reserved = {"secrets"}
    Lower <- LowerCase
    Atoi <- Numerals
    BadIndex <- NoIndex
    Cases <- AllCases
    Tokens = {{}, {"s1"}, {"s1", "s2"}}
    NoToken = NoToken
INVARIANTS
    PublishedRequestsAdmitted
    TransportsAgree
    FieldsMeanOneThing
    PublishedClean
    RedactsAsPointed
