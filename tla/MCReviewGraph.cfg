\* Reviews of small libraries, with results altered twice and revised documents.
SPECIFICATION Spec
CONSTANTS
    Libraries <- AllLibraries
    Questions <- AllQuestions
    DocumentIds = {1, 2, 9}
    Descriptions = {"look", "42", Number42, Missing}
    Limit = 2
    MaxAlterations = 2
    NotABool = NotABool
    Malformed = Malformed
    Missing = Missing
    None = None
    Printed <- PrintedValues
    Number42 = Number42
    NoLibrary = NoLibrary
INVARIANTS
    TypeOK
    PassedIsFaithful
    GraphJudgedRight
    RetrievesTheBest
