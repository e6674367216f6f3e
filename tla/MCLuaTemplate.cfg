CONSTANTS
    MaxText = 3
    MaxCode = 3
    Characters <- MCCharacters
    Pages <- MCPages
SPECIFICATION FairSpec
INVARIANTS ScriptStructure BodyAsPage
PROPERTIES TranslationEnds
CHECK_DEADLOCK FALSE
