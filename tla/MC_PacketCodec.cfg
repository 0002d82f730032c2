\* A string of its own, apart from the numbers; frames nobody sent have up to
\* three fields, enough for an id that another one overrides, or a known field
\* behind one that ends the parse.
SPECIFICATION Spec
CONSTANTS
    Strings = {5, 6}
    MaxFields = 3
INVARIANTS
    TypeOK
    SentIsHandled
    HandlerGetsValid
