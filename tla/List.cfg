CONSTANTS
    Element = {e1, e2, e3, e4}
    Item = {a, b}
    Key = {0, 1}
    NULL = NULL
SPECIFICATION Spec
INVARIANT ListIsLinked
PROPERTY ImplementsListSpec
