SPECIFICATION VisitSpec
CONSTANTS
    Products <- MCProducts
    Variants <- MCVariants
    product <- MCproduct
    variant <- MCvariant
    Queries <- MCQueries
    Categories <- MCCategories
    RowOrder <- MCRowOrder
    Preferences <- MCPreferences
    NoProduct = 0
    NoBrand = "none"
    NoTerm = "any"
    Dearest = 9
    DefaultLimit = 1
    MaxLimit = 2
    MaxChanges = 2
    Supported = {"sv", "en"}
    DefaultLocale = "sv"
    NoHeader = "none"
    MaxPreferences = 2
INVARIANTS
    VisitInv
    EachOnce
    AnswerAddsUp
    MenuIsATree
    SpokenAsAsked
