\* Requests of up to one text more than the cache holds, under every override.
CONSTANTS
    a = a
    b = b
    c = c
    v1 = v1
    v2 = v2
    v3 = v3
    v4 = v4
    Text <- MCText
    EType = {"PERSON", "TOKEN"}
    AlwaysOpaque = {"TOKEN"}
    Value <- MCValue
    Locale = {de_DE, fr_FR, xx}
    ValidLocale = {de_DE, fr_FR}
    NoLocale = "default"
    NoFaker = "no_faker"
    DefaultFaker = "default_faker"
    Hash = "hash"
    UseFaker = FALSE
    CacheMaxSize = 2
    FakerLruMax = 1
    MaxAttempts = 2
    Generators <- MCGenerators
    Fallback <- MCFallback
    MaxRequestSize = 3
SYMMETRY MCSymmetry
SPECIFICATION Spec
INVARIANTS CacheSound UsedTracked CacheInjective RequestInjective NeverIdentity
