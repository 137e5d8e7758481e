\* SURROGATE_CACHE_MAX_SIZE=0: a request larger than the cache.
CONSTANTS
    a = a
    b = b
    c = c
    v1 = v1
    v2 = v2
    v3 = v3
    v4 = v4
    Text <- MCText
    EType = {"PERSON"}
    AlwaysOpaque = {}
    Value <- MCValue
    Locale = {}
    ValidLocale = {}
    NoLocale = "default"
    NoFaker = "no_faker"
    DefaultFaker = "default_faker"
    Hash = "hash"
    UseFaker = TRUE
    CacheMaxSize = 0
    FakerLruMax = 1
    MaxAttempts = 2
    Generators <- MCGenerators
    Fallback <- MCFallback
    MaxRequestSize = 3
SPECIFICATION Spec
INVARIANTS VaultComplete
