\* USE_FAKER=false with an invalid FAKER_LOCALE, and requests that ask for Faker.
CONSTANTS
    a = a
    b = b
    c = c
    v1 = v1
    v2 = v2
    v3 = v3
    v4 = v4
    Text <- MCText
    EType = {"PERSON"}
    AlwaysOpaque = {}
    Value <- MCValue
    Locale = {}
    ValidLocale = {}
    NoLocale = "default"
    NoFaker = "no_faker"
    DefaultFaker = "default_faker"
    Hash = "hash"
    UseFaker = FALSE
    CacheMaxSize = 2
    FakerLruMax = 1
    MaxAttempts = 2
    Generators <- MCGenerators
    Fallback <- MCFallback
    MaxRequestSize = 2
SPECIFICATION Spec
INVARIANTS OverrideWorks
