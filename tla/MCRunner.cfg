SPECIFICATION Spec
CONSTANTS
    Calls = {c1}
    BodyKeys = {"status"}
    LiftedKeys = {"trace", "tenant"}
    RequiredKeys = {"tenant"}
    UnknownKeys = {"extra"}
    Scopes = {"s1", "s2", "s3"}
    NoToken = NoToken
    Tokens <- MCTokens
    Bodies <- MCBodies
    Requirements <- MCRequirements
    HasPreprocessor = TRUE
    HasSecrets = TRUE
    HasPolicy = TRUE
    HasExecutor = TRUE
    SharedPolicies <- MCShared
    PlanPolicies <- MCPlan
    Fields = {"pets", "etag", "total"}
    HeaderFields = {"etag", "total"}
    RequiredHeaders = {"etag"}
    Redacted = {"pets", "total"}
INVARIANTS Gated InputOrigins NothingDropped RefusedWithoutEffect OutputsVetted HeadersComplete
