SPECIFICATION FairSpec
CONSTANTS
    cheap = cheap
    mid = mid
    strong = strong
    odd = odd
    f1 = f1
    None = None
    NPacks = 4
    Profiles = {cheap, mid, strong, odd}
    KeyOf <- PoolKeyOf
    CacheOf <- PoolCacheOf
    ReviewProfile <- PoolReviewProfile
    VerifyProfile <- PoolVerifyProfile
    Escalated <- PoolEscalated
    Known <- PoolKnown
    Shallow = {1}
    Jobs = 2
    MaxFailures = 2
    Incompatible <- PoolIncompatible
    Failures = {"failed_quota", "failed_timeout", "failed_malformed"}
    Findings = {f1}
    Warm = {1}
    StoreFailures = {"failed_quota"}
INVARIANTS
    BoundedOvershoot
    NoRepeatedCall
    SkippedOnlyWhenExhausted
    Accounted
PROPERTIES
    Finishes
