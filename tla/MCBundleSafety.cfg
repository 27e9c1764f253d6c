\* Two opportunities on one token, one on a V2 pool and one on a V3 pool, two relays, a
\* restart; relays and watches may fail.
SPECIFICATION Spec
CONSTANTS
    t1 = t1
    v3 = v3
    Bundle = {b1, v3}
    Token = {t1}
    TokenOf <- OneToken
    V3Tokens <- OneV3
    Relay = {fb, r2}
    Flashbots = fb
    Flaky = {fb, r2}
    LossyWatch = TRUE
    Revenue = 1
    StartWeth = 1
    MaxBlock = 2
    MaxEpoch = 2
INVARIANTS TypeOK NonceNotAhead TrackedBalanceBacked Affordable DustBacked OneAtATime
