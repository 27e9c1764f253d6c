\* One bot, the flashbots relay reliable: do the books catch up with the chain?
SPECIFICATION Spec
CONSTANTS
    t1 = t1
    v3 = v3
    Bundle = {b1, b2}
    Token = {t1}
    TokenOf <- OneToken
    V3Tokens <- AllV2
    Relay = {fb, r2}
    Flashbots = fb
    Flaky = {r2}
    LossyWatch = FALSE
    Revenue = 1
    StartWeth = 1
    MaxBlock = 2
    MaxEpoch = 1
PROPERTIES EventuallyAccounted NonceCatchesUp
