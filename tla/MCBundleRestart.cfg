\* The same with a restart of the bot while a bundle is on its way.
SPECIFICATION Spec
CONSTANTS
    t1 = t1
    v3 = v3
    Bundle = {b1}
    Token = {t1}
    TokenOf <- OneToken
    V3Tokens <- AllV2
    Relay = {fb, r2}
    Flashbots = fb
    Flaky = {}
    LossyWatch = FALSE
    Revenue = 1
    StartWeth = 1
    MaxBlock = 3
    MaxEpoch = 2
PROPERTY NonceCatchesUp
