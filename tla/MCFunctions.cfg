SPECIFICATION FunctionsSpec
CONSTANTS
    k1 = k1
    k2 = k2
    k3 = k3
    CL_BIG_PRIME = 10019
    ClassifierTable <- MCClassifierTable
    Frames <- MCFrames
    NatPackets <- MCPackets
    HashFlowkey <- MCHash
    NAT_BIG_PRIME = 3
    NAT_BUCKET_SIZE = 3
    U16 = 4
    MaxPort = 3
    FiveTuples = {k1, k2, k3}
    NotIpv4 = NotIpv4
    MtnfHashVal <- MCHashVal
    FW_BIG_PRIME = 2
    FW_BUCKET_SIZE = 2
    FwBatch = 3
    RuleBound = 4
    IDS_RULE_NUM = 2
    STR_LEN = 6
    LETTERS = 2
    TextBound = 6
    KeySizes = {64, 128, 192, 256}
    CipherKeys <- MCKeys
    InBlocks <- MCBlocks
    Vectors <- MCVectors
    AES_BLOCK_SIZE = 4
    BYTES = 4
    XorByte <- MCXor
    AesEncrypt <- MCEncrypt
    AesDecrypt <- MCDecrypt
    Messages <- MCMessages
    Ivs <- MCIvs
    Payloads <- MCPayloads
    Assocs <- MCAssocs
    Nonces <- MCNonces
    MacLens = {2, 3, 4}
    MinNonce = 1
    MaxNonce = 1
    HandlerMbufs = {1, 2, 3, 4, 5}
    HandlerBatch = 2
    Lengths = {40}
    BatchBound = 3
INVARIANTS
    FunctionsTypeOK
    FlowsGetTheirTenant
    FlowsAreToldApart
    RulesDecide
    FilterIsExact
    MatcherIsSound
    CipherIsFips197
    AesIsUndone
    BlocksAreSound
    BatchesAreAnswered
PROPERTIES
    TranslationIsStable
