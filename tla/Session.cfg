SPECIFICATION FairSpec
CONSTANTS
    NumLayers = 2
    Vocabulary = {t1, t2}
    MaxPrefix = 3
    Capacity = 2
    TokenIds = {t1, t2, bad}
    MaxPrompt = 3
    Torn = Torn
    Embed <- TermEmbed
    Query <- TermQuery
    KV <- TermKV
    Attention <- TermAttention
    AttProj <- TermAttProj
    Fc <- TermFc
    FcProj <- TermFcProj
    Add <- TermAdd
    Unembed <- TermUnembed
    Hidden <- TermHidden
INVARIANTS
    PublishedPrefixIntact
    LogitsMatchForward
    SessionInv
PROPERTIES
    OnlySuccessPublishes
    CallsTerminate
    ImplementsSession
