SPECIFICATION SharedSpec
CONSTANTS
    NumLayers = 2
    Vocabulary = {t1}
    MaxPrefix = 2
    Capacity = 2
    TokenIds = {t1, bad}
    MaxPrompt = 2
    Torn = Torn
    Embed <- TermEmbed
    Query <- TermQuery
    KV <- TermKV
    Attention <- TermAttention
    AttProj <- TermAttProj
    Fc <- TermFc
    FcProj <- TermFcProj
    Add <- TermAdd
    Unembed <- TermUnembed
    Hidden <- TermHidden
    Session = session
    Others = {other}
    OtherCalls <- MCOtherCalls
    ChannelCount = 1
    VocabularySize = 2
    Longest = 4
INVARIANTS
    SharedInv
    ViewStaysValid
PROPERTY
    SharingIsTransparent
