SPECIFICATION Spec
CONSTANTS
    NumLayers = 2
    Vocabulary = {t1, t2}
    MaxPrefix = 3
    TokenIds = {t1, t2, bad}
    MaxTokens = 4
    Zero = Zero
    SizeMax = 23
    MaxFloats = 20
    Configs <- MCConfigs
    Embed <- TermEmbed
    Query <- TermQuery
    KV <- TermKV
    Attention <- TermAttention
    AttProj <- TermAttProj
    Fc <- TermFc
    FcProj <- TermFcProj
    Add <- TermAdd
    Unembed <- TermUnembed
    Hidden <- TermHidden
INVARIANTS
    ForwardInv
    RowsMatchPrefixes
    WorkspaceExact
