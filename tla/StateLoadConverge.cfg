SPECIFICATION FairSpec
CONSTANTS
    c1 = c1
    c2 = c2
    g1 = g1
    g2 = g2
    g3 = g3
    preset = preset
    w1 = w1
    w2 = w2
    loadedDoc = loadedDoc
    Docs <- MCDocs
    BlankDoc <- Blanks
    Effect <- MCEffect
    Gestures = {g1, g2, g3, preset}
    Writes = {w1, w2}
    Plans <- LoadedOnly
    None = None
    WireCap = 1
    Always = 12
CHECK_DEADLOCK FALSE
PROPERTIES Converges
