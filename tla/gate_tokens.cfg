SPECIFICATION Spec
CONSTANTS
    k1 = k1
    json = json
    stream = stream
    ApiKeys = {k1}
    Workers = {json, stream}
    Streams = {stream}
    KeyOf <- OneKey
    Limits <- TokensOnly
    MaxTokens = 1
    MaxCost = 1
    Window = 2
    Cap = 10
INVARIANTS TpmPerMinute
