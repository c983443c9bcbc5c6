SPECIFICATION Spec
CONSTANTS
    Assets = {eth, btc}
    LongAssets = {btc}
    MaxPos = 3
    MaxSame = 2
    MaxRungs = 2
    Capacity = 2
    Prices = {2}
    Hazard = FALSE
    None = None
INVARIANTS
    CapsHold
    OwnPrice
    ProbesBuyLabels
