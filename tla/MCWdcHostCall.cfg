SPECIFICATION Spec
CONSTANTS
    k1 = k1
    k2 = k2
    k3 = k3
    long = long
    t1 = t1
    t2 = t2
    t3 = t3
    once = once
    short = short
    wide = wide
    huge = huge
    full = full
    tight = tight
    Key <- MCKey
    TimerId <- MCTimerId
    Value = {short, wide, huge}
    TimerSpec = {once}
    Size <- MCSize
    LongKey = {long}
    ConfigValueMax = 2
    ConfigSlots = 2
    TimerSlots = 2
    App = {full, tight}
    NoApp = NoApp
    Caps <- MCCaps
    Limits <- MCLimits
    Default <- MCDefault
    None = None
SYMMETRY Symmetry
INVARIANT TypeOK
PROPERTIES ConfigIsMap TimersAreMap EffectsByRight
