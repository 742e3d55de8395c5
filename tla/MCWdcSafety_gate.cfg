SPECIFICATION Spec
CONSTANTS
    relay = relay
    led = led
    button = button
    ctl = ctl
    blink = blink
    NoApp = NoApp
    PinOrder <- MCPinOrder
    SafeLevel <- MCSafeLevel
    App <- MCApp
    Caps <- MCCaps
    Second = 3
    MaxTime = 6
INVARIANTS TypeOK ReportedSafeIsSafe StoppedIsSafe CallsAreSpaced
PROPERTIES OutputsMoveByRight
