\* One address, two methods with limits 2 and 1, windows of two ticks, one fault.
CONSTANTS
    caddy = caddy  r1 = r1  r2 = r2
    Address = {caddy}
    Method = {"GET", "POST"}
    Limits <- MCLimits
    Window = 2
    Request = {r1, r2}
    MaxCount = 3
    MaxFaults = 1
SPECIFICATION Spec
INVARIANTS TypeOK SlidingBound EndlessNeedsFault
PROPERTIES BlockedEnds
