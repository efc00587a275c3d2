SPECIFICATION Spec
CONSTANTS
    Sockets = {main, sub}
    NoSocket = NoSocket
    Sensors = {imx, ov}
    NoSensor = NoSensor
    Files1 = {f1}
    Files2 = {g}
    MaxPower = 2
INVARIANTS
    TypeOK
    EnabledIsWhole
    OpenIsPowered
    PowerBalance
    ClosedIsDark
SYMMETRY Symmetry
