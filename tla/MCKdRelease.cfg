SPECIFICATION Spec
CONSTANTS
    Sockets = {main, sub}
    NoSocket = NoSocket
    Sensors = {imx}
    NoSensor = NoSensor
    Files1 = {f1, f2}
    Files2 = {}
    MaxPower = 2
PROPERTY LastCloseOnly
