CONSTANTS
  a = a
  b = b
  Nodes = {a, b}
  Conns = {c1, c2}
  NoConn = NoConn
  Updaters = {t1}
  NoUpdater = NoUpdater
  MinConnections <- BothNeed
  Transports = {"TCP"}
  MaxFaults = 0
SPECIFICATION BothSpec
PROPERTY ReconnectsBothWays
