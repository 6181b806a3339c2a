SPECIFICATION DevSpec
CONSTANTS
  Conns = {c1, c2, c3}
  NoConn = NoConn
  Kinds <- ListenerKinds
  Backlog = 2
  MaxSess = 2
  Addrs = {a1, a2}
  NoAddr = NoAddr
  MaxFaults = 2
  MaxMoves = 1
INVARIANTS CrashOnlyByClose EndedIsUnbound DevicesSound
PROPERTIES ServeEnds QueuedIsServed DeviceReplaced PeersMeet
CHECK_DEADLOCK FALSE
