SPECIFICATION Spec
CONSTANTS
  a = a
  b = b
  g1 = g1
  g2 = g2
  g3 = g3
  None = None
  User = {a, b}
  Robot = {}
  Conn = {g1, g2}
  Owner <- OwnerOf2
  Service = {s1}
  PoolInit = {s1}
  MaxTable = 1
  MaxChair = 2
  MaxDel = 1
  Ops = {"sit", "change"}
  FullReady = TRUE
  JoinPlaying = FALSE
  Watcher = {}
  Stake = {TRUE}
INVARIANT SitsFromNowhere
