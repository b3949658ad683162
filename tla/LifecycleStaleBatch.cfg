SPECIFICATION WatchedSpec
CONSTANTS
  Actors = {a1, a2}
  Addresses = {ip1}
  Tasks = {"realtime", "absent", "sync"}
  Moves = FALSE
  NoOne = NoOne
SYMMETRY ActorSymmetry
INVARIANT OnlineMatchesStatus
