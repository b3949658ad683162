SPECIFICATION ChannelsSpec
CONSTANTS
  Writers = {w1}
  Capacities = {1}
  Reported = {2}
  MaxChannelEdits = 0
  MaxChannelDeaths = 0
  Unregistered = Unregistered
  Gone = Gone
PROPERTIES OvercommitStays
CHECK_DEADLOCK FALSE
