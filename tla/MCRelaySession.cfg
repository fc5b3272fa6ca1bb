SPECIFICATION Spec
CONSTANTS
  Channel = {1, 2}
  ChannelFrames = 2
  SessionFrames = 4
  Slots = 2
  ControlFrames = 2
  CommandFrames = 1
  IncomingFrames = 1
  WireFrames = 1
  Up <- MCUp
  Down <- MCDown
  May <- MCMay
  Upsets = {"connector", "daemon", "timeout", "transport"}
INVARIANTS  StreamsInOrder  NothingIsStuck
