\* Tags of the four types, six NDEF messages each way, two parameters a command.
CONSTANTS
  HostMsgs <- MCHostMsgs
  Meant <- MCMeant
  Room = 191
  MsgLens <- MCMsgLens
  MsgKeys = {1, 2}
  ConfigFields <- MCConfigFields
  MaxParams = 2
SPECIFICATION DataSpec
CHECK_DEADLOCK FALSE
INVARIANTS
  DataTypeOK
  ReadsWhatWasSet
  
  
  ParamsSeparate
