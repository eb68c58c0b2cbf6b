SPECIFICATION Spec
CONSTANTS
  MQTTCLIENT_QOS2 = FALSE
  MAX_MESSAGE_HANDLERS = 2
  MAX_INCOMING_QOS2_MESSAGES = 2
  MAX_PACKET_ID = 3
  KeepAlive = FALSE
  Topics = {"tmp"}
  CleanSession = FALSE
  Writes = {"sent"}
  OutMsgs = {1, 2, 3}
  InMsgs = {}
  QoSs = {1}
  MaxFaults = 2
  Reopens = TRUE
  DrainsFirst = FALSE
  Topic = "tmp"
  InQoSs = {1}
  Refuses = FALSE
  MaxBreaks = 2
  MaxCalls = 0
  MaxQueue = 3
INVARIANTS NothingLost
