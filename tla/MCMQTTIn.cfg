SPECIFICATION Spec
CONSTANTS
  MQTTCLIENT_QOS2 = TRUE
  MAX_MESSAGE_HANDLERS = 2
  MAX_INCOMING_QOS2_MESSAGES = 2
  MAX_PACKET_ID = 1
  KeepAlive = FALSE
  Topics = {"tmp"}
  CleanSession = FALSE
  Writes = {"sent", "failed", "late"}
  OutMsgs = {}
  InMsgs = {11, 12}
  QoSs = {2}
  MaxFaults = 1
  Reopens = TRUE
  DrainsFirst = TRUE
  Topic = "tmp"
  InQoSs = {2}
  Refuses = TRUE
  MaxBreaks = 1
  MaxCalls = 2
  MaxQueue = 3
INVARIANTS TypeOK HeardOnce HandlersUnique
PROPERTIES NoNeedlessClose
