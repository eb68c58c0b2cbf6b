SPECIFICATION Spec
CONSTANTS
  MQTTCLIENT_QOS2 = FALSE
  MAX_MESSAGE_HANDLERS = 2
  MAX_INCOMING_QOS2_MESSAGES = 2
  MAX_PACKET_ID = 3
  KeepAlive = FALSE
  Topics = {"tmp"}
  CleanSession = TRUE
  Writes = {"sent"}
  OutMsgs = {}
  InMsgs = {11}
  QoSs = {2}
  MaxFaults = 0
  Reopens = FALSE
  DrainsFirst = TRUE
  Topic = "tmp"
  InQoSs = {2}
  Refuses = FALSE
  MaxBreaks = 0
  MaxCalls = 1
  MaxQueue = 3
PROPERTIES NoNeedlessClose
