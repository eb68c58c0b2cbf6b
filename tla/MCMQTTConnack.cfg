SPECIFICATION Spec
CONSTANTS
  MQTTCLIENT_QOS2 = FALSE
  MAX_MESSAGE_HANDLERS = 2
  MAX_INCOMING_QOS2_MESSAGES = 2
  MAX_PACKET_ID = 3
  KeepAlive = FALSE
  Topics = {"tmp"}
  CleanSession = FALSE
  Writes = {"sent", "failed", "late"}
  OutMsgs = {1, 2}
  InMsgs = {}
  QoSs = {2}
  MaxFaults = 2
  Reopens = TRUE
  DrainsFirst = TRUE
  Topic = "tmp"
  InQoSs = {1}
  Refuses = FALSE
  MaxBreaks = 1
  MaxCalls = 0
  MaxQueue = 3
PROPERTIES ConnectedMeansAccepted
