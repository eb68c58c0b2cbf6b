SPECIFICATION FairSpec
CONSTANTS
  MQTTCLIENT_QOS2 = FALSE
  MAX_MESSAGE_HANDLERS = 2
  MAX_INCOMING_QOS2_MESSAGES = 2
  MAX_PACKET_ID = 3
  KeepAlive = TRUE
  Topics = {"tmp"}
  CleanSession = TRUE
  Writes = {"sent"}
  OutMsgs = {}
  InMsgs = {}
  QoSs = {1}
  MaxFaults = 0
  Reopens = TRUE
  DrainsFirst = TRUE
  Topic = "tmp"
  InQoSs = {1}
  Refuses = FALSE
  MaxBreaks = 1
  MaxCalls = 0
  MaxQueue = 3
PROPERTIES Reconnects
