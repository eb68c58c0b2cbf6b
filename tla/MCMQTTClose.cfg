SPECIFICATION FairSpec
CONSTANTS
  MQTTCLIENT_QOS2 = TRUE
  MAX_MESSAGE_HANDLERS = 2
  MAX_INCOMING_QOS2_MESSAGES = 2
  MAX_PACKET_ID = 3
  KeepAlive = TRUE
  Topics = {"tmp"}
  CleanSession = TRUE
  Writes = {"sent"}
  OutMsgs = {1}
  InMsgs = {11}
  QoSs = {2}
  MaxFaults = 1
  Reopens = FALSE
  DrainsFirst = TRUE
  Topic = "tmp"
  InQoSs = {0}
  Refuses = FALSE
  MaxBreaks = 1
  MaxCalls = 1
  MaxQueue = 2
PROPERTIES NoNeedlessClose DeadLinkNoticed
