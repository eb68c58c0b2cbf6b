SPECIFICATION FairSpec
CONSTANTS
  MQTTCLIENT_QOS2 = FALSE
  MAX_MESSAGE_HANDLERS = 2
  MAX_INCOMING_QOS2_MESSAGES = 2
  MAX_PACKET_ID = 2
  KeepAlive = FALSE
  Topics = {"tmp"}
  CleanSession = FALSE
  Writes = {"sent", "failed", "late"}
  OutMsgs = {1, 2}
  InMsgs = {}
  QoSs = {0, 1}
  MaxFaults = 2
  Reopens = TRUE
  DrainsFirst = TRUE
  Topic = "tmp"
  InQoSs = {1}
  Refuses = TRUE
  MaxBreaks = 2
  MaxCalls = 0
  MaxQueue = 3
INVARIANTS NothingLost
PROPERTIES ConnectedMeansAccepted EventuallyReceived Reconnects
