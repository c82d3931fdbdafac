\* Three messages through a queue of two and two connections; what the broker
\* sends arrives in blocks of two bytes.
SPECIFICATION FairSpec
CONSTANTS
  MQTT_QUEUE_SIZE = 2
  MAX_PACKET_ID = 2
  BLOCK = 2
  PacketTypes = {"publish", "disconnect"}
  MAX_PACKET_SIZE = 2
  MAX_INBOUND = 2
  MAX_MESSAGES = 3
  MAX_CONNECTIONS = 2
INVARIANTS
  SentOnceInOrder
  PacketIds
  LossToldOnce
PROPERTIES
  QueueServed
  LossNoticed
CHECK_DEADLOCK FALSE
