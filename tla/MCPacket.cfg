CONSTANTS
  Digits = {1, 2, 4}
  Numbers = {0, 9, 10, 99, 100, 9999}
  Payloads <- SomePayloads
  HashLen = 3
  packet_size = 2
  Noise <- SomeNoise
  MaxDamage = 2
SPECIFICATION Spec
INVARIANTS
  RoundTrip
  AcceptedIsGenuine
  ServerIsHarmless
CHECK_DEADLOCK FALSE
