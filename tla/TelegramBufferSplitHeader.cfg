\* A header that arrives in two chunks behind another telegram.
SPECIFICATION Spec
CONSTANTS
  t1 = t1
  t2 = t2
  t3 = t3
  noise = noise
  Telegrams = {t1, t2, t3}
  Noise = noise
  SigSize = 2
  HeaderSize = 4
  BodySize <- Sizes
  Streams <- OneClient
  MaxChunk = 8
CHECK_DEADLOCK FALSE
INVARIANTS
  EveryTelegramDelivered
