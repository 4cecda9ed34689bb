\* Every way to cut the streams of two clients into chunks.
SPECIFICATION Spec
CONSTANTS
  t1 = t1
  t2 = t2
  t3 = t3
  noise = noise
  Telegrams = {t1, t2, t3}
  Noise = noise
  SigSize = 2
  HeaderSize = 4
  BodySize <- Sizes
  Streams <- TwoClients
  MaxChunk = 20
CHECK_DEADLOCK FALSE
INVARIANTS
  TypeOK
  OnlyTelegrams
  WholeHeadersDelivered
