\* One failed send marks a row failed, and no later round selects it.
SPECIFICATION KafkaFairSpec
CONSTANTS
  w1 = w1
  w2 = w2
  Events = {1, 2, 3}
  Workers = {w1}
  Limit = 2
  MaxCopies = 2
  MaxSends = 4
  TripAt = 2
  MaxRequests = 2
PROPERTY GuaranteedDelivery
