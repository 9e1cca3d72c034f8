CONSTANTS
  SigWaiters <- MCTasks2
  SigNotifiers <- MCNotifiers2
  Consumers <- MCConsumers
  Producers <- MCProducers2
  Supervisor = "superviser"
  NoHolder = NoHolder
  CacheSize = 5
  Required = 1
  HeapMax = 6
SPECIFICATION Spec
PROPERTY ProducerReleased
