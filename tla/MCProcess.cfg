\* Three calls on two threads; two processes that boot three times; every
\* environment and .env.
SPECIFICATION Spec
CONSTANTS
  Calls = {k1, k2, k3}
  NoGraph = NoGraph
  PoolSize = 2
  Configs <- MCConfigs
  Procs = {"old", "new"}
  Products = {"p1", "p2"}
  Orders = {"o1", "o2"}
  Lines <- MCLines
  MaxBoots = 3
INVARIANTS
  TypeOK
  NoModelStillAnswers
  CompilesBounded
  HealthIsHonest
  UpMeansComplete
  SdkKeyIsTheDeployments
  
  TraceIsTheCases
PROPERTIES
  EveryCallIsAnswered
  SeedingKeepsAndCompletes
\* Clients may stop calling, processes stay down, and one case is traced.
CHECK_DEADLOCK FALSE
