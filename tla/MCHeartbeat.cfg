SPECIFICATION Spec
CONSTANTS
 Node = {n1}
 Proc = {"a"}
 SiteOf <- MCSiteOf
 Home = "A"
 TaskEvery = 2
 ClusterMisses = 2
 MaxDelay = 1
 MaxAge = 3
 MaxTasks = 2
 MaxStops = 2
 MaxLost = 1
 Nothing = Nothing
PROPERTY TimeoutIsTrue
