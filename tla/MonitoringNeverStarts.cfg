SPECIFICATION Spec
CONSTANTS
    Nets = {a}
    NoNet = none
    SecretsNet = a
    RouterNets = {}
    BackoffStart = 1
    BackoffMax = 1
    Half = 2
    Threshold = 1
    MaxUpsets = 0
    Watched = {"none"}
PROPERTIES MonitoringStarts
CHECK_DEADLOCK FALSE
