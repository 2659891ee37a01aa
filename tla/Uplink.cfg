SPECIFICATION Spec
CONSTANTS
    Nets = {a, b}
    NoNet = none
    SecretsNet = a
    RouterNets = {a}
    BackoffStart = 1
    BackoffMax = 2
    Half = 3
    Threshold = 2
    MaxUpsets = 1
    Watched = {"none", "net", "bridge", "power"}
INVARIANTS
    PasswordsBelong
    PoweredUnlessPulsed
    EpisodeIsWhole
PROPERTIES
    PulsesSpaced
    ComesOnline
    OutageGetsPulse
CHECK_DEADLOCK FALSE
