CONSTANTS
    MaxUptime = 2
    MaxRestarts = 1
    MaxPublishes = 2
SPECIFICATION Spec
INVARIANT PublishedIsSnapshot
