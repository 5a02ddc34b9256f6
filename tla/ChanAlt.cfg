SPECIFICATION FairSpec
CONSTANTS
  N = 3
  Style = "enbc3"
INVARIANTS TypeOK EnqueueBlocked StateSound DeliveredOnce SelectionSound
PROPERTIES AltCompletes InputCompletes
