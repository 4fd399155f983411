SPECIFICATION FairSpec
CONSTANTS Loops = {{"beat"}, {"beat", "probe"}, {"beat", "digest"}}
          MaxStops = 1
          MaxCuts = 1
          MaxSent = 1
          MaxDown = 1
INVARIANT SessionInv
PROPERTIES AloneComesBack ThreadsReturn
CHECK_DEADLOCK FALSE
