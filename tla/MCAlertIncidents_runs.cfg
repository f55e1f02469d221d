CONSTANTS
  Jobs = {j1, j2}
  SERVER_DOWN_ID = server
  Runs = {timer}
  Senders = {timer}
  ChunkLines = 1
  MaxChanges = 3
  MaxOutages = 1
  MaxFaults = 2
  j1 = j1
  j2 = j2
  timer = timer
  server = server
SPECIFICATION FairSpec
INVARIANTS BeliefFollowsFile NoRepeats
PROPERTIES TruthfulLines EventuallyInformed
