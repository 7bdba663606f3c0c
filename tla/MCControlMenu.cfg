SPECIFICATION Spec
CONSTANTS
  Worker = {w1, w2}
  MaxMessages = 6
  MaxEvents = 1
  Text = {"/start","/list","/addbot","0","1",""}
  Quoted = {}
  FirstBots = {}
SYMMETRY WorkerSymmetry
CHECK_DEADLOCK FALSE
INVARIANTS
  NoEmptyAgent
  ShownLostOnlyIfItFell
  MarkedWasChosen
