SPECIFICATION FairHSpec
CONSTANTS
  e1 = e1
  e2 = e2
  e3 = e3
  p1 = p1
  p2 = p2
  Listener = bot
  Execs = {e1, e2, e3}
  Long = {e1, e2}
  Processes = {p1, p2}
  Home <- MCHome
  Ttl = 5
  Tries = 2
  MaxMissed = 3
  MaxMisreads = 1
INVARIANTS TypeOK HeldLeaseIsAlive OneHolder IntrudesOnce
PROPERTY ListenerComesBack
