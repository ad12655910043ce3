SPECIFICATION Spec
CONSTANTS
  boss = boss
  kid = kid
  twin = twin
  extra = extra
  solo = solo
  pair = pair
  batcher = batcher
  Recs = {boss, kid, twin, extra}
  Id <- MCId
  Up <- MCUp
  Lifo = {kid}
  Timed = {twin, extra}
  Vanish = {twin}
  Attempts = 2
  Watched = {"b", "k"}
  Budgeted = {boss, twin, extra}
  OnExceeded = "pause"
  Awaited = {kid}
  Workers = {solo, pair, batcher}
  Batch <- MCBatch
  Linger = {batcher}
  Slots <- MCSlots
  Races = {}
  Profiles <- MCProfiles
CHECK_DEADLOCK FALSE
INVARIANTS OneRunner NotStranded NobodyForgotten SchedulerGoesOn
