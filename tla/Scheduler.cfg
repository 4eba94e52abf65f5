\* Two overlapping passes, a one-time and a recurring schedule.
SPECIFICATION FairSpec
CONSTANTS
  NoSchedule = NoSchedule
  Schedules = {once, each}
  Recurring = {each}
  Passes = {p1, p2}
  Take = 2
  MaxDue = 2
  MaxFaults = 2
INVARIANT RunningOwned
INVARIANT OneTimeSentOnce
PROPERTY OverdueSettles
CHECK_DEADLOCK FALSE
