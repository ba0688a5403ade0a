SPECIFICATION Spec
CONSTANTS
  caller = caller
  silent = silent
  Users <- MCUsers
  Callers <- MCCallers
  Leavers <- MCLeavers
  NudgeAge = 1
  AbsentAge = 2
  DigestWindow = 4
  MonthDays = 3
  MaxTasks = 2
  MaxMishaps = 1
PROPERTY
  WinBackSelectsTheAbsent
