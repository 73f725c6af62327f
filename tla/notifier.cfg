SPECIFICATION FairSpec
CONSTANTS
  HoursPerDay = 3
  ReportHour = 1
  CheckEvery = 1
  MaxPart = 2
  Version <- MCVersion
  Current <- MCCurrent
  MaxHours = 4
  MaxNotices = 2
  None = None
INVARIANTS ThreadGoesOn ReportedOnce NoticesKept
PROPERTIES DayNotForgotten NoticeLeaves
