SPECIFICATION ReportSpec
CONSTANTS
  MaxSeries = 3
  Rank <- Names
  Width = 3
  Offset = 8
  Nothing = Nothing
INVARIANTS
  DrawnIsChecked
  OverviewAgrees
  ShiftedOnce
  GreyMeansHidden
