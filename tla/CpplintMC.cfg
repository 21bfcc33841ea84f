\* The settings of the code are NamespaceLines = 10, SectionLines = 24, 250 and 400.
CONSTANTS
  Line <- MCLine
  Header <- MCHeader
  HeaderContents <- MCHeaderContents
  Group <- MCGroup
  Scenarios <- MCScenarios
  Scenario <- MCScenario
  NamespaceLines = 3
  SectionLines = 4
  _NORMAL_TRIGGER = 1
  _TEST_TRIGGER = 2
  MacroNames = {"M"}
SPECIFICATION LintSpec
CHECK_DEADLOCK FALSE
INVARIANTS
  FilesStartAfresh
  ReportsExactly
  NestingFollowsFirstBranch
  IncludesJudged
