SPECIFICATION ReportSpec
CONSTANTS
  ProjectScans = {1, 2}
  Components = {1}
  Licences = {l1}
  Forbidden = {l1}
  Permitted = {}
  Obliged = {l1}
  Cves = {v1}
  Critical = {v1}
  Unrated = {}
  DrawerCap = 1
CHECK_DEADLOCK FALSE
PROPERTIES
  NoticeFollowsSuccess
