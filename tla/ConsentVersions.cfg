\* Two members of staff who race over one template with versions, deployments
\* and a widget.
CONSTANTS
  Templates = {t1}
  Widgets = {w1}
  Apps = {a1}
  Editors = {e1, e2}
  Routes = {"createVersion", "editTemplate", "removeTemplate", "deploy", "updateDeployment", "rollback", "removeDeployment", "publish", "enable", "disable", "updateWidget", "archiveWidget"}
  StartsLive = TRUE
  StartContents = {"combined"}
  MaxCalls = 4
SPECIFICATION Spec
INVARIANTS
  VersionsTypeOK
  VersionsNumbered
  LiveWithinEditors
CHECK_DEADLOCK FALSE
