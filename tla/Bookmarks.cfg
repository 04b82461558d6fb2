SPECIFICATION Spec
CONSTANTS
  p1 = p1
  p2 = p2
  p3 = p3
  f1 = f1
  f2 = f2
  c1 = c1
  c2 = c2
  g1 = g1
  Paths <- MCPaths
  FolderIds <- MCFolderIds
  CommandIds <- MCCommandIds
  GroupIds <- MCGroupIds
  Boots <- MCBoots
  Imports <- MCImports
  None = None
  MaxOps = 3
PROPERTIES OnlyImportsHide OnlyImportsTie MovesAsAsked ChildrenKeepTheirOrder
CHECK_DEADLOCK FALSE
