SPECIFICATION FairSpec
INVARIANTS RunsInOrder SetupUsable ImagesWhole LimitKept
PROPERTIES ToolsSettle
CHECK_DEADLOCK FALSE
