SPECIFICATION MCSpec
CONSTANT Nothing = Nothing
PROPERTIES StreamEnds WalkEnds SpawnEnds CallEnds
CHECK_DEADLOCK FALSE
