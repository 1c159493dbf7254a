SPECIFICATION InjectionSpec
CONSTANT NoOne = NoOne
PROPERTY WatchdogLetsGo
CHECK_DEADLOCK FALSE
