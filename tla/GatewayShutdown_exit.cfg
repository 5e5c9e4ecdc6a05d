\* A signal to a gateway with or without the observer.
SPECIFICATION Spec
CONSTANTS
    Slots = {1, 2, 3}
    MaxTime = 3
    Others <- ServerAndWatcher
PROPERTY GatewayExits
CHECK_DEADLOCK FALSE
