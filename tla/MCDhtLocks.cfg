SPECIFICATION Spec
CONSTANTS
    Listener = listener
    Services = {service}
    Nobody = nobody
PROPERTY LockReturns
CHECK_DEADLOCK FALSE
