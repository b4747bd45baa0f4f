CONSTANTS
    Handlers = {h1, h2}
SPECIFICATION Spec
INVARIANTS ShutsDownGracefully
CHECK_DEADLOCK FALSE
