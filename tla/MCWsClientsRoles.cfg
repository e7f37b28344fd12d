SPECIFICATION Spec
CONSTANTS
    MAX_WS_CLIENTS = 2
    Fd = {f1, f2, f3}
    Httpd = httpd
    Broadcaster = {input, tick}
INVARIANTS
    RolesAgree
