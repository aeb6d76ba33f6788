SPECIFICATION Spec
CONSTANTS
    Clients = {c1}
    Registrar = registrar
    Units = {u1}
PROPERTIES
    LookupReturns
CHECK_DEADLOCK FALSE
