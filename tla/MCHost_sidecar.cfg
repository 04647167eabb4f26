\* Two jobs of one key on a host: the sidecar of one beside the archive of the other.
CONSTANTS
    Parts = {"shared cache"}
    both = both
    far = far
    none = none
    NoHost = NoHost
SPECIFICATION Spec
INVARIANT SidecarIsOfArchive
CHECK_DEADLOCK FALSE
