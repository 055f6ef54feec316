CONSTANTS
    None = None
    Instances <- MCInstances
    VswOrders <- MCVswOrders
SPECIFICATION Spec
INVARIANT UnknownMajorIgnored
