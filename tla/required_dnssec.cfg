CONSTANTS
    n1 = n1
    n2 = n2
    hosting = hosting
    loop = loop
    here = here
    there = there
    p = p
    None = None
    Name = {n1, n2}
    Common <- MCCommon
    Elsewhere = {hosting, loop}
    Endpoints = {here, there}
    Scenes <- MCScenes
    Requests <- MCRequests
    Republished <- MCRepublished
    Capacity = 2
    MaxChanges = 1
    MaxFaults = 2
SPECIFICATION Spec
INVARIANTS
    RequiredDnssecHolds
CHECK_DEADLOCK FALSE
