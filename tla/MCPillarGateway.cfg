SPECIFICATION Spec
CONSTANTS
    Keys = {"a", "i", "s"}
    Clients = {c1, c2}
    Kinds = {"calculation", "protocol", "amendment", "agent", "edit", "review"}
    Reviewed = {"s"}
    MaxWrites = 3
INVARIANTS
    ReviewIsCurrent
    FreshFollowsSources
PROPERTY ApprovedAsRead
SYMMETRY Symmetry
