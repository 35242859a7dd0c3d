SPECIFICATION AccountsSpec
CONSTANTS
    None = None
    UserIds = {i1, i2, i3}
    Names = {admin, second, third}
    Strong = {p, q}
    DefaultPassword = admin123
    Requests = {r1}
SYMMETRY Symmetry
INVARIANTS DefaultPasswordGone ConfiguredAdminAtHand
PROPERTY OwnPasswordKept
