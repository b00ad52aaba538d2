\* Two tabs that name two peers.
SPECIFICATION Spec
CONSTANTS
    Tabs = {t1, t2}
    Peers = {p1, p2}
    Names = {a, b}
    NoName = NoName
    Off = Off
INVARIANTS
    NamesKept
    TabsAgree
SYMMETRY NamesSymmetry
