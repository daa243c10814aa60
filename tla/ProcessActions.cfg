SPECIFICATION Spec
CHECK_DEADLOCK FALSE
CONSTANTS
    TreePids = {2, 3, 4}
    Roots = {2, 4}
    MaxTreeInstance = 5
    PolicyPids = {2, 3}
    MaxPolicyInstance = 2
    NiceValues = {0, 5}
    IoValues = {"be7"}
    Capacity = 1
    Exclusions = {{}, {3}}
    InspectorWindows = {w1}
    MaxLife = 5
INVARIANTS
    TreeSignalled
    ActionsHitPicked
    InspectorOwn
PROPERTY EfficiencyHonest
