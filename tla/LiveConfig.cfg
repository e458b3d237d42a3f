\* Changes on both sides, failed refreshes, lost and late posts, restarts.
SPECIFICATION FairSpec
CONSTANTS
    url = url
    base_dn = base_dn
    v1 = v1
    v2 = v2
    Field <- MCField
    Value = {v1, v2}
    Blank = Blank
    NoSection = NoSection
    LocalConfig <- MCLocalConfig
    BrokerConfig <- MCBrokerConfig
    MaxFaults = 2
INVARIANTS
    IInv
    SettingsAreCurrent
    Usable
    NeverPanics
    WithinOneInterval
PROPERTIES
    ChangeApplies
    ShownOnline
