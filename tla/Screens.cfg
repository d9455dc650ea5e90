CONSTANTS
    Queries = {"a", "b"}
    Configs <- MCConfigs
    Batch = 1
    Ttl = 0
    MaxTotal = 1
    MaxClock = 2
    Heights = {1, 2, 3, 4}
    Fronts = {"dashboard", "pulls", "inbox", "palette", "panels"}
    Nothing = Nothing
    Unread = Unread
    Missing = Missing
    None = None
    MinWidth = 40
    MinHeight = 10
    Viewer <- Me
    ViewerWidth = 20
    Details <- MCDetails
    Lists <- MCLists
    PullSizes <- MCPullSizes
    FoldMin = 3
    Inboxes <- MCInboxes
    Looks <- MCLooks
    InboxSizes <- MCInboxSizes
    Spelling <- MCSpelling
    Keymaps <- MCKeymaps
    Boundaries = {1, 2, 3}
    Space = 1
    Letters = {1, 2, 4, 5}
    MaxQuery = 3
    PaletteHeights = {10, 24}
    PageRows = 10
    Surfaces <- MCSurfaces
    PanelSizes <- MCPanelSizes
    Messages <- MCMessages
    Reasons <- MCReasons
    SettingRows <- MCSettingRows
    Globals <- MCGlobals
SPECIFICATION ScreensSpec
INVARIANTS CountsWereTrue DrawnFits DocumentIsComplete FocusIsDrawn  NothingIsPushedOut
PROPERTIES FreshIsFresh NameFindsIt
