\* A teleprompter's text of three lines in two slots, scrolled twice.
CONSTANTS
    Parts = {"lines"}
    small = small
    large = large
    Settings = {small, large}
    NoSettings = NoSettings
    NoUpload = NoUpload
    Fonts = {small, large}
    Lines <- MCLines
    Slots <- MCSlots
    TextSize <- MCTextSize
    Margin = 0
    LineSlots = 2
    MaxChanges = 2
    one = one
    two = two
    empty = empty
    letter = letter
    wide = wide
    space = space
    return = return
    newline = newline
    FlowWidths = {3, 4}
    FlowLength = 0
    Patterns = {bars, ramp}
SPECIFICATION AllSpec
PROPERTY SkippedLinesAreDrawn
CHECK_DEADLOCK FALSE
