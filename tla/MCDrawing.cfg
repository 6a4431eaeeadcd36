\* Lines: a text of three lines in two slots, and one of two lines in one slot.
\* Line breaks: every text of up to four characters of five kinds, in lines wider
\* than every character. Two test patterns; two texts of two sizes and an empty one.
CONSTANTS
    Parts = {"lines", "flow", "pattern", "text"}
    small = small
    large = large
    Settings = {small, large}
    NoSettings = NoSettings
    NoUpload = NoUpload
    Fonts = {small, large}
    Lines <- MCLines
    Slots <- MCSlots
    TextSize <- MCTextSize
    Margin = 0
    LineSlots = 2
    MaxChanges = 2
    one = one
    two = two
    empty = empty
    letter = letter
    wide = wide
    space = space
    return = return
    newline = newline
    FlowWidths = {3, 4}
    FlowLength = 4
    Patterns = {bars, ramp}
SPECIFICATION AllSpec
INVARIANT DrawnImagesAreCurrent
PROPERTIES
    PatternsPublishTheDesired
    ImagesAreDrawn
CHECK_DEADLOCK FALSE
