\* One source, two captures and two senders alive at once, and one stream.
CONSTANTS
    Captures = {c1, c2}
    Sources = {studio}
    Senders = {s1, s2}
    Streams = {st1}
    None = None
    Unset = Unset
SPECIFICATION Spec
INVARIANTS
    DevicesAreUsedInTime
PROPERTIES
    RetiredDevicesEnd
