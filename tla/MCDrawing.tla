------------------------------ MODULE MCDrawing -------------------------------
(* The nodes that draw what they render on the CPU for TLC: a behaviour is     *)
(* about a teleprompter's lines, the breaking of its text into lines, a test   *)
(* pattern or a text, and leaves the other nodes in an initial state.          *)
EXTENDS Teleprompter

CONSTANTS Parts, small, large, one, two, empty,
          letter, wide, space, return, newline, FlowWidths, FlowLength, Patterns

VARIABLES part,
          string, width, start,
          option, optionChanges, desired, published, failed, generation,
          textWanted, textChanges, prepared, version, info, textDrawn

MCLines == (small :> 3) @@ (large :> 2)
MCSlots == (small :> 2) @@ (large :> 1)
MCTextSize == (small :> 1) @@ (large :> 2)

Flow == INSTANCE LineFlow WITH
    Characters <- {letter, wide, space, return, newline}, Spaces <- {space, return, newline},
    Return <- return, Newline <- newline,
    Advance <- (letter :> 1) @@ (wide :> 2) @@ (space :> 1) @@ (return :> 0) @@ (newline :> 0),
    Widths <- FlowWidths, MaxLength <- FlowLength

Pattern == INSTANCE TestPattern WITH
    Requests <- Patterns, NoRequest <- NoUpload, changes <- optionChanges

TextNode == INSTANCE Text WITH
    Texts <- {one, two, empty}, Empty <- {empty}, Unknown <- NoSettings,
    SurfaceOf <- (one :> 1) @@ (two :> 2), MaxUploads <- 3,
    wanted <- textWanted, changes <- textChanges, drawn <- textDrawn

flowVars == <<string, width, start>>
patternVars == <<option, optionChanges, desired, published, failed, generation>>
textVars == <<textWanted, textChanges, prepared, version, info, textDrawn>>
allVars == <<part, vars, flowVars, patternVars, textVars>>

AllInit ==
    /\ part \in Parts
    /\ Init /\ Flow!Init /\ Pattern!Init /\ TextNode!Init
    /\ part = "lines" \/ wanted.settings = small
    /\ part = "flow" \/ (string = <<>> /\ width = Min(FlowWidths))
    /\ part = "pattern" \/ option = CHOOSE r \in Patterns : TRUE
    /\ part = "text" \/ (textWanted.text = empty /\ textWanted.fonts)

LinesDo(A) == part = "lines" /\ A /\ UNCHANGED <<part, flowVars, patternVars, textVars>>
FlowDoes(A) == part = "flow" /\ A /\ UNCHANGED <<part, vars, patternVars, textVars>>
PatternDoes(A) == part = "pattern" /\ A /\ UNCHANGED <<part, vars, flowVars, textVars>>
TextDoes(A) == part = "text" /\ A /\ UNCHANGED <<part, vars, flowVars, patternVars>>

AllNext ==
    \/ LinesDo(Next)
    \/ FlowDoes(Flow!Next)
    \/ PatternDoes(Pattern!Next)
    \/ TextDoes(TextNode!Next)

\* Frames go on, and the pool's and the transfer threads do what they are given.
Frames ==
    \/ LinesDo(Execute) \/ PatternDoes(Pattern!Execute)
    \/ TextDoes(TextNode!Prepare \/ TextNode!Execute)

Threads ==
    \/ LinesDo(Workers) \/ FlowDoes(Flow!Next)
    \/ PatternDoes(Pattern!GeneratePattern \/ Pattern!UploadPattern)
    \/ TextDoes(TextNode!UploadText)

AllSpec == AllInit /\ [][AllNext]_allVars /\ WF_allVars(Frames) /\ WF_allVars(Threads)

(* What a frame draws belongs together: a line's texture shows that line in    *)
(* the frame's settings, a test pattern is the one it is taken for, a text is  *)
(* drawn in the size it was rendered in; and lines break where they should.    *)
DrawnImagesAreCurrent ==
    /\ DrawnLinesAreCurrent
    /\ Pattern!PublishedIsShown
    /\ TextNode!DrawnTextFits
    /\ part = "flow" => Flow!LinesFitTheWidth

(* A pattern is published only by a frame whose options ask for it.            *)
PatternsPublishTheDesired == [][published' # published => published'.request = option]_allVars

(* When nothing changes any more, what the options ask for is drawn in the     *)
(* end, but for what a failed transfer or a line without a buffer leaves blank; *)
(* a text is broken into lines to its end.                                     *)
ImagesAreDrawn ==
    <>[]CASE part = "lines" -> LinesSettled
          [] part = "flow" -> Flow!Loaded
          [] part = "pattern" -> Pattern!PatternSettled
          [] part = "text" -> TextNode!TextSettled
=============================================================================
