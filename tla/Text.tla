--------------------------------- MODULE Text ---------------------------------
(* The text node (src/src/nodes/text/text.cpp): the text is rendered on the    *)
(* render thread into an upload whenever it or its font has changed, and the   *)
(* last upload that has come to the GPU is drawn. The upload stream is replaced *)
(* when the rendered text has another size.                                    *)
EXTENDS UploadStream

CONSTANTS
    Texts,      \* the node's options: text, font, size
    Empty,      \* those with an empty text
    Unknown,    \* not observed yet
    SurfaceOf,  \* size of the rendered text
    MaxUploads, \* of the stream: max_slots
    MaxChanges  \* bound: changes of the options, the font list and the input

NoSize == NoUpload

VARIABLES
    wanted,   \* options, font registry and input: [text, fonts, framebuffer]
    changes,
    prepared, \* this frame's prepare has run
    version,  \* the font list has changed since the last prepare
    info,     \* text_info_: [text, needs, surface, stream]; stream's size is NoSize if there is none
    drawn     \* rendered_text_frame_: what is in the texture, and the size it is drawn in

vars == <<wanted, changes, prepared, version, info, drawn>>

NoFrame == [shown |-> Unknown, size |-> NoSize]

-----------------------------------------------------------------------------
\* Fault: the stream goes on when the text takes another size.
StreamKept(i, size) ==
    IF i.surface = NoSize THEN [i EXCEPT !.surface = size, !.stream = NewStream(size)]
    ELSE [i EXCEPT !.surface = size]

StreamFor(i, size) ==
    IF i.surface = size THEN i ELSE [i EXCEPT !.surface = size, !.stream = NewStream(size)]

\* Fault: the update is done although there was no buffer to render into.
RenderedInAnyCase(i) ==
    LET n == StreamFor(i, SurfaceOf[i.text])
    IN  IF HasFreeSlot(n.stream)
        THEN [n EXCEPT !.stream = Submit(Acquire(@, MaxUploads), i.text), !.needs = FALSE]
        ELSE [n EXCEPT !.stream = Acquire(@, MaxUploads), !.needs = FALSE]

Rendered(i) ==
    LET n == StreamFor(i, SurfaceOf[i.text])
    IN  IF HasFreeSlot(n.stream)
        THEN [n EXCEPT !.stream = Submit(Acquire(@, MaxUploads), i.text), !.needs = FALSE]
        ELSE [n EXCEPT !.stream = Acquire(@, MaxUploads)]

\* Without a font nothing is rendered, and the next frame tries again.
RenderText(i) ==
    IF i.needs /\ i.text \notin Empty /\ wanted.fonts THEN Rendered(i) ELSE i

Emptied(i) == IF i.text \in Empty THEN [i EXCEPT !.stream = NewStream(NoSize), !.surface = NoSize] ELSE i

Observe(i) ==
    IF i.text = wanted.text THEN [i EXCEPT !.needs = @ \/ version]
    ELSE Emptied([i EXCEPT !.text = wanted.text, !.needs = TRUE])

Prepare ==
    /\ ~prepared /\ prepared' = TRUE
    /\ version' = FALSE
    /\ info' = RenderText(Observe(info))
    /\ UNCHANGED <<wanted, changes, drawn>>

Drawn(i) ==
    IF i.stream.retained = NoUpload THEN NoFrame
    ELSE [shown |-> i.stream.retained.content, size |-> i.surface]

Execute ==
    /\ prepared /\ prepared' = FALSE
    /\ LET shows == wanted.framebuffer /\ info.text \notin Empty
           i == RenderText(info)
           selected == [i EXCEPT !.stream = Select(@)]
       IN  /\ info' = IF shows THEN selected ELSE info
           /\ drawn' = IF shows THEN Drawn(selected) ELSE NoFrame
    /\ UNCHANGED <<wanted, changes, version>>

UploadText ==
    /\ \E stream \in Transferred(info.stream) \cup Allocated(info.stream) :
           info' = [info EXCEPT !.stream = stream]
    /\ UNCHANGED <<wanted, changes, prepared, version, drawn>>

\* Options and wiring change between frames; the font list at any time.
Change ==
    /\ changes < MaxChanges
    /\ \/ /\ ~prepared
          /\ wanted' \in [text : Texts, fonts : {wanted.fonts}, framebuffer : BOOLEAN]
          /\ wanted' # wanted /\ UNCHANGED version
       \/ /\ wanted' \in [text : {wanted.text}, fonts : BOOLEAN, framebuffer : {wanted.framebuffer}]
          /\ version' = TRUE
    /\ changes' = changes + 1
    /\ UNCHANGED <<prepared, info, drawn>>

Init ==
    /\ wanted \in [text : Texts, fonts : BOOLEAN, framebuffer : {TRUE}]
    /\ changes = 0 /\ prepared = FALSE /\ version = TRUE
    /\ info = [text |-> Unknown, needs |-> TRUE, surface |-> NoSize, stream |-> NewStream(NoSize)]
    /\ drawn = NoFrame

Next == Prepare \/ Execute \/ UploadText \/ Change

Spec == Init /\ [][Next]_vars /\ WF_vars(Prepare \/ Execute) /\ WF_vars(UploadText)

-----------------------------------------------------------------------------
(* A text is drawn in the size it was rendered in, although uploads are drawn  *)
(* frames after they were rendered.                                            *)
DrawnTextFits == drawn # NoFrame => drawn.size = SurfaceOf[drawn.shown]

\* The text drawn is the one the options give, unless the transfer of its last
\* upload failed.
TextSettled ==
    \/ ~wanted.fonts \/ ~wanted.framebuffer \/ wanted.text \in Empty \/ drawn.shown = wanted.text
    \/ ~info.needs /\ info.stream.lost
=============================================================================
