----------------------------- MODULE Teleprompter -----------------------------
(* The teleprompter node (src/src/nodes/teleprompter/teleprompter.cpp): a file *)
(* is loaded and each visible line rendered by thread pool workers, and the    *)
(* frame draws the lines that have come to the GPU. The line slots are reused  *)
(* as the text scrolls, each with an upload stream of its own.                 *)
(* The settings are a member of Settings; line numbers start from 0. A pool    *)
(* that refuses work has been stopped and is left out.                         *)
EXTENDS UploadStream

CONSTANTS
    Settings,   \* what load_file and the lines depend on: file, font, size, viewport
    NoSettings, \* not committed yet
    Fonts,      \* the settings with a font that is found
    Lines,      \* number of lines of the text, by settings; 0: it cannot be loaded
    Slots,      \* visible lines and the margin, by settings
    TextSize,   \* of a line's texture, by settings
    Margin,     \* lines before the first visible one that have a slot
    LineSlots,  \* of a line's stream: max_slots
    MaxChanges  \* bound: changes of settings, of the scroll position, of the input

ASSUME TeleprompterAssumption ==
    /\ NoSettings \notin Settings /\ Fonts \subseteq Settings
    /\ Lines \in [Settings -> Nat] /\ Slots \in [Settings -> Nat \ {0}]
    /\ Margin \in Nat /\ LineSlots \in Nat \ {0} /\ MaxChanges \in Nat

VARIABLES
    wanted,  \* options, inputs and font list: [settings, scroll, framebuffer]
    changes,
    node,    \* committed settings, loading: text_future_, text: text_, lines: render_lines_
    drawn    \* rendered_line_frames_: the line drawn and what is in its texture

vars == <<wanted, changes, node, drawn>>

NoText == [settings |-> NoSettings, lines |-> 0]

\* line_info_s; ready is the future of the worker, task what was submitted to it.
NewLine == [no |-> -1, ready |-> "none", task |-> NoUpload, stream |-> NewStream(NoUpload)]

-----------------------------------------------------------------------------
(* The frame. *)
Running(line) == line.ready = "queued"
Consumed(line) == IF line.ready = "done" THEN [line EXCEPT !.ready = "none"] ELSE line

\* The finished workers' futures are consumed up to the first one that still runs.
FirstRunning == Min({k \in DOMAIN node.lines : Running(node.lines[k])} \cup {Len(node.lines) + 1})
ConsumedLines == [k \in DOMAIN node.lines |-> IF k < FirstRunning THEN Consumed(node.lines[k])
                                                                 ELSE node.lines[k]]

\* Fault: the lines keep the number of the text they show.
LinesKept(lines) == lines

LinesForgotten(lines) == [k \in DOMAIN lines |-> [lines[k] EXCEPT !.no = -1]]

\* Fault: the workers of the lines are not waited for.
LinesAreLeft == FALSE

LinesRun == FirstRunning <= Len(node.lines)

\* New settings are committed once nothing uses the previous ones.
Reloaded ==
    IF wanted.settings = node.committed THEN node
    ELSE IF node.loading.state = "running" THEN node
    ELSE IF LinesRun THEN [node EXCEPT !.loading.state = "none", !.lines = ConsumedLines]
    ELSE [node EXCEPT
             !.committed = wanted.settings,
             !.lines = LinesForgotten(ConsumedLines),
             !.text = NoText,
             !.loading = [settings |-> wanted.settings,
                          state |-> IF wanted.settings \in Fonts THEN "running" ELSE "none"]]

\* A loaded text is taken.
Taken(n) ==
    IF n.loading.state = "done"
    THEN [n EXCEPT !.loading.state = "none",
                   !.text = [settings |-> n.loading.settings, lines |-> Lines[n.loading.settings]]]
    ELSE n

\* The number of slots follows the viewport, but a slot in use is not removed.
Resized(lines) ==
    LET size == Slots[wanted.settings]
        last == Max({k \in DOMAIN lines : Running(lines[k])} \cup {size})
    IN  [k \in 1..last |-> IF k \in DOMAIN lines THEN lines[k] ELSE NewLine]

-----------------------------------------------------------------------------
\* The line of the text that slot k serves: one of as many lines as there are slots.
LineOf(k, size) ==
    CHOOSE i \in (wanted.scroll - Margin)..(wanted.scroll - Margin + size - 1) : i % size = k - 1

InText(i, text) == i >= 0 /\ i < text.lines

\* A slot that shows another line and has no work is given this line to render.
Requested(line, i, text) ==
    LET size == TextSize[wanted.settings]
        stream == IF line.stream.size = size THEN line.stream ELSE NewStream(size)
    IN  IF HasFreeSlot(stream)
        THEN [no |-> i, ready |-> "queued", task |-> [line |-> i, text |-> text.settings],
              stream |-> Acquire(stream, LineSlots)]
        ELSE [line EXCEPT !.stream = Acquire(stream, LineSlots)]

Served(line, i, text) ==
    CASE ~InText(i, text) -> line
      [] InText(i, text) /\ line.ready = "none" /\ line.no # i -> Requested(line, i, text)
      [] InText(i, text) /\ Running(line) -> line
      [] InText(i, text) /\ line.ready = "done" /\ line.no # i -> Consumed(line)
      [] OTHER -> [Consumed(line) EXCEPT !.stream = Select(@)]

\* Fault: whatever the stream retains is drawn.
HasAnyFrame(stream) == stream.retained # NoUpload

\* The retained upload is the one acquired for the line: retained_upload_id.
HasItsFrame(stream) == stream.retained # NoUpload /\ stream.retained.last

\* The slot reached the end of its turn in the loop with its own line.
Drawable(line, i, text) ==
    /\ InText(i, text) /\ line.no = i /\ ~Running(line)
    /\ HasItsFrame(Select(line.stream))

Loop(n) ==
    LET lines == Resized(n.lines)
        size == Len(lines)
        Index(k) == LineOf(k, size)
    IN  /\ node' = [n EXCEPT !.lines = [k \in 1..size |-> Served(lines[k], Index(k), n.text)]]
        /\ drawn' = {[line |-> Index(k), shown |-> Select(lines[k].stream).retained.content] :
                         k \in {k \in 1..size : Drawable(lines[k], Index(k), n.text)}}

Execute ==
    /\ UNCHANGED <<wanted, changes>>
    /\ LET committed == Reloaded.committed = wanted.settings
           n == IF committed THEN Taken(Reloaded) ELSE Reloaded
       IN  \/ ~wanted.framebuffer /\ node' = node /\ drawn' = {}
           \/ /\ wanted.framebuffer /\ ~(committed /\ n.loading.state = "none" /\ n.text.lines > 0)
              /\ node' = n /\ drawn' = {}
           \/ /\ wanted.framebuffer /\ committed /\ n.loading.state = "none" /\ n.text.lines > 0
              /\ Loop(n)

-----------------------------------------------------------------------------
(* The workers and the environment. *)
LoadFile ==
    /\ node.loading.state = "running"
    /\ node' = [node EXCEPT !.loading.state = "done"]
    /\ UNCHANGED <<wanted, changes, drawn>>

\* The worker renders the line it was given with the font of text_.
ProcessLine(k) ==
    /\ Running(node.lines[k])
    /\ node' = [node EXCEPT !.lines[k] =
           [@ EXCEPT !.ready = "done", !.task = NoUpload,
                     !.stream = Submit(@, [line |-> node.lines[k].task.line,
                                           text |-> node.lines[k].task.text,
                                           font |-> node.text.settings])]]
    /\ UNCHANGED <<wanted, changes, drawn>>

UploadLine(k) ==
    /\ \E stream \in Transferred(node.lines[k].stream) \cup Allocated(node.lines[k].stream) :
           node' = [node EXCEPT !.lines[k].stream = stream]
    /\ UNCHANGED <<wanted, changes, drawn>>

Change ==
    /\ changes < MaxChanges
    /\ wanted' \in [settings : Settings, scroll : 0..Max({Lines[s] : s \in Settings}),
                    framebuffer : BOOLEAN]
    /\ wanted' # wanted
    /\ changes' = changes + 1
    /\ UNCHANGED <<node, drawn>>

Init ==
    /\ wanted \in [settings : Settings, scroll : {0}, framebuffer : {TRUE}]
    /\ changes = 0
    /\ node = [committed |-> NoSettings, loading |-> [settings |-> NoSettings, state |-> "none"],
               text |-> NoText, lines |-> <<>>]
    /\ drawn = {}

Workers == LoadFile \/ \E k \in DOMAIN node.lines : ProcessLine(k) \/ UploadLine(k)

Next == Execute \/ Workers \/ Change

\* The render thread runs every frame; pool and transfer threads do what they are given.
Spec == Init /\ [][Next]_vars /\ WF_vars(Execute) /\ WF_vars(Workers)

-----------------------------------------------------------------------------
(* A drawn line is that line of the text, rendered from the text and with the  *)
(* font of the settings the frame was drawn for, although its slot has shown   *)
(* other lines; and a worker renders with the text_ its line comes from,       *)
(* whatever settings have been asked for since.                                *)
DrawnLinesAreCurrent ==
    /\ \A d \in drawn :
           d.shown = [line |-> d.line, text |-> node.committed, font |-> node.committed]
    /\ \A k \in DOMAIN node.lines :
           Running(node.lines[k]) => node.lines[k].task.text = node.text.settings

\* The upload of a slot's line failed: nothing will replace it while it is visible.
Lost(line, i) == line.no = i /\ line.stream.lost

\* The slot's stream is full of completed uploads of other lines. Only the loop's
\* last case selects them, and it is for the line of the last upload.
Clogged(line, i) ==
    line.no # i /\ line.ready = "none" /\ line.stream.queue # <<>> /\ Waiting(line.stream) = {}
    /\ UsedSlots(line.stream) = LineSlots

\* Line i of the text is in view and has not been drawn although it could be.
Missing(i) ==
    /\ wanted.framebuffer /\ i >= wanted.scroll - Margin
    /\ i < wanted.scroll - Margin + Slots[wanted.settings]
    /\ wanted.settings \in Fonts /\ i < Lines[wanted.settings]
    /\ i \notin {d.line : d \in drawn}
    /\ ~\E k \in DOMAIN node.lines : Lost(node.lines[k], i)

AllLines == 0..Max({Lines[s] : s \in Settings})

\* All that is in view is drawn, but for lines whose upload failed or whose slot
\* cannot get a buffer.
LinesSettled ==
    \A i \in AllLines :
        Missing(i) => \E k \in DOMAIN node.lines :
                          LineOf(k, Len(node.lines)) = i /\ Clogged(node.lines[k], i)

(* "A busy line is skipped for the frame instead of stalling rendering"        *)
(* (src/docs/render-thread-audit.md:34-35): it is drawn in a later frame, when *)
(* nothing changes any more and no upload fails.                               *)
SkippedLinesAreDrawn == <>[](\A i \in AllLines : ~Missing(i))
=============================================================================
