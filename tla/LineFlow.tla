------------------------------- MODULE LineFlow -------------------------------
(* How a teleprompter text is broken into lines: font_instance_s::flow_line in *)
(* src/src/render/font/font_instance.cpp and the loop of load_file around it.  *)
(* A character is a member of Characters, its advance a number of pixels;      *)
(* kerning is left out.                                                        *)
EXTENDS Integers, Sequences

CONSTANTS
    Characters, Spaces, Return, Newline, \* Return and Newline are spaces
    Advance,                             \* pixels, by character
    Widths,                              \* of the lines
    MaxLength                            \* bound: length of a text

VARIABLES
    string, \* the text
    width,
    start   \* characters in the lines so far: pos

vars == <<string, width, start>>

\* The information of flow_line after each character, with the word's length so far.
NoInfo == [pixels |-> 0, word |-> 0, consumed |-> 0]

\* A word's end was reached: the word goes into the line.
Taken(info, i) == [pixels |-> info.pixels + info.word, word |-> 0, consumed |-> i]

\* Fault: the first word is not accepted when it is longer than the line.
OverlongRefused(info, i) == info

\* A word longer than the line is accepted, if it is the first: as far as it fits.
Overlong(info, i) == IF info.consumed = 0 THEN [info EXCEPT !.consumed = i - 1] ELSE info

RECURSIVE FlowFrom(_, _, _, _)
FlowFrom(str, w, i, info) ==
    IF i > Len(str) THEN info
    ELSE LET ends == str[i] \in Spaces \/ i = Len(str)
             next == IF ends THEN Taken(info, i) ELSE info
             long == [next EXCEPT !.word = @ + Advance[str[i]]]
         IN  CASE ends /\ info.pixels + info.word >= w -> info
               [] ~(ends /\ info.pixels + info.word >= w) /\ str[i] = Return ->
                      FlowFrom(str, w, i + 1, next)
               [] ~(ends /\ info.pixels + info.word >= w) /\ str[i] = Newline -> Taken(next, i)
               [] OTHER -> IF long.word >= w THEN Overlong(long, i)
                                             ELSE FlowFrom(str, w, i + 1, long)

FlowLine(str, w) == FlowFrom(str, w, 1, NoInfo)

-----------------------------------------------------------------------------
(* load_file, one line after the other. *)
Rest == SubSeq(string, start + 1, Len(string))
Line == SubSeq(string, start + 1, start + FlowLine(Rest, width).consumed)

AddLine ==
    /\ start < Len(string)
    /\ start' = start + FlowLine(Rest, width).consumed
    /\ UNCHANGED <<string, width>>

Init ==
    /\ \E n \in 0..MaxLength : string \in [1..n -> Characters]
    /\ width \in Widths /\ start = 0

Next == AddLine

Spec == Init /\ [][Next]_vars /\ WF_vars(Next)

-----------------------------------------------------------------------------
RECURSIVE Pixels(_)
Pixels(str) ==
    IF str = <<>> THEN 0
    ELSE Pixels(Tail(str)) + (IF Head(str) \in {Return, Newline} THEN 0 ELSE Advance[Head(str)])

\* A line break inside a word, or in front of it when Line is empty.
SplitsWord(n) ==
    /\ 0 < n /\ n < Len(Rest)
    /\ Rest[n] \notin Spaces /\ Rest[n + 1] \notin Spaces

(* The next line shows as much as it can: all but its last character fits, a   *)
(* word is split only when it is the first and does not fit by itself, and no  *)
(* line goes on past the end of one in the text.                               *)
LinesFitTheWidth ==
    start < Len(string) =>
        LET n == Len(Line)
        IN  /\ n > 0 => Pixels(SubSeq(Line, 1, n - 1)) < width
            /\ SplitsWord(n) => /\ \A i \in 1..n : Line[i] \notin Spaces
                                /\ Pixels(SubSeq(Rest, 1, n + 1)) >= width
            /\ \A i \in 1..(n - 1) : Line[i] # Newline

(* Every line takes some of the text, or the loop never comes to its end. *)
EveryLineTakesText == start < Len(string) => FlowLine(Rest, width).consumed > 0

\* The text is broken into lines to its end.
Loaded == start = Len(string)
=============================================================================
