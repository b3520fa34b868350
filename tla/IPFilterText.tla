----------------------------- MODULE IPFilterText -----------------------------
(***************************************************************************)
(* separate_text (elements/ip/ipfilter.cc), which splits a pattern into   *)
(* the words IPFilter's parser reads: whitespace separates; "&&", "||"    *)
(* and an operator followed by "=" are two-character words; brackets,     *)
(* punctuation and the other operators are one-character words; a run of *)
(* letters, digits and -./@_: is one word; any other character is a word *)
(* of its own.  A text is a sequence of one-character strings and a word *)
(* a sequence of characters.                                               *)
(*                                                                         *)
(* After skipping whitespace the loop reads s[pos] even when pos = len.   *)
(* Whatever byte lies there (String's data is not terminated), every case *)
(* pushes text.substring(len, 1) or substring(len, 0), both empty, and   *)
(* moves past the end: the byte read changes nothing, so the model has   *)
(* the empty word and no choice.                                           *)
(***************************************************************************)
EXTENDS Integers, Sequences, SequencesExt

CONSTANTS
    Chars,        \* the characters a text is made of
    MaxLen        \* the longest text

VARIABLES
    text,         \* the pattern text
    words         \* what separate_text made of it (<<>> until it runs)

vars == <<text, words>>

Space == {" ", "\t"}
IdentChar == {"a", "b", "0", "1", "-", ".", "/", "@", "_", ":"}
OneChar == {"(", ")", "[", "]", ",", ";", "?"}

(* s[i], 0-based. *)
C(s, i) == s[i + 1]

(* The first non-space position at or after pos. *)
RECURSIVE SkipSpace(_, _)
SkipSpace(s, pos) == IF pos < Len(s) /\ C(s, pos) \in Space THEN SkipSpace(s, pos + 1) ELSE pos

(* The end of the identifier run starting at pos. *)
RECURSIVE IdentEnd(_, _)
IdentEnd(s, pos) == IF pos < Len(s) /\ C(s, pos) \in IdentChar THEN IdentEnd(s, pos + 1) ELSE pos

(* The length of the word starting at pos < len. *)
WordLen(s, pos) ==
    LET c == C(s, pos)
        twin == pos < Len(s) - 1 /\ C(s, pos + 1) = c
        eq   == pos < Len(s) - 1 /\ C(s, pos + 1) = "="
    IN CASE c \in {"&", "|"} -> IF twin THEN 2 ELSE 1
         [] c \in {"<", ">", "!", "="} -> IF eq THEN 2 ELSE 1
         [] c \in OneChar -> 1
         [] OTHER -> IF IdentEnd(s, pos) = pos THEN 1 ELSE IdentEnd(s, pos) - pos

RECURSIVE SeparateFrom(_, _, _)

(* Variant: a two-character word advances by one character. *)
SeparateFromTwoShort(s, pos, ws) ==
    IF pos >= Len(s) THEN ws
    ELSE LET p == SkipSpace(s, pos)
             n == IF p < Len(s) THEN WordLen(s, p) ELSE 0
             step == IF n = 2 THEN 1 ELSE n
         IN IF p >= Len(s) THEN Append(ws, <<>>)
            ELSE SeparateFrom(s, p + step, Append(ws, SubSeq(s, p + 1, p + n)))

(***************************************************************************)
(* The loop of separate_text from pos, with the words pushed so far: skip *)
(* whitespace, then push one word; at the end of the text, the empty one. *)
(***************************************************************************)
SeparateFrom(s, pos, ws) ==
    IF pos >= Len(s) THEN ws
    ELSE LET p == SkipSpace(s, pos)
         IN IF p >= Len(s) THEN Append(ws, <<>>)
            ELSE SeparateFrom(s, p + WordLen(s, p), Append(ws, SubSeq(s, p + 1, p + WordLen(s, p))))

SeparateText(s) == SeparateFrom(s, 0, <<>>)

Init == text = <<>> /\ words = <<>>

(* The configuration string grows a character at a time... *)
AddChar ==
    /\ words = <<>> /\ Len(text) < MaxLen
    /\ \E c \in Chars : text' = Append(text, c)
    /\ UNCHANGED words

(* ...until configure splits it. *)
Separate ==
    /\ words = <<>> /\ text # <<>>
    /\ words' = SeparateText(text)
    /\ UNCHANGED text

Next == AddChar \/ Separate

Spec == Init /\ [][Next]_vars
-----------------------------------------------------------------------------
(***************************************************************************)
(* The words are the text without its whitespace, cut into pieces: no     *)
(* character is lost, repeated or moved, and no word holds whitespace.    *)
(***************************************************************************)
TextLossless ==
    words # <<>> =>
        /\ FoldLeft(\o, <<>>, words) = SelectSeq(text, LAMBDA c : c \notin Space)
        /\ \A i \in DOMAIN words : \A j \in DOMAIN words[i] : words[i][j] \notin Space

(***************************************************************************)
(* Whitespace only separates words (the tokenizer's contract): no word is *)
(* empty, so "tcp " yields the one word "tcp" as "tcp" does.              *)
(***************************************************************************)
NoEmptyWord == \A i \in DOMAIN words : words[i] # <<>>
====
