----------------------------- MODULE ByteString -----------------------------
(***************************************************************************)
(* What a section promises to its callers: a string of bytes that can be   *)
(* replaced as a whole or grown by an insertion at any position, and a     *)
(* copy of it, made by saving, that is the string itself.                  *)
(***************************************************************************)
EXTENDS Integers, Sequences

CONSTANT Strings      \* what a caller may pass

VARIABLES
    text,             \* the bytes of the section
    copy,             \* the bytes the last save wrote
    asked             \* what the caller has asked for

textVars == <<text, copy, asked>>

Inserted(s, pos, raw) ==
    SubSeq(s, 1, pos) \o raw \o SubSeq(s, pos + 1, Len(s))

TextInit == text = <<>> /\ copy = <<>> /\ asked.call \in {"new", "get"}

Replace(raw) ==
    /\ asked' = [call |-> "set", raw |-> raw]
    /\ text' = raw /\ UNCHANGED copy

InsertAt(pos, raw) ==
    /\ asked' = [call |-> "insert", pos |-> pos, raw |-> raw]
    /\ text' = Inserted(text, pos, raw) /\ UNCHANGED copy

CopyOut ==
    /\ asked' = [call |-> "save"]
    /\ copy' = text /\ UNCHANGED text

Look ==
    /\ asked' = [call |-> "get"]
    /\ UNCHANGED <<text, copy>>

TextNext ==
    \/ \E raw \in Strings : Replace(raw)
    \/ \E raw \in Strings, pos \in 0 .. Len(text) : InsertAt(pos, raw)
    \/ CopyOut
    \/ Look

TextSpec == TextInit /\ [][TextNext]_textVars
=============================================================================
