----------------------------- MODULE PatchText -----------------------------
(***************************************************************************)
(* The text algorithm behind patch_file and apply_patch: how many times an *)
(* old_text is found, which span an edit takes, which edits exclude each   *)
(* other and what text they leave (pico/tools/patch_set.py).               *)
(*                                                                         *)
(* A text is a sequence of symbols; line endings and encodings are left    *)
(* out.  An edit is a record [old, new] with a non-empty old text.         *)
(***************************************************************************)
EXTENDS Integers, Sequences

FoundAt(text, old, i) == SubSeq(text, i, i + Len(old) - 1) = old

Places(text, old) ==
    {i \in 1 .. Len(text) : i + Len(old) - 1 <= Len(text) /\ FoundAt(text, old, i)}

(* str.count: scans on behind a match, so matches that overlap count once. *)
Count(text, old) ==
    LET found[i \in 1 .. Len(text) + 1] ==
            IF i + Len(old) - 1 > Len(text) THEN 0
            ELSE IF FoundAt(text, old, i) THEN 1 + found[i + Len(old)] ELSE found[i + 1]
    IN  found[1]

Unique(text, old) == Count(text, old) = 1

(* str.index, and the text that replaces the span. *)
Span(text, edit) ==
    LET first == CHOOSE i \in Places(text, edit.old) :
                     \A j \in Places(text, edit.old) : i <= j
    IN  [first |-> first, next |-> first + Len(edit.old), new |-> edit.new]

Overlap(s, t) == s.first < t.next /\ t.first < s.next

Matching(text, edits) == \A i \in DOMAIN edits : Unique(text, edits[i].old)

Compatible(text, edits) ==
    \A i, j \in DOMAIN edits :
        i # j => ~Overlap(Span(text, edits[i]), Span(text, edits[j]))

Plannable(text, edits) == Matching(text, edits) /\ Compatible(text, edits)

Spans(text, edits) == {Span(text, edits[i]) : i \in DOMAIN edits}

Splice(text, span) ==
    SubSeq(text, 1, span.first - 1) \o span.new \o SubSeq(text, span.next, Len(text))

StartAt(spans, i) == {s \in spans : s.first = i}

SpliceAt(text, spans, i) ==
    IF StartAt(spans, i) = {} THEN text ELSE Splice(text, CHOOSE s \in StartAt(spans, i) : TRUE)

(* The text a plan writes: the spans are replaced from the last one to the *)
(* first.  Mutant: from the first to the last, which moves the later ones. *)
PatchedForward(text, edits) ==
    LET done[k \in 0 .. Len(text)] ==
            IF k = 0 THEN text ELSE SpliceAt(done[k - 1], Spans(text, edits), k)
    IN  done[Len(text)]

Patched(text, edits) ==
    LET done[k \in 0 .. Len(text)] ==
            IF k = 0 THEN text
            ELSE SpliceAt(done[k - 1], Spans(text, edits), Len(text) - k + 1)
    IN  done[Len(text)]

(* What a patch set means: every span of the one text it was matched on is *)
(* replaced, everything else is kept, whatever the order of the edits.     *)
Piece(text, spans, i) ==
    IF StartAt(spans, i) # {} THEN (CHOOSE s \in StartAt(spans, i) : TRUE).new
    ELSE IF \E s \in spans : s.first < i /\ i < s.next THEN <<>> ELSE <<text[i]>>

Replaced(text, edits) ==
    LET kept[k \in 0 .. Len(text)] ==
            IF k = 0 THEN <<>>
            ELSE Piece(text, Spans(text, edits), Len(text) - k + 1) \o kept[k - 1]
    IN  kept[Len(text)]
=============================================================================
