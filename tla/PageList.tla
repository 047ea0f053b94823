------------------------------ MODULE PageList ------------------------------
(***************************************************************************)
(* What the PDF page operations promise: a document is the sequence of its *)
(* pages, each with what it draws, its annotations, and the rotation, crop *)
(* box and media box a viewer applies to it; an operation does to that     *)
(* sequence what it was asked to, or nothing.  PdfPages implements it with *)
(* object trees.                                                           *)
(***************************************************************************)
EXTENDS Lists, Integers, Sequences, SequencesExt

VARIABLES
    pages,      \* [drawn, annots, rotate, crop, media] of each page
    request     \* the operation done last, with its arguments

\* Empty ranges select every page; overlapping ones select a page once.
Selected(list, ranges) ==
    IF ranges = <<>> THEN DOMAIN list
    ELSE {p \in DOMAIN list :
             \E i \in DOMAIN ranges : p \in ranges[i].start .. ranges[i].end}

Rotated(list, ranges, angle) ==
    [p \in DOMAIN list |-> IF p \in Selected(list, ranges)
                           THEN [list[p] EXCEPT !.rotate = (@ + angle) % 360]
                           ELSE list[p]]

\* All of the selected pages are cropped, or none.
CanCrop(list, ranges, box) ==
    \A p \in Selected(list, ranges) : box <= list[p].media

Cropped(list, ranges, box) ==
    [p \in DOMAIN list |-> IF p \in Selected(list, ranges)
                           THEN [list[p] EXCEPT !.crop = box]
                           ELSE list[p]]

\* No page is dropped or shown twice.
IsOrder(order, n) == Len(order) = n /\ ToSet(order) = 1 .. n

Reordered(list, order) == [p \in DOMAIN order |-> list[order[p]]]

\* Drawn over what the page already has, which it leaves as it is.
Marked(list, ranges, mark) ==
    [p \in DOMAIN list |-> IF p \in Selected(list, ranges)
                           THEN [list[p] EXCEPT !.drawn = Append(@, mark)]
                           ELSE list[p]]

\* Form fields become content, in their order; other annotations stay.
Fixed(page) ==
    LET widgets == {a \in ToSet(page.annots) : a.kind = "widget"}
        fields == Only(page.annots, widgets)
    IN [page EXCEPT !.drawn = @ \o [w \in DOMAIN fields |-> fields[w].shows],
                    !.annots = Only(@, ToSet(@) \ widgets)]

Rotate ==
    /\ request'.op = "rotate"
    /\ pages' = Rotated(pages, request'.ranges, request'.angle)

Crop ==
    /\ request'.op = "crop"
    /\ CanCrop(pages, request'.ranges, request'.box)
    /\ pages' = Cropped(pages, request'.ranges, request'.box)

Reorder ==
    /\ request'.op = "reorder"
    /\ IsOrder(request'.order, Len(pages))
    /\ pages' = Reordered(pages, request'.order)

\* The part of the document one of the outputs has.
Split ==
    /\ request'.op = "split"
    /\ request'.range.start \in 1 .. request'.range.end
    /\ request'.range.end <= Len(pages)
    /\ pages' = SubSeq(pages, request'.range.start, request'.range.end)

\* Merge joins documents in the order they are given.
Merge ==
    /\ request'.op = "merge"
    /\ pages' = IF request'.before THEN request'.with \o pages
                                   ELSE pages \o request'.with

Watermark ==
    /\ request'.op = "watermark"
    /\ pages' = Marked(pages, request'.ranges, request'.mark)

Flatten ==
    /\ request'.op = "flatten"
    /\ pages' = [p \in DOMAIN pages |-> Fixed(pages[p])]

Next == Watermark \/ Flatten \/ Rotate \/ Crop \/ Reorder \/ Split \/ Merge
=============================================================================
