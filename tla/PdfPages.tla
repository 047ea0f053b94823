------------------------------ MODULE PdfPages ------------------------------
(***************************************************************************)
(* The page operations of the PDF engine (crates/pdf-engine) on a document *)
(* that is edited again and again: what one operation returns is the next  *)
(* one's input, alone or merged with another.  A document is its objects:  *)
(* the catalog, the nodes of the page tree, the pages with the attributes  *)
(* they have or inherit, content streams, annotations, and what content    *)
(* refers to by name.  An operation that refuses leaves the document as it *)
(* was and is not a step.  extract_text only reads and is left out, and so *)
(* is the font of a watermark, which is always the same.                   *)
(*                                                                         *)
(* lopdf is external.  Of it the code needs that get_pages walks the Kids  *)
(* from the root, that new_object_id draws the number after max_id, that   *)
(* prune_objects drops what the trailer does not reach, that               *)
(* renumber_objects numbers consecutively, pages in page order, and that   *)
(* add_page_contents appends a new stream to a page's contents.            *)
(***************************************************************************)
EXTENDS Lists, Integers, Sequences, FiniteSets, SequencesExt, FiniteSetsExt

CONSTANTS
    Documents,  \* the documents there are at the start and to merge with
    Ranges,     \* the page ranges of a request
    Boxes,      \* the rectangles to crop to, nested and named by their size
    Marks,      \* the watermarks, told apart by how they look
    MaxLevels,  \* the levels of the page tree that are climbed (64)
    MaxPages,   \* bound: the pages of a document
    MaxRequests,\* bound: the operations of a behaviour
    None        \* no value

Angles == {90, 180, 270}
Annotations == {"widget", "note"}
Attributes == {"resources", "media", "crop", "rotate"}
Kinds == {"catalog", "pages", "page", "content", "state", "form", "info"} \cup Annotations

ASSUME LevelsAssumption == MaxLevels \in Nat \ {0}
ASSUME RequestsAssumption == MaxRequests \in Nat

VARIABLES
    doc,        \* the document: [objects : number -> object, root : number]
    shown,      \* what a viewer shows of it
    request,    \* the operation done last, with its arguments, or none
    requests,   \* how many there were
    damaged     \* a merge gave a page's number to another object

vars == <<doc, shown, request, requests, damaged>>

-----------------------------------------------------------------------------
(* The document *)

\* label is what a form or a graphics state looks like; a content stream
\* draws what is its own (own) or what a name stands for (name).  A widget has
\* an appearance or 0, and the catalog lists the fields of its form in annots.
\* Attributes are those a page or node has of its own.
Object(kind) ==
    [kind |-> kind, parent |-> 0, kids |-> <<>>, contents |-> <<>>, draws |-> <<>>,
     annots |-> <<>>, appearance |-> 0, label |-> None, attributes |-> <<>>]

Own(label) == [own |-> label]
Use(name) == [name |-> name]

\* resolved_dictionary: missing resources name nothing.
Named(attributes) == IF "resources" \in DOMAIN attributes THEN attributes.resources ELSE <<>>

\* The numbers an object refers to, but for its parent.
Refs(o) ==
    ToSet(o.kids) \cup ToSet(o.contents) \cup ToSet(o.annots) \cup ({o.appearance} \ {0})
        \cup {Named(o.attributes)[name] : name \in DOMAIN Named(o.attributes)}

OfKind(objects, kind) == {i \in DOMAIN objects : objects[i].kind = kind}

\* The pages from an object down, in order, when its kids have these.
LeavesFrom(objects, i, below) ==
    CASE objects[i].kind = "page" -> <<i>>
      [] objects[i].kind = "pages" ->
            FlattenSeq([k \in DOMAIN objects[i].kids |-> below[objects[i].kids[k]]])
      [] OTHER -> <<>>

\* Those of each object that are so many levels below or fewer.
Leaves(objects, levels) ==
    LET none == [i \in DOMAIN objects |-> <<>>]
        leaves[n \in Nat] ==
            LET below == IF n = 0 THEN none ELSE leaves[n - 1]
            IN [i \in DOMAIN objects |-> LeavesFrom(objects, i, below)]
    IN leaves[levels]

\* get_pages: the numbers of a document's pages, in page order.
PageIds(d) == Leaves(d.objects, MaxLevels)[d.root]

\* The position of a page.
PageAt(d, i) == CHOOSE p \in DOMAIN PageIds(d) : PageIds(d)[p] = i

\* The object some levels above another, itself at level 0, or 0.
Above(objects, i, levels) ==
    LET up[n \in Nat] ==
            IF n = 0 THEN i
            ELSE LET below == up[n - 1] IN IF below = 0 THEN 0 ELSE objects[below].parent
    IN up[levels]

\* The levels up to the last at which an attribute is set.
LevelsWith(objects, i, key, last) ==
    {n \in 0 .. last : LET a == Above(objects, i, n)
                       IN a # 0 /\ key \in DOMAIN objects[a].attributes}

\* What an object has or inherits from so many ancestors: of each attribute
\* the nearest.
Inherited(objects, i, levels) ==
    [key \in {k \in Attributes : LevelsWith(objects, i, k, levels) # {}} |->
        objects[Above(objects, i, Min(LevelsWith(objects, i, key, levels)))].attributes[key]]

\* materialize_page_attributes: the page with what it inherits, from as many
\* of its ancestors as are climbed.
Materialize(objects, i) == [objects[i] EXCEPT !.attributes = Inherited(objects, i, MaxLevels)]

\* inherited_rotation, which climbs as many levels, the page's own included,
\* and refuses when they are not all.
RotationKnown(objects, i) ==
    \/ "rotate" \in DOMAIN Inherited(objects, i, MaxLevels - 1)
    \/ Above(objects, i, MaxLevels) = 0

InheritedRotation(objects, i) ==
    LET found == Inherited(objects, i, MaxLevels - 1)
    IN IF "rotate" \in DOMAIN found THEN found.rotate ELSE 0

\* What is reached from some objects.
Reached(objects, roots) ==
    LET reached[n \in Nat] ==
            IF n = 0 THEN roots
            ELSE LET before == reached[n - 1]
                 IN before \cup UNION {Refs(objects[i]) : i \in before}
    IN reached[Cardinality(DOMAIN objects)]

\* prune_objects, with or without a trailer that names the Info object.
Pruned(d, trailer) ==
    LET roots == {d.root} \cup OfKind(d.objects, "catalog")
                     \cup (IF trailer THEN OfKind(d.objects, "info") ELSE {})
    IN [d EXCEPT !.objects = [i \in Reached(@, roots) |-> @[i]]]

\* An object with its references renumbered, and a document.
Moved(o, number) ==
    LET ref(i) == IF i = 0 THEN 0 ELSE number[i]
        refs(list) == [k \in DOMAIN list |-> ref(list[k])]
    IN [o EXCEPT !.parent = ref(@), !.appearance = ref(@), !.kids = refs(@), !.contents = refs(@),
                 !.annots = refs(@),
                 !.attributes = [key \in DOMAIN @ |-> IF key = "resources" THEN refs(@[key]) ELSE @[key]]]

Relabelled(d, number) ==
    [objects |-> [n \in {number[i] : i \in DOMAIN number} |->
                     Moved(d.objects[CHOOSE i \in DOMAIN number : number[i] = n], number)],
     root |-> number[d.root]]

\* renumber_objects_with: the numbers of the pages go to them in page order.
Numbers(d, start) ==
    LET pages == PageIds(d)
        sorted == InOrder(ToSet(pages))
        rank(i) == start + Cardinality({j \in DOMAIN d.objects : j < i})
    IN [i \in DOMAIN d.objects |->
           IF i \in ToSet(pages) THEN rank(sorted[CHOOSE p \in DOMAIN pages : pages[p] = i])
                                 ELSE rank(i)]

Renumbered(d, start) == Relabelled(d, Numbers(d, start))

-----------------------------------------------------------------------------
(* What a viewer shows *)

\* A content stream draws what is its own or what a name stands for.
Drawn(objects, names, c) ==
    LET drawn(item) == IF "own" \in DOMAIN item THEN item.own ELSE objects[names[item.name]].label
    IN [k \in DOMAIN objects[c].draws |-> drawn(objects[c].draws[k])]

Note(objects, a) ==
    [kind |-> objects[a].kind,
     shows |-> IF objects[a].appearance = 0 THEN None ELSE objects[objects[a].appearance].label]

\* A page with the attributes that are found for it.
PageView(objects, page, found) ==
    LET value(key, missing) == IF key \in DOMAIN found THEN found[key] ELSE missing
        drawn(c) == Drawn(objects, Named(found), c)
    IN [drawn |-> FlattenSeq([k \in DOMAIN page.contents |-> drawn(page.contents[k])]),
        annots |-> [k \in DOMAIN page.annots |-> Note(objects, page.annots[k])],
        rotate |-> value("rotate", 0) % 360,
        crop |-> value("crop", None),
        media |-> value("media", None)]

\* The viewer looks as far up the tree as it goes.
Shown(objects, i) ==
    PageView(objects, objects[i], Inherited(objects, i, Cardinality(OfKind(objects, "pages"))))

View(d) == LET pages == PageIds(d) IN [p \in DOMAIN pages |-> Shown(d.objects, pages[p])]

-----------------------------------------------------------------------------
(* What requests name *)

ValidRange(range) ==
    range.start # 0 /\ range.start <= range.end /\ range.end <= Len(PageIds(doc))

\* selected_pages: no range selects all of them.
SelectedPages(ranges) ==
    IF ranges = <<>> THEN ToSet(PageIds(doc))
    ELSE {PageIds(doc)[p] : p \in UNION {ranges[i].start .. ranges[i].end : i \in DOMAIN ranges}}

\* validate_order.
ValidOrder(order) ==
    /\ Len(order) = Len(PageIds(doc))
    /\ Cardinality(ToSet(order)) = Len(order)
    /\ ToSet(order) \subseteq 1 .. Len(PageIds(doc))

NoRequest == [op |-> "none"]

\* The answer has been used: what was asked for is forgotten.
Forget ==
    /\ request' = NoRequest
    /\ UNCHANGED <<doc, shown, requests, damaged>>

Answer(r, d, harmed) ==
    /\ doc' = d
    /\ shown' = View(d)
    /\ request' = r
    /\ requests' = requests + 1
    /\ damaged' = harmed

-----------------------------------------------------------------------------
(* The operations *)

\* An object with an attribute of its own.
WithAttribute(o, key, value) == [o EXCEPT !.attributes = Overlay([k \in {key} |-> value], @)]

\* A mutant: the sum is not taken modulo 360.
RotatedOn(objects, i, angle) ==
    WithAttribute(objects[i], "rotate", InheritedRotation(objects, i) + angle)

RotatedPage(objects, i, angle) ==
    WithAttribute(objects[i], "rotate", (InheritedRotation(objects, i) + angle) % 360)

Rotate(ranges, angle) ==
    /\ \A i \in DOMAIN ranges : ValidRange(ranges[i])
    /\ LET selected == SelectedPages(ranges)
       IN /\ \A i \in selected : RotationKnown(doc.objects, i)
          /\ Answer([op |-> "rotate", ranges |-> ranges, angle |-> angle],
                    [doc EXCEPT !.objects = [i \in DOMAIN @ |->
                        IF i \in selected THEN RotatedPage(@, i, angle) ELSE @[i]]],
                    FALSE)

\* The rectangle has to fit in the media box of every selected page.
Crop(ranges, box) ==
    /\ \A i \in DOMAIN ranges : ValidRange(ranges[i])
    /\ LET selected == SelectedPages(ranges)
           page(i) == Materialize(doc.objects, i)
       IN /\ \A i \in selected : LET known == page(i).attributes
                                IN "media" \in DOMAIN known /\ box <= known.media
          /\ Answer([op |-> "crop", ranges |-> ranges, box |-> box],
                    [doc EXCEPT !.objects = [i \in DOMAIN @ |->
                        IF i \in selected THEN WithAttribute(page(i), "crop", box) ELSE @[i]]],
                    FALSE)

\* A mutant: the pages are listed by the tree and do not refer to it.
ListedOnly(page, tree) == [page EXCEPT !.parent = 0]

UnderTree(page, tree) == [page EXCEPT !.parent = tree]

\* The pages, materialized, get a new and flat tree.
Reorder(order) ==
    /\ ValidOrder(order)
    /\ LET pages == PageIds(doc)
           tree == Max(DOMAIN doc.objects) + 1
           kids == [p \in DOMAIN order |-> pages[order[p]]]
           moved == [i \in ToSet(kids) |-> UnderTree(Materialize(doc.objects, i), tree)]
           objects == Overlay([i \in {tree} |-> [Object("pages") EXCEPT !.kids = kids]],
                              Overlay(moved, doc.objects))
       IN Answer([op |-> "reorder", order |-> order],
                 Renumbered(Pruned([objects |-> objects, root |-> tree], TRUE), 1), FALSE)

\* A mutant: the name is used whether or not it is taken.
PrefixName(names, prefix) == Append(prefix, 0)

\* unique_name: the prefix with the smallest suffix that is free.
UniqueName(names, prefix) ==
    Append(prefix, Min({n \in 0 .. Cardinality(DOMAIN names) : Append(prefix, n) \notin DOMAIN names}))

\* New content streams for some pages, numbered in page order.
StreamOf(after, pages, i) ==
    after + Cardinality({j \in pages : PageAt(doc, j) <= PageAt(doc, i)})

Streams(after, draws) ==
    LET stream(i) == StreamOf(after, DOMAIN draws, i)
    IN [s \in {stream(i) : i \in DOMAIN draws} |->
           [Object("content") EXCEPT !.draws = draws[CHOOSE i \in DOMAIN draws : stream(i) = s]]]

\* A page that names more and has one more content stream.
Painted(page, names, stream) ==
    [WithAttribute(page, "resources", Overlay(names, Named(page.attributes)))
        EXCEPT !.contents = Append(@, stream)]

\* One graphics state for the request, and a content stream for each page.
Watermark(ranges, mark) ==
    /\ \A i \in DOMAIN ranges : ValidRange(ranges[i])
    /\ LET selected == SelectedPages(ranges)
           state == Max(DOMAIN doc.objects) + 1
           page(i) == Materialize(doc.objects, i)
           name(i) == UniqueName(Named(page(i).attributes), <<"state", 0>>)
           marked == [i \in selected |-> Painted(page(i), [n \in {name(i)} |-> state],
                                                  StreamOf(state, selected, i))]
           states == [i \in {state} |-> [Object("state") EXCEPT !.label = mark]]
           streams == Streams(state, [i \in selected |-> <<Use(name(i))>>])
       IN Answer([op |-> "watermark", ranges |-> ranges, mark |-> mark],
                 [doc EXCEPT !.objects = Overlay(marked, Overlay(states, Overlay(streams, @)))],
                 FALSE)

\* collect_widgets: the widgets of a page, in order.
WidgetsOf(objects, i) == Only(objects[i].annots, OfKind(objects, "widget"))

\* The form of each widget gets a name, which a new content stream of the page
\* draws; the other annotations stay.
FormNames(objects, i) ==
    [w \in DOMAIN WidgetsOf(objects, i) |->
        UniqueName(Named(Inherited(objects, i, MaxLevels)), <<"form", w>>)]

FlatPage(objects, i, stream) ==
    LET widgets == WidgetsOf(objects, i)
        names == FormNames(objects, i)
        forms == [name \in ToSet(names) |->
                     objects[widgets[CHOOSE w \in DOMAIN names : names[w] = name]].appearance]
    IN [Painted(Materialize(objects, i), forms, stream)
           EXCEPT !.annots = Only(@, DOMAIN objects \ OfKind(objects, "widget"))]

\* The form's dictionary, and with it the widgets, goes when there was one.
Flatten ==
    LET objects == doc.objects
        flat == {i \in ToSet(PageIds(doc)) : WidgetsOf(objects, i) # <<>>}
        last == Max(DOMAIN objects)
        pages == [i \in flat |-> FlatPage(objects, i, StreamOf(last, flat, i))]
        streams == Streams(last, [i \in flat |->
                       LET names == FormNames(objects, i) IN [w \in DOMAIN names |-> Use(names[w])]])
        noForm == [i \in OfKind(objects, "catalog") |-> [objects[i] EXCEPT !.annots = <<>>]]
    IN /\ \A i \in flat : \A w \in ToSet(WidgetsOf(objects, i)) : objects[w].appearance # 0
       /\ Answer([op |-> "flatten"],
                 IF flat = {} THEN doc
                 ELSE Renumbered(Pruned([doc EXCEPT !.objects =
                          Overlay(pages, Overlay(noForm, Overlay(streams, @)))], TRUE), 1),
                 FALSE)

\* One of the outputs: the pages outside its range are deleted.
Split(range) ==
    /\ ValidRange(range)
    /\ LET pages == PageIds(doc)
           gone == {pages[p] : p \in DOMAIN pages \ (range.start .. range.end)}
           left == [i \in DOMAIN doc.objects \ gone |->
                       [doc.objects[i] EXCEPT !.kids = Only(@, DOMAIN doc.objects \ gone)]]
       IN Answer([op |-> "split", range |-> range],
                 Renumbered(Pruned([doc EXCEPT !.objects = left], TRUE), 1), FALSE)

\* Where the objects of the n-th document are numbered from.
NextObjectId(docs, n) ==
    LET start[i \in 1 .. n] ==
            IF i = 1 THEN 1 ELSE start[i - 1] + Cardinality(DOMAIN docs[i - 1].objects)
    IN start[n]

\* merge: every object but catalogs, tree nodes and pages goes to the output
\* as it is, from later documents over earlier ones ...
Kept(objects) ==
    [i \in {j \in DOMAIN objects : objects[j].kind \notin {"catalog", "pages", "page"}} |-> objects[i]]

Materialized(objects) == [i \in OfKind(objects, "page") |-> Materialize(objects, i)]

AllOf(parts) ==
    [i \in UNION {DOMAIN parts[n] : n \in DOMAIN parts} |->
        parts[Max({n \in DOMAIN parts : i \in DOMAIN parts[n]})][i]]

\* ... the numbers of the tree and the catalog are drawn past those objects;
\* then the pages go in, and over them the tree and the catalog.
UnderNewTree(moved, others, tree) ==
    LET pages == [i \in DOMAIN moved |-> UnderTree(moved[i], tree)]
        top == [i \in {tree, tree + 1} |->
                   IF i = tree THEN [Object("pages") EXCEPT !.kids = InOrder(DOMAIN moved)]
                               ELSE Object("catalog")]
    IN [objects |-> Overlay(top, Overlay(pages, others)), root |-> tree]

Output(moved, others, tree, r) ==
    LET merged == UnderNewTree(moved, others, tree)
        harmed == DOMAIN moved \cap {tree, tree + 1} # {}
    IN Answer(r, IF harmed THEN merged ELSE Renumbered(Pruned(merged, FALSE), 1), harmed)

Combine(moved, others, r) == Output(moved, others, Max(DOMAIN others \cup {0}) + 1, r)

MergeOf(source, r) ==
    Combine(AllOf([n \in DOMAIN source |-> Materialized(source[n])]),
            AllOf([n \in DOMAIN source |-> Kept(source[n])]), r)

Merge(docs, r) ==
    MergeOf([n \in DOMAIN docs |-> Renumbered(docs[n], NextObjectId(docs, n)).objects], r)

MergeWith(other, before) ==
    /\ Len(PageIds(doc)) + Len(PageIds(other)) <= MaxPages
    /\ Merge(IF before THEN <<other, doc>> ELSE <<doc, other>>,
             [op |-> "merge", with |-> View(other), before |-> before])

\* A single document is merged as well.
MergeAlone == Merge(<<doc>>, [op |-> "merge", with |-> <<>>, before |-> FALSE])

-----------------------------------------------------------------------------

Init ==
    /\ doc \in Documents
    /\ shown = View(doc)
    /\ request = NoRequest
    /\ requests = 0
    /\ damaged = FALSE

\* What becomes of the pages of one document.
Edit ==
    \/ \E ranges \in SeqOf(Ranges, 2) :
          \/ \E angle \in Angles : Rotate(ranges, angle)
          \/ \E box \in Boxes : Crop(ranges, box)
          \/ \E mark \in Marks : Watermark(ranges, mark)
    \/ Flatten
    \/ \E order \in SeqOf(0 .. MaxPages, MaxPages) : Reorder(order)

\* A damaged document is looked at as the merge left it, and not used again.
Useful == ~damaged /\ requests < MaxRequests

Next ==
    /\ Useful
    /\ \/ Edit
       \/ \E range \in Ranges : Split(range)
       \/ \E other \in Documents, before \in BOOLEAN : MergeWith(other, before)
       \/ MergeAlone

Spec == Init /\ [][Next]_vars

-----------------------------------------------------------------------------
(* Properties *)

List == INSTANCE PageList WITH pages <- shown

\* Each reference of an object is to one of the kind it should be to.
Linked(objects, i) ==
    LET o == objects[i]
        of(kinds) == UNION {OfKind(objects, kind) : kind \in kinds}
    IN /\ o.kids # <<>> => o.kind = "pages"
       /\ ToSet(o.kids) \subseteq of({"page", "pages"})
       /\ ToSet(o.contents) \subseteq of({"content"})
       /\ ToSet(o.annots) \subseteq of(Annotations)
       /\ o.appearance \in of({"form"}) \cup {0}
       /\ \A name \in DOMAIN Named(o.attributes) :
             Named(o.attributes)[name] \in of({"state", "form"})

\* The document reads the same downwards and upwards: its tree has every page
\* once, no node lists anything twice, each node and page has as its parent
\* the node that lists it, and references are to what they should be to.
Sound(d) ==
    LET o == d.objects
        pages == PageIds(d)
    IN /\ IsFiniteSet(DOMAIN o) /\ DOMAIN o = 1 .. Cardinality(DOMAIN o)
       /\ Cardinality(OfKind(o, "catalog")) = 1
       /\ d.root \in OfKind(o, "pages") /\ o[d.root].parent = 0
       /\ pages # <<>> /\ IsInjective(pages) /\ ToSet(pages) = OfKind(o, "page")
       /\ \A i \in DOMAIN o : IsInjective(o[i].kids) /\ Linked(o, i)
       /\ \A i, j \in DOMAIN o : i \in ToSet(o[j].kids) <=> o[i].parent = j

Proper(attributes) ==
    /\ DOMAIN attributes \subseteq Attributes
    /\ "rotate" \in DOMAIN attributes => attributes.rotate \in {-90, 0} \cup Angles
    /\ "crop" \in DOMAIN attributes => attributes.crop \in Boxes

\* What is in a document has its type: references name objects, and rotations
\* are quarter turns.
Typed(d) ==
    /\ d = [objects |-> d.objects, root |-> d.root]
    /\ d.root \in DOMAIN d.objects
    /\ DOMAIN d.objects \subseteq Nat \ {0}
    /\ \A i \in DOMAIN d.objects :
          LET o == d.objects[i]
          IN /\ DOMAIN o = DOMAIN Object("page")
             /\ o.kind \in Kinds
             /\ o.parent \in DOMAIN d.objects \cup {0}
             /\ {o.kids, o.contents, o.annots} \subseteq Seq(DOMAIN d.objects)
             /\ Proper(o.attributes)

\* Every name that a page draws by is one of its resources.
Readable(objects, page, found) ==
    LET names == DOMAIN Named(found)
    IN /\ IsFiniteSet(names)
       /\ \A c \in ToSet(page.contents) :
             LET draws == objects[c].draws
             IN /\ draws \in Seq(ToSet(draws))
                /\ \A item \in ToSet(draws) : "own" \in DOMAIN item \/ item.name \in names

Legible(objects) ==
    \A i \in OfKind(objects, "page") :
       Readable(objects, objects[i], Inherited(objects, i, MaxLevels))

\* The documents a request brings are sound and legible, and no deeper than is
\* climbed; the numbers of a range are unsigned.
ASSUME DocumentsAssumption == \A d \in Documents : Typed(d) /\ Sound(d) /\ Legible(d.objects)
ASSUME RangesAssumption == \A range \in Ranges : {range.start, range.end} \subseteq Nat

\* Every variable has its type.
TypeOK ==
    /\ Typed(doc)
    /\ request.op \in {"none", "rotate", "crop", "reorder", "split", "merge", "watermark", "flatten"}
    /\ requests \in 0 .. MaxRequests
    /\ damaged \in BOOLEAN

\* However operations follow each other, the document handed back is sound.
StaysSound == ~damaged => Sound(doc)

\* A sequence of operations does to the pages a viewer shows what was asked,
\* in the order it was asked, and never loses an inherited attribute, unless
\* a merge drew a page's number for another object.
ImplementsPageList == [][List!Next \/ damaged']_<<doc, shown, requests>>

\* merge.rs: the documents are merged in input order, their pages attached to
\* a new flat page tree.
MergeKeepsPages == [][request'.op = "merge" => List!Merge]_vars
=============================================================================
