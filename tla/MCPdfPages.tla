----------------------------- MODULE MCPdfPages -----------------------------
(* Small documents in several numberings for PdfPages. *)
EXTENDS PdfPages

CONSTANTS faint, bold

\* Where each object is above, and what it refers to.
ParentOf == [mid |-> "root", page |-> "mid", page2 |-> "root"]
ContentOf == [page |-> "content", page2 |-> "content2"]
AnnotsOf == [page |-> <<"field", "note", "field2">>, page2 |-> <<"field3">>, catalog |-> <<"field", "field2">>]
AppearanceOf == [field |-> "form", field2 |-> "form2"]
KindOf == [catalog |-> "catalog", root |-> "pages", mid |-> "pages", page |-> "page",
           page2 |-> "page", content |-> "content", content2 |-> "content", info |-> "info",
           field |-> "widget", field2 |-> "widget", field3 |-> "widget", note |-> "note",
           form |-> "form", form2 |-> "form", state |-> "state"]

\* A document whose objects are numbered in the given order; without a middle
\* node its first page is directly below the root, which names the graphics
\* state there is for all pages.
Numbered(order, label, rotate) ==
    LET at(role) == IF role \in ToSet(order) THEN CHOOSE i \in DOMAIN order : order[i] = role ELSE 0
        there(roles) == LET list == SelectSeq(roles, LAMBDA r : r \in ToSet(order))
                        IN [k \in DOMAIN list |-> at(list[k])]
        up(role) == IF role \notin DOMAIN ParentOf THEN 0
                    ELSE IF at(ParentOf[role]) = 0 THEN at("root") ELSE at(ParentOf[role])
        object(i) ==
            LET role == order[i]
                kind == KindOf[role]
            IN [Object(kind) EXCEPT
                !.parent = up(role),
                !.kids = SetToSortSeq({j \in DOMAIN order : up(order[j]) = i}, <),
                !.contents = IF role \in DOMAIN ContentOf THEN there(<<ContentOf[role]>>) ELSE <<>>,
                !.draws = CASE kind # "content" -> <<>>
                            [] at("state") = 0 -> <<Own(<<label, role>>)>>
                            [] OTHER -> <<Use(<<"state", 0, 0>>), Own(<<label, role>>)>>,
                !.annots = IF role \in DOMAIN AnnotsOf THEN there(AnnotsOf[role]) ELSE <<>>,
                !.appearance = IF role \in DOMAIN AppearanceOf THEN at(AppearanceOf[role]) ELSE 0,
                !.label = IF kind \in {"form", "state"} THEN <<label, role>> ELSE None,
                !.attributes =
                    (IF role \in DOMAIN rotate THEN [rotate |-> rotate[role]] ELSE <<>>)
                    @@ (CASE role = "root" -> [media |-> 2] [] role = "page2" -> [media |-> 1]
                          [] OTHER -> <<>>)
                    @@ (IF role = "root" /\ at("state") # 0
                        THEN [resources |-> <<"state", 0, 0>> :> at("state")] ELSE <<>>)]
    IN [objects |-> [i \in DOMAIN order |-> object(i)], root |-> at("root")]

MCDocuments ==
    {Numbered(<<"catalog", "root", "page", "content", "field", "note", "field2", "form", "form2">>, "a",
              [root |-> 90]),
     Numbered(<<"content", "page", "root", "catalog", "info", "field3">>, "b", [page |-> 180, root |-> 90]),
     Numbered(<<"root", "content", "page", "catalog">>, "c", <<>>),
     Numbered(<<"catalog", "root", "mid", "page", "state", "content", "page2", "content2">>, "d",
              [mid |-> -90]),
     Numbered(<<"content", "content2", "page", "field", "page2", "mid", "root", "form", "field3",
                "catalog", "info">>, "e", [root |-> 270, page2 |-> 0])}

MCRanges == {[start |-> r[1], end |-> r[2]] : r \in {<<1, 1>>, <<2, 2>>, <<1, 2>>, <<2, 3>>, <<2, 1>>}}
MCBoxes == {1, 2}
=============================================================================
