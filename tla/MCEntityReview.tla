--------------------------- MODULE MCEntityReview ---------------------------
(* EntityReview on small instances: which spans the Documents have.        *)
EXTENDS EntityReview, TLC

CONSTANTS d1, d2, a, b, c, x, k, l, m, n, w, Li, Wu, Phone, Card, Pass, Party, Quoted

Span(doc, start, end, type, text) ==
    [doc |-> doc, block |-> 1, start |-> start, end |-> end, type |-> type,
     strength |-> "EXPLICIT", text |-> text, valid |-> TRUE, manual |-> FALSE]

\* One name in both Documents; a telephone number and a card of that person in
\* the first; in the second a court or another name, a broken number, and another
\* card and a longer name that only the user would mark.
Spans ==
    (a :> Span(d1, 1, 3, "PERSON", Li)) @@
    (b :> Span(d1, 4, 6, "PHONE", Phone)) @@
    (k :> Span(d1, 7, 9, "ID_CARD", Card)) @@
    (c :> Span(d2, 1, 3, "PERSON", Li)) @@
    (x :> [Span(d2, 2, 5, "PERSON", Wu) EXCEPT !.manual = TRUE]) @@
    (l :> [Span(d2, 7, 9, "ID_CARD", Pass) EXCEPT !.manual = TRUE]) @@
    (m :> Span(d2, 10, 12, "COURT", Wu)) @@
    (w :> Span(d2, 10, 12, "PERSON", Wu)) @@
    (n :> [Span(d2, 13, 14, "PHONE", Phone) EXCEPT !.valid = FALSE])
SomeSpans == [s \in Slots |-> Spans[s]]
FieldsOfLi == {<<b, a>>, <<k, a>>, <<l, c>>}
FourEntities == 1..4

=============================================================================
