------------------------ MODULE MCEsDocumentManager ------------------------
EXTENDS EsDocumentManager

CONSTANTS d1, d2

MCSymmetry == Permutations(Docs)

\* "derived" is a class derived from the class "single".
MCKinds == [t \in Types |-> {"single", t}]

\* The types share their description and extension.
MCNewKey == [t \in Types |-> [n \in 0..1 |-> "new0"]]
=============================================================================
