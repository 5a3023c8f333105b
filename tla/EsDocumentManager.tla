------------------------- MODULE EsDocumentManager -------------------------
(* EsDocumentManager and EsDocument (esmdi): the collection of open         *)
(* documents by key, singleton types, the automatic keys of new documents,  *)
(* closing, and saving under another key.  A call is one step, except       *)
(* documentsCloseAll(), which closes one document per step.  A call that an *)
(* exception ends before it changed anything is no step.  What derived      *)
(* document classes do (read, write, initialise, refuse to close) is        *)
(* external: it succeeds or throws.                                         *)
EXTENDS EsAssocContainer, FiniteSets

CONSTANTS Docs,        \* document objects: the bound on those open at once
          NoDoc,
          Types,       \* document types: plain, or complex ("Main:Sub")
          Singletons,  \* the types registered with the singleton attribute
          Kinds,       \* Kinds[t]: the types isKindOf() confirms for a
                       \* document created as t; a complex type is none
          Keys,
          NewKey,      \* NewKey[t][n]: "New <shortDescr> <n>.<ext>"
          MaxNew,      \* bound: automatic keys made per type
          Vals, NoVal  \* the contents of a document, abstracted to one value

ASSUME TypesAssumption ==
    /\ Singletons \subseteq Types
    /\ Kinds \in [Types -> SUBSET Types]
    /\ MaxNew \in Nat
    /\ NewKey \in [Types -> [0..MaxNew -> Keys]]
    /\ NoDoc \notin Docs
    /\ NoVal \notin Vals

VARIABLES
    registered,     \* m_reg: the registered types
    docs,           \* m_docs: the container of the open documents
    newDocCounter,  \* m_newDocCounter
    doc,            \* the members of each document object
    closing,        \* documentsCloseAll(): the keys still to close
    told,           \* history: the keys a listener believes are open, from
                    \* the created, closed and key-changed events posted
    refused         \* history: a rename was refused after m_key was set

vars == <<registered, docs, newDocCounter, doc, closing, told, refused>>

Contents == Vals \cup {NoVal}

\* Two of them are history: saved, the contents last read or written, and
\* again: the m_modified of a document that is not new was withdrawn since then
\* by setting a value to what it was, and has not been set again.
Documents == [key : Keys, type : Types, new : BOOLEAN, modified : BOOLEAN,
              vals : Contents, saved : Contents, again : BOOLEAN]

\* No object: documents that are not open are not followed.
Gone == [new |-> FALSE]

Open(d) == d \in Docs /\ doc[d] # Gone

\* A new document after emptyContentsInit().
Fresh(t, k) ==
    {r \in Documents : /\ r.type = t /\ r.key = k
                       /\ r.new /\ r.saved = NoVal /\ ~r.again}

\* A document whose contents were read.
Loaded(t, k) ==
    {r \in Documents : /\ r.type = t /\ r.key = k
                       /\ ~r.new /\ ~r.modified /\ ~r.again
                       /\ r.vals = r.saved}

Init ==
    /\ registered = {}
    /\ docs = NewContainer
    /\ newDocCounter = [t \in Types |-> 0]
    /\ doc = [d \in Docs |-> Gone]
    /\ closing = <<>>
    /\ told = {}
    /\ refused = FALSE

-----------------------------------------------------------------------------
\* The caller's thread is in no documentsCloseAll().
Idle == closing = <<>> /\ UNCHANGED closing

\* In the order the documents were added.
DocumentFindFirstByType(t) ==
    LET vals  == AllValuesGet(docs)
        found == {i \in DOMAIN vals : t \in Kinds[doc[vals[i]].type]}
    IN  IF found = {} THEN NoDoc ELSE vals[Min(found)]

DocumentRegister(t) ==
    /\ Idle
    /\ t \notin registered
    /\ registered' = registered \cup {t}
    /\ UNCHANGED <<docs, newDocCounter, doc, told, refused>>

-----------------------------------------------------------------------------
(* Faulty variants of actions below.                                       *)

\* The object learns its new key only from the next save.
WriteAsForgets(d, k) ==
    /\ Idle /\ Open(d)
    /\ k # doc[d].key
    /\ ~KeyExists(docs, k) /\ KeyExists(docs, doc[d].key)
    /\ docs' = KeyChange(docs, doc[d].key, k)
    /\ doc' = [doc EXCEPT ![d].saved = doc[d].vals, ![d].modified = FALSE,
                          ![d].new = FALSE]
    /\ told' = (told \ {doc[d].key}) \cup {k}
    /\ UNCHANGED <<registered, newDocCounter, refused>>

\* The key-changed event is posted before the container is asked.
WriteAsTellsFirst(d, k) ==
    /\ Idle /\ Open(d)
    /\ k # doc[d].key
    /\ KeyExists(docs, k) \/ ~KeyExists(docs, doc[d].key)
    /\ doc' = [doc EXCEPT ![d].key = k, ![d].saved = doc[d].vals,
                          ![d].modified = FALSE, ![d].new = FALSE]
    /\ told' = (told \ {doc[d].key}) \cup {k}
    /\ refused' = TRUE
    /\ UNCHANGED <<registered, docs, newDocCounter>>

\* Only the document to be opened is looked for.
VacatedNone(t) == {}

\* The closed document keeps its manager.
CloseNextKept ==
    /\ closing # <<>>
    /\ closing' = Tail(closing)
    /\ docs' = ItemDelete(docs, Head(closing))
    /\ told' = told \ {Head(closing)}
    /\ UNCHANGED <<registered, newDocCounter, doc, refused>>

\* Only new contents are written, but the flags are withdrawn in any case.
WrittenIfNew(r) ==
    [r EXCEPT !.saved = IF r.new THEN r.vals ELSE r.saved,
              !.new = FALSE, !.modified = FALSE, !.again = FALSE]

-----------------------------------------------------------------------------
\* documentAttach(): the document enters the collection, and the listeners
\* hear DocumentCreated.
Attach(c, d, r, heard) ==
    /\ docs' = NewValueSet(c, r.key, d)
    /\ doc' = [x \in Docs |-> IF x = d THEN r
                              ELSE IF x \in Range(AllValuesGet(c)) THEN doc[x]
                              ELSE Gone]
    /\ told' = heard \cup {r.key}

\* documentCreate() allows no second document of a singleton type.
MayCreate(t) ==
    /\ t \in registered
    /\ t \in Singletons => DocumentFindFirstByType(t) = NoDoc

DocumentCreate(t, k, d) ==
    /\ Idle /\ MayCreate(t)
    /\ ~Open(d) /\ ~KeyExists(docs, k)
    /\ \E r \in Fresh(t, k) : Attach(docs, d, r, told)
    /\ UNCHANGED <<registered, newDocCounter, refused>>

CountNew(t) ==
    /\ newDocCounter[t] < MaxNew
    /\ newDocCounter' = [newDocCounter EXCEPT ![t] = @ + 1]

DocumentCreateAutoKey(t, d) ==
    /\ Idle /\ MayCreate(t)
    /\ ~Open(d) /\ ~KeyExists(docs, NewKey[t][newDocCounter[t]])
    /\ CountNew(t)
    /\ \E r \in Fresh(t, NewKey[t][newDocCounter[t]]) : Attach(docs, d, r, told)
    /\ UNCHANGED <<registered, refused>>

\* The contents cannot be initialised, or the key is taken: the number of
\* the automatic key is used up.
DocumentCreateFails(t) ==
    /\ Idle /\ MayCreate(t)
    /\ CountNew(t)
    /\ UNCHANGED <<registered, docs, doc, told, refused>>

-----------------------------------------------------------------------------
\* The keys documentOpen(t) closes first: that of the open document of a
\* singleton type, as the document itself states it.
Vacated(t) ==
    {doc[d].key : d \in {DocumentFindFirstByType(t)} \cap
                        (IF t \in Singletons THEN Docs ELSE {})}

\* It closes what the collection holds under that key, unless that document
\* refuses, or there is none.
MayVacate(t) == t \in registered /\ \A k \in Vacated(t) : KeyExists(docs, k)

Remaining(t) ==
    IF Vacated(t) = {} THEN docs
    ELSE ItemDelete(docs, CHOOSE k \in Vacated(t) : TRUE)

DocumentOpen(t, k, d) ==
    /\ Idle /\ MayVacate(t)
    /\ ~KeyExists(Remaining(t), k)
    /\ d \notin Range(AllValuesGet(Remaining(t)))
    /\ \E r \in Loaded(t, k) \cup Fresh(t, k) :
          Attach(Remaining(t), d, r, told \ Vacated(t))
    /\ UNCHANGED <<registered, newDocCounter, refused>>

\* The document is open already, of a compatible type or not, or it cannot be
\* read: what stood in its way stays closed.
DocumentOpenVacates(t) ==
    /\ Idle /\ MayVacate(t)
    /\ Vacated(t) # {}
    /\ docs' = Remaining(t)
    /\ doc' = [d \in Docs |->
                IF d \in Range(AllValuesGet(Remaining(t))) THEN doc[d] ELSE Gone]
    /\ told' = told \ Vacated(t)
    /\ UNCHANGED <<registered, newDocCounter, refused>>

-----------------------------------------------------------------------------
\* The document at this key leaves the collection: managerSet(nullptr),
\* itemDelete(), DocumentClosed.
Close(k) ==
    /\ docs' = ItemDelete(docs, k)
    /\ doc' = [doc EXCEPT ![ValueGet(docs, k)] = Gone]
    /\ told' = told \ {k}
    /\ UNCHANGED <<registered, newDocCounter, refused>>

DocumentClose(k) == Idle /\ KeyExists(docs, k) /\ Close(k)

DocumentsCloseAll ==
    /\ closing = <<>>
    /\ closing' = AllKeysGet(docs)
    /\ UNCHANGED <<registered, docs, newDocCounter, doc, told, refused>>

CloseNext ==
    /\ closing # <<>>
    /\ closing' = Tail(closing)
    /\ Close(Head(closing))

\* canClose is false: the exception ends documentsCloseAll().
CloseNextRefused ==
    /\ closing # <<>>
    /\ closing' = <<>>
    /\ UNCHANGED <<registered, docs, newDocCounter, doc, told, refused>>

-----------------------------------------------------------------------------
ValueSet(d, v) ==
    /\ Idle /\ Open(d)
    /\ doc' = [doc EXCEPT ![d].vals = v,
                          ![d].modified = (doc[d].vals # v),
                          ![d].again = /\ doc[d].vals = v
                                       /\ ~doc[d].new
                                       /\ @ \/ doc[d].modified]
    /\ UNCHANGED <<registered, docs, newDocCounter, told, refused>>

ValueDelete(d) ==
    /\ Idle /\ Open(d)
    /\ doc[d].vals # NoVal
    /\ doc' = [doc EXCEPT ![d].vals = NoVal, ![d].modified = TRUE,
                          ![d].again = FALSE]
    /\ UNCHANGED <<registered, docs, newDocCounter, told, refused>>

\* doRead() returned true; otherwise nothing changes.
Read(d) ==
    /\ Idle /\ Open(d)
    /\ \E r \in Loaded(doc[d].type, doc[d].key) : doc' = [doc EXCEPT ![d] = r]
    /\ UNCHANGED <<registered, docs, newDocCounter, told, refused>>

\* write(): the contents are written only if they are new or modified.
Written(r) ==
    IF r.new \/ r.modified
    THEN [r EXCEPT !.saved = r.vals, !.new = FALSE, !.modified = FALSE,
                   !.again = FALSE]
    ELSE r

Write(d) ==
    /\ Idle /\ Open(d)
    /\ doc' = [doc EXCEPT ![d] = Written(doc[d])]
    /\ UNCHANGED <<registered, docs, newDocCounter, told, refused>>

\* write() with another key: keySet() and keyChange().
WriteAs(d, k) ==
    /\ Idle /\ Open(d)
    /\ k # doc[d].key
    /\ ~KeyExists(docs, k) /\ KeyExists(docs, doc[d].key)
    /\ docs' = KeyChange(docs, doc[d].key, k)
    /\ doc' = [doc EXCEPT ![d] = [Written(doc[d]) EXCEPT !.key = k]]
    /\ told' = (told \ {doc[d].key}) \cup {k}
    /\ UNCHANGED <<registered, newDocCounter, refused>>

\* The collection has the key already, or has lost the old one: m_key is set
\* when keyChange() throws.
WriteAsRefused(d, k) ==
    /\ Idle /\ Open(d)
    /\ k # doc[d].key
    /\ KeyExists(docs, k) \/ ~KeyExists(docs, doc[d].key)
    /\ doc' = [doc EXCEPT ![d] = [Written(doc[d]) EXCEPT !.key = k]]
    /\ refused' = TRUE
    /\ UNCHANGED <<registered, docs, newDocCounter, told>>

Next ==
    \/ \E t \in Types :
          \/ DocumentRegister(t)
          \/ DocumentCreateFails(t)
          \/ DocumentOpenVacates(t)
          \/ \E d \in Docs : DocumentCreateAutoKey(t, d)
          \/ \E k \in Keys, d \in Docs :
                DocumentCreate(t, k, d) \/ DocumentOpen(t, k, d)
    \/ \E k \in Keys : DocumentClose(k)
    \/ DocumentsCloseAll \/ CloseNext \/ CloseNextRefused
    \/ \E d \in Docs :
          \/ \E v \in Vals : ValueSet(d, v)
          \/ ValueDelete(d) \/ Read(d) \/ Write(d)
          \/ \E k \in Keys : WriteAs(d, k) \/ WriteAsRefused(d, k)

Spec == Init /\ [][Next]_vars

-----------------------------------------------------------------------------
\* Also: a document has its members exactly while the collection holds it,
\* and documentsCloseAll() has keys left only of documents that are open.
TypeOK ==
    /\ registered \subseteq Types
    /\ newDocCounter \in [Types -> 0..MaxNew]
    /\ doc \in [Docs -> Documents \cup {Gone}]
    /\ {d \in Docs : Open(d)} = Range(AllValuesGet(docs))
    /\ DOMAIN docs.mapped \subseteq Keys
    /\ Range(closing) \subseteq DOMAIN docs.mapped
    /\ told \subseteq Keys
    /\ refused \in BOOLEAN

\* The nodes of m_docs and its index of keys agree, whatever was opened,
\* renamed and closed in whatever order (keyChange(), internalDelete()).
IndexMatches == Consistent(docs)

\* A listener that follows DocumentCreated, DocumentClosed and
\* DocumentKeyChanged knows exactly the keys that are open, also after calls
\* that threw halfway.
EventsTell == told = DOMAIN docs.mapped

\* A document's keyGet() finds this document in the collection
\* (EsDocument::keySet() changes both), as long as no rename was refused.
KeyAgrees ==
    ~refused => \A k \in DOMAIN docs.mapped : doc[ValueGet(docs, k)].key = k

\* The open documents of the type t itself.
OfType(t) == {d \in Docs : Open(d) /\ doc[d].type = t}

\* No document created as another type is of the kind t as well.
Underived(t) == {u \in Types : t \in Kinds[u]} = {t}

\* At most one document of a singleton type is open, whether it was created
\* or opened, if no other type is derived from it, and no rename was refused:
\* else documentOpen() may close another document in its place.  A complex
\* type is no kind of its documents, and its attribute has no effect.
SingletonUnique ==
    ~refused =>
    \A t \in Singletons : Underived(t) => Cardinality(OfType(t)) <= 1

\* "Open only one singleton document, if another one is open-close it first"
\* (EsDocumentManager.cpp:248), also if a type is derived from it.
OneSingletonOpen ==
    ~refused =>
    \A t \in Singletons : t \in Kinds[t] => Cardinality(OfType(t)) <= 1

\* isModified(), "Document have unsaved changes" (EsDocument.h:31): what was
\* changed since it was last read or written is flagged, so that the next save
\* does not skip it, whatever calls came in between and failed - except that
\* setting a value to what it is already withdraws the flag of the changes
\* made before (EsDocument.cpp:132), which "again" remembers.
UnsavedFlagged ==
    \A d \in Docs : Open(d) /\ ~doc[d].new /\ doc[d].vals # doc[d].saved
                       => doc[d].modified \/ doc[d].again
=============================================================================
