-------------------------------- MODULE Ident --------------------------------
(***************************************************************************)
(* Identifiers, tags and their pool (ident/identifier.go, types.go, tag.go,*)
(* identifier_pool.go) over pooled checked bytes: IDs that refer to the    *)
(* client's bytes, that copy a string or that clone another ID, finalized  *)
(* by the client, with the tags they are part of, or by a context.         *)
(* Equal objects of a pool are not told apart: the first free one is       *)
(* taken.  A BytesID is a plain slice and has no state to keep.            *)
(***************************************************************************)
EXTENDS Integers, Sequences, FiniteSets

CONSTANTS
    MaxIDs, MaxBytes,  \* bounds on IDs and on bytes
    IDText,              \* contents of bytes
    NoText, NoBytes,
    TagsVar,           \* variables of type Tags
    SharedBytes        \* the client makes several IDs of the same bytes

ASSUME IdentAssumption ==
    MaxIDs \in Nat /\ MaxBytes \in Nat /\ NoText \notin IDText /\ SharedBytes \in BOOLEAN

IDs == 1 .. MaxIDs
BytesObj == 1 .. MaxBytes

VARIABLES
    idData, noFinalize,  \* the fields of an id
    liveIDs,     \* IDs made and not finalized; the others are in the pool or gone
    madeOf,      \* madeOf[i]: the text i was made of
    bytesRef, bytesText,
    freeBytes,   \* in the bytes pool
    clientBytes, \* bytes the client has filled in, to make an ID of, one at a time
    ctxIDs,      \* registered with the context
    tagsValues,  \* tagsValues[t]: name and value IDs of the tags of t
    tagsNoFinalize
identVars == <<idData, noFinalize, liveIDs, madeOf, bytesRef, bytesText,
               freeBytes, clientBytes, ctxIDs, tagsValues, tagsNoFinalize>>

IdentInit ==
    /\ idData = [i \in IDs |-> NoBytes]
    /\ noFinalize = [i \in IDs |-> FALSE] /\ liveIDs = {}
    /\ madeOf = [i \in IDs |-> NoText]
    /\ bytesRef = [b \in BytesObj |-> 0] /\ bytesText = [b \in BytesObj |-> NoText]
    /\ freeBytes = BytesObj /\ clientBytes = {} /\ ctxIDs = {}
    /\ tagsValues = [t \in TagsVar |-> <<>>] /\ tagsNoFinalize = [t \in TagsVar |-> FALSE]

First(S, n) == CHOOSE k \in S : Cardinality({j \in S : j < k}) = n - 1
FreeIDs == IDs \ liveIDs
TagIDs(t) == {tagsValues[t][k][1] : k \in DOMAIN tagsValues[t]} \cup
             {tagsValues[t][k][2] : k \in DOMAIN tagsValues[t]}

\* IDs the client finalizes itself.
ClientIDs == liveIDs \ (ctxIDs \cup UNION {TagIDs(t) : t \in TagsVar})

-----------------------------------------------------------------------------
(* Making IDs.                                                             *)

\* The client takes bytes from their pool and fills them in.
GetBytes(text) ==
    LET b == First(freeBytes, 1) IN
    /\ freeBytes # {} /\ clientBytes = {}
    /\ freeBytes' = freeBytes \ {b} /\ clientBytes' = clientBytes \cup {b}
    /\ bytesText' = [bytesText EXCEPT ![b] = text]
    /\ UNCHANGED <<idData, noFinalize, liveIDs, madeOf, bytesRef, ctxIDs, tagsValues, tagsNoFinalize>>

\* BinaryID, of the package or of the pool, and GetBinaryID, which registers
\* the ID with the context.  An object of the pool keeps its noFinalize.
BinaryID(b, fromPool, ctx) ==
    LET i == First(FreeIDs, 1) IN
    /\ FreeIDs # {} /\ b \in clientBytes /\ (ctx => fromPool)
    /\ clientBytes' = IF SharedBytes THEN clientBytes ELSE clientBytes \ {b}
    /\ bytesRef' = [bytesRef EXCEPT ![b] = @ + 1]
    /\ idData' = [idData EXCEPT ![i] = b]
    /\ noFinalize' = [noFinalize EXCEPT ![i] = @ /\ fromPool]
    /\ liveIDs' = liveIDs \cup {i} /\ madeOf' = [madeOf EXCEPT ![i] = bytesText[b]]
    /\ ctxIDs' = IF ctx THEN ctxIDs \cup {i} ELSE ctxIDs
    /\ UNCHANGED <<bytesText, freeBytes, tagsValues, tagsNoFinalize>>

\* Pooled IDs for a sequence of texts, each in bytes of its own from the pool:
\* reset, a reference for as long as they are filled in, one for the ID.
MakeIDs(texts) ==
    LET ids  == [k \in DOMAIN texts |-> First(FreeIDs, k)]
        data == [k \in DOMAIN texts |-> First(freeBytes, k)]
        of(seq, x) == CHOOSE k \in DOMAIN seq : seq[k] = x
        In(seq, x) == \E k \in DOMAIN seq : seq[k] = x
    IN /\ Cardinality(FreeIDs) >= Len(texts) /\ Cardinality(freeBytes) >= Len(texts)
       /\ idData' = [i \in IDs |-> IF In(ids, i) THEN data[of(ids, i)] ELSE idData[i]]
       /\ madeOf' = [i \in IDs |-> IF In(ids, i) THEN texts[of(ids, i)] ELSE madeOf[i]]
       /\ liveIDs' = liveIDs \cup {ids[k] : k \in DOMAIN texts}
       /\ bytesRef' = [b \in BytesObj |-> IF In(data, b) THEN bytesRef[b] + 1 ELSE bytesRef[b]]
       /\ bytesText' = [b \in BytesObj |-> IF In(data, b) THEN texts[of(data, b)] ELSE bytesText[b]]
       /\ freeBytes' = freeBytes \ {data[k] : k \in DOMAIN texts}

\* StringID and GetStringID.
StringID(text, ctx) ==
    /\ MakeIDs(<<text>>)
    /\ ctxIDs' = IF ctx THEN ctxIDs \cup {First(FreeIDs, 1)} ELSE ctxIDs
    /\ UNCHANGED <<noFinalize, clientBytes, tagsValues, tagsNoFinalize>>

\* Faulty variant: the clone refers to the bytes of the ID.
Clone_Shares(existing) ==
    LET i == First(FreeIDs, 1) IN
    /\ FreeIDs # {} /\ existing \in liveIDs
    /\ bytesRef' = [bytesRef EXCEPT ![idData[existing]] = @ + 1]
    /\ idData' = [idData EXCEPT ![i] = idData[existing]]
    /\ madeOf' = [madeOf EXCEPT ![i] = bytesText[idData[existing]]]
    /\ liveIDs' = liveIDs \cup {i}
    /\ UNCHANGED <<noFinalize, bytesText, freeBytes, clientBytes, ctxIDs, tagsValues, tagsNoFinalize>>

\* Clone: a pooled ID with a copy of the bytes the ID has now.
Clone(existing) ==
    /\ existing \in liveIDs
    /\ MakeIDs(<<bytesText[idData[existing]]>>)
    /\ UNCHANGED <<noFinalize, clientBytes, ctxIDs, tagsValues, tagsNoFinalize>>

\* Tags.Append of a tag made of two of the client's IDs.
AppendTag(t, name, value) ==
    /\ {name, value} \subseteq ClientIDs /\ name # value /\ ~tagsNoFinalize[t]
    /\ tagsValues' = [tagsValues EXCEPT ![t] = Append(@, <<name, value>>)]
    /\ UNCHANGED <<idData, noFinalize, liveIDs, madeOf, bytesRef, bytesText, freeBytes,
                   clientBytes, ctxIDs, tagsNoFinalize>>

\* CloneTags, CloneTag: every ID of the tags is cloned.
CloneTags(t, u) ==
    LET flat == [k \in 1 .. 2 * Len(tagsValues[t]) |-> tagsValues[t][(k + 1) \div 2][2 - (k % 2)]] IN
    /\ tagsValues[t] # <<>> /\ tagsValues[u] = <<>>
    /\ MakeIDs([k \in DOMAIN flat |-> bytesText[idData[flat[k]]]])
    /\ tagsValues' = [tagsValues EXCEPT ![u] = [k \in DOMAIN tagsValues[t] |->
                         <<First(FreeIDs, 2 * k - 1), First(FreeIDs, 2 * k)>>]]
    /\ UNCHANGED <<noFinalize, clientBytes, ctxIDs, tagsNoFinalize>>

-----------------------------------------------------------------------------
(* Finalizing IDs.                                                         *)

\* id.Finalize of each of S: the reference is given back and the bytes are
\* finalized, which cuts them to length zero and puts them in their pool,
\* whatever their references; then the ID goes to its pool.
FinalizeIDs(S) ==
    LET F == {i \in S : ~noFinalize[i]} IN
    /\ bytesRef' = [b \in BytesObj |-> bytesRef[b] - Cardinality({i \in F : idData[i] = b})]
    /\ freeBytes' = freeBytes \cup {idData[i] : i \in F}
    /\ bytesText' = [b \in BytesObj |-> IF \E i \in F : idData[i] = b THEN NoText ELSE bytesText[b]]
    /\ liveIDs' = liveIDs \ F
    /\ madeOf' = [i \in IDs |-> IF i \in F THEN NoText ELSE madeOf[i]]
    /\ idData' = [i \in IDs |-> IF i \in F THEN NoBytes ELSE idData[i]]

FinalizeID(i) ==
    /\ i \in ClientIDs /\ FinalizeIDs({i})
    /\ UNCHANGED <<noFinalize, clientBytes, ctxIDs, tagsValues, tagsNoFinalize>>

\* The context closes and finalizes what is registered.
CloseContext ==
    /\ ctxIDs # {} /\ FinalizeIDs(ctxIDs) /\ ctxIDs' = {}
    /\ UNCHANGED <<noFinalize, clientBytes, tagsValues, tagsNoFinalize>>

\* Put of an ID that was not finalized: it goes to the pool as it is.
PutID(i) ==
    /\ i \in ClientIDs /\ ~noFinalize[i]
    /\ liveIDs' = liveIDs \ {i}
    /\ UNCHANGED <<idData, noFinalize, madeOf, bytesRef, bytesText, freeBytes,
                   clientBytes, ctxIDs, tagsValues, tagsNoFinalize>>

NoFinalizeID(i) ==
    /\ i \in ClientIDs
    /\ noFinalize' = [noFinalize EXCEPT ![i] = TRUE]
    /\ UNCHANGED <<idData, liveIDs, madeOf, bytesRef, bytesText, freeBytes,
                   clientBytes, ctxIDs, tagsValues, tagsNoFinalize>>

\* Tags.NoFinalize reaches the IDs of its tags.
TagsNoFinalize(t) ==
    /\ tagsValues[t] # <<>>
    /\ tagsNoFinalize' = [tagsNoFinalize EXCEPT ![t] = TRUE]
    /\ noFinalize' = [i \in IDs |-> noFinalize[i] \/ i \in TagIDs(t)]
    /\ UNCHANGED <<idData, liveIDs, madeOf, bytesRef, bytesText, freeBytes,
                   clientBytes, ctxIDs, tagsValues>>

\* Tags.Finalize, Tag.Finalize: every ID, then the array goes to its pool.
TagsFinalize(t) ==
    /\ ~tagsNoFinalize[t] /\ tagsValues[t] # <<>>
    /\ FinalizeIDs(TagIDs(t))
    /\ tagsValues' = [tagsValues EXCEPT ![t] = <<>>]
    /\ UNCHANGED <<noFinalize, clientBytes, ctxIDs, tagsNoFinalize>>

IdentNext ==
    \/ \E text \in IDText : GetBytes(text) \/ \E ctx \in BOOLEAN : StringID(text, ctx)
    \/ \E b \in BytesObj, fromPool, ctx \in BOOLEAN : BinaryID(b, fromPool, ctx)
    \/ CloseContext
    \/ \E i \in IDs : Clone(i) \/ FinalizeID(i) \/ PutID(i) \/ NoFinalizeID(i)
    \/ \E t \in TagsVar :
        \/ TagsNoFinalize(t) \/ TagsFinalize(t)
        \/ \E i, j \in IDs : AppendTag(t, i, j)
        \/ \E u \in TagsVar : CloneTags(t, u)

IdentSpec == IdentInit /\ [][IdentNext]_identVars

-----------------------------------------------------------------------------
(* Properties.                                                             *)

\* An ID that has not been finalized reads the text it was made of and holds a
\* reference to its bytes, which are not in their pool, whoever else was made
\* of the same text, cloned or finalized, in whatever order; IDs and tags
\* marked NoFinalize keep theirs for good.
IDsKeepTheirBytes ==
    \A i \in liveIDs :
        /\ idData[i] \in BytesObj \ freeBytes
        /\ bytesText[idData[i]] = madeOf[i]
        /\ bytesRef[idData[i]] >= 1

=============================================================================
