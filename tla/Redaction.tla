------------------------------ MODULE Redaction ------------------------------
(***************************************************************************)
(* internal/plans/redact.go: JSON pointers and how outbound policy masks   *)
(* what they point at.  A document is a function from places, sequences of *)
(* keys, to what is there: an object, an array or a leaf.  The keys of an  *)
(* array are the numerals of its indices.  A pointer is well formed, with  *)
(* its unescaped tokens, or not.                                           *)
(***************************************************************************)
EXTENDS Naturals, Sequences, SequencesExt

CONSTANTS
    Atoi,      \* tokens that strconv.Atoi takes, to the numeral of the result
    BadIndex   \* tokens that are empty, start with "-", or have a leading zero

Leaf(x) == [kind |-> "leaf", value |-> x]
Object  == [kind |-> "object", value |-> ""]
Array   == [kind |-> "array", value |-> ""]

\* A function, with an object at the root, and for every place the objects and
\* arrays around it.
IsDocument(doc) ==
    /\ doc = [p \in DOMAIN doc |-> doc[p]]
    /\ <<>> \in DOMAIN doc /\ doc[<<>>].kind = "object"
    /\ \A p \in DOMAIN doc :
        /\ p \in Seq(STRING)
        /\ doc[p].kind \in {"object", "array", "leaf"}
        /\ \A n \in 0..(Len(p) - 1) :
             SubSeq(p, 1, n) \in DOMAIN doc /\ doc[SubSeq(p, 1, n)].kind # "leaf"

IsPointer(p) == p.ok \in BOOLEAN /\ p.tokens \in Seq(STRING)

\* Mutant of isIndex: a leading zero is no reason to refuse.
IsNumber(token) == token \in DOMAIN Atoi

isIndex(token) == token \in DOMAIN Atoi \ BadIndex

Missing  == [outcome |-> "missing"]
Failed   == [outcome |-> "failed"]
At(p)    == [outcome |-> "at", place |-> p]
Done(d)  == [outcome |-> "done", doc |-> d]

Enter(doc, p) == IF p \in DOMAIN doc THEN At(p) ELSE Missing

\* Where one token leads from place p.
child(doc, p, token) ==
    CASE doc[p].kind = "object" -> Enter(doc, Append(p, token))
      [] doc[p].kind = "array"  -> IF isIndex(token) THEN Enter(doc, Append(p, Atoi[token])) ELSE Failed
      [] doc[p].kind = "leaf"   -> Missing

\* Where the tokens lead from the root.
walk(doc, tokens) ==
    LET after[n \in 0..Len(tokens)] ==
            IF n = 0 THEN At(<<>>)
            ELSE IF after[n - 1].outcome = "at" THEN child(doc, after[n - 1].place, tokens[n])
            ELSE after[n - 1]
    IN  after[Len(tokens)]

\* What is at one of the places gives way to the mask, with all inside it.
Replace(doc, places, mask) ==
    [q \in {r \in DOMAIN doc : \A p \in places : ~IsStrictPrefix(p, r)} |->
        IF q \in places THEN mask ELSE doc[q]]

setPointer(doc, tokens, mask) ==
    LET end == walk(doc, tokens) IN
    IF end.outcome = "at" THEN Done(Replace(doc, {end.place}, mask)) ELSE end

redactAt(doc, pointer, mask) ==
    IF ~pointer.ok \/ pointer.tokens = <<>> THEN Failed
    ELSE LET set == setPointer(doc, pointer.tokens, mask) IN
         IF set.outcome = "missing" THEN Done(doc) ELSE set

applyRedact(doc, pointers, mask) ==
    LET after[n \in 0..Len(pointers)] ==
            IF n = 0 THEN Done(doc)
            ELSE IF after[n - 1].outcome = "done" THEN redactAt(after[n - 1].doc, pointers[n], mask)
            ELSE after[n - 1]
    IN  after[Len(pointers)]

-----------------------------------------------------------------------------
\* The reference: tokens that lead through doc to p, those that are left
\* over, and doc with a mask wherever pointers lead, the root apart.
KeyFor(node, token) ==
    IF node.kind = "array" /\ token \in DOMAIN Atoi THEN Atoi[token] ELSE token

LeadTo(doc, tokens, p) ==
    /\ Len(p) <= Len(tokens)
    /\ \A i \in 1..Len(p) : p[i] = KeyFor(doc[SubSeq(p, 1, i - 1)], tokens[i])

Denoted(doc, pointers) ==
    {p \in DOMAIN doc \ {<<>>} : \E i \in DOMAIN pointers :
        Len(p) = Len(pointers[i].tokens) /\ LeadTo(doc, pointers[i].tokens, p)}

Masked(doc, pointers, mask) == Replace(doc, Denoted(doc, pointers), mask)

\* A pointer that doc makes no sense of: malformed, to the root, or with a
\* token for an array of doc that is no index.
Senseless(doc, pointer) ==
    \/ ~pointer.ok \/ pointer.tokens = <<>>
    \/ \E p \in DOMAIN doc :
        /\ LeadTo(doc, pointer.tokens, p) /\ Len(p) < Len(pointer.tokens)
        /\ doc[p].kind = "array"
        /\ pointer.tokens[Len(p) + 1] \notin DOMAIN Atoi \ BadIndex
=============================================================================
