---------------------------- MODULE InputSchemas ----------------------------
(***************************************************************************)
(* What internal/plans/schema.go makes of the JSON Schemas in a workflow:  *)
(* the schema of `inputs` is stripped, closed and split into HTTP          *)
(* parameters and a body, `x-outputs` into headers and a body.             *)
(*                                                                         *)
(* A schema is a function from places to nodes.  A place is the sequence   *)
(* of steps that lead to it, each into a part of a node and to a name or a *)
(* position there.  A part stands for keywords that the code treats alike: *)
(* oneOf for anyOf, not for if/then/else, defs for $defs and definitions.  *)
(* A function of the code that walks into some parts of every node reaches *)
(* the places all of whose steps are Through these parts.  "other" stands  *)
(* for the keywords that hold schemas and that no function walks into:     *)
(* patternProperties, contains, propertyNames, dependentSchemas and the    *)
(* unevaluated ones.                                                       *)
(***************************************************************************)
EXTENDS Naturals, Sequences, SequencesExt

CONSTANTS
    Reserved,  \* input names that arazzo.ReservedInputKey knows
    Lower      \* HTTP field names to lower case

NoSource == [interface |-> "none", protocol |-> "", in |-> "", name |-> ""]

AnyNode  == [type |-> "", source |-> NoSource, closed |-> FALSE, required |-> {}]
Anything == [p \in {<<>>} |-> AnyNode]

Combinators == {"oneOf", "allOf"}
SameLevel   == Combinators \cup {"not", "defs"}
Visited     == SameLevel \cup {"props", "tuple", "items", "extra"}
Parts       == Visited \cup {"other"}

Node == [type : STRING, source : [interface : STRING, protocol : STRING, in : STRING, name : STRING],
         closed : BOOLEAN, required : SUBSET STRING]

\* A node for every place, and with a place the ones on the way to it; some
\* place lies deepest.
IsSchema(s) ==
    /\ s \in [DOMAIN s -> Node]
    /\ <<>> \in DOMAIN s
    /\ \A p \in DOMAIN s : p \in Seq(Parts \X STRING) /\ (p # <<>> => Front(p) \in DOMAIN s)
    /\ \E p \in DOMAIN s : \A q \in DOMAIN s : Len(q) <= Len(p)

Through(p, parts) == \A i \in DOMAIN p : p[i][1] \in parts

\* The way to p goes through a step that satisfies Step, from a place that
\* satisfies From.
Passes(p, Step(_), From(_)) ==
    \E i \in DOMAIN p : Step(p[i]) /\ From(SubSeq(p, 1, i - 1))

Children(s, p, part) == {q \in DOMAIN s : q # <<>> /\ Front(q) = p /\ Last(q)[1] = part}

PropsAt(s, p) == {Last(q)[2] : q \in Children(s, p, "props")}

Top(k)   == <<<<"props", k>>>>
Props(s) == PropsAt(s, <<>>)

\* The schema of a property.
Prop(s, k) ==
    [p \in {Tail(q) : q \in {r \in DOMAIN s : r # <<>> /\ Head(r) = <<"props", k>>}} |-> s[Top(k) \o p]]

\* An object with some properties and their schemas.
ObjectOf(keys, Schema(_), required) ==
    [p \in {<<>>} \cup UNION {{Top(k) \o q : q \in DOMAIN Schema(k)} : k \in keys} |->
        IF p = <<>> THEN [AnyNode EXCEPT !.type = "object", !.required = required]
        ELSE Schema(Head(p)[2])[Tail(p)]]

-----------------------------------------------------------------------------
\* Mutant of stripVendorInputAttrs: the keywords that hold one schema are
\* forgotten.
StripSourcesInLists(s) ==
    [p \in DOMAIN s |-> IF Through(p, Visited \ {"not", "items", "extra"})
                        THEN [s[p] EXCEPT !.source = NoSource] ELSE s[p]]

\* An x-source inside a keyword that is not visited stays.
stripVendorInputAttrs(s) ==
    [p \in DOMAIN s |-> IF Through(p, Visited) THEN [s[p] EXCEPT !.source = NoSource] ELSE s[p]]

\* Properties keep what they hold: a nested field may be called secrets.
stripReservedInputSchema(s) ==
    LET Walked(p) == Through(p, SameLevel)
        Engine(step) == step[1] = "props" /\ step[2] \in Reserved
    IN  [p \in {q \in DOMAIN s : ~Passes(q, Engine, Walked)} |->
            IF Walked(p) THEN [s[p] EXCEPT !.required = @ \ Reserved] ELSE s[p]]

\* additionalProperties: false, in the place of whatever was there.
closeConsumerInputSchema(s) ==
    LET Closes(p) == Through(p, SameLevel) /\ s[p].type \in {"", "object"}
        Replaced(step) == step[1] = "extra"
    IN  [p \in {q \in DOMAIN s : ~Passes(q, Replaced, Closes)} |->
            IF Closes(p) THEN [s[p] EXCEPT !.closed = TRUE] ELSE s[p]]

decodeConsumerInputSchema(inputs) ==
    closeConsumerInputSchema(stripReservedInputSchema(inputs))

nodeToJSON(inputs) == stripVendorInputAttrs(decodeConsumerInputSchema(inputs))

consumerInputKeys(s) == UNION {PropsAt(s, p) : p \in {q \in DOMAIN s : Through(q, Combinators)}}

\* At p is a top-level property, or a part of one that speaks of its value.
TopProperty(p) ==
    \E i \in DOMAIN p : /\ p[i][1] = "props"
                        /\ \A j \in DOMAIN p \ {i} : p[j][1] \in Combinators \cup {"tuple", "not"}

\* The error of walkXSource, which misses what it does not visit as well.
walkXSource(s) ==
    \E p \in DOMAIN s : s[p].source # NoSource /\ Through(p, Visited) /\ ~TopProperty(p)

-----------------------------------------------------------------------------
\* How net/http tells two places in a request apart: header names ignore case.
restCommonParamKey(in, name) == <<in, IF in = "header" THEN Lower[name] ELSE name>>

NameOf(key, source) == IF source.name = "" THEN key ELSE source.name

OverHTTP(source) == source.interface = "rest" /\ source.protocol \in {"", "http"}

liftsInput(source) == OverHTTP(source) /\ source.in \in {"header", "cookie", "query"}

InLifted(p, lifted) == p # <<>> /\ Head(p)[1] = "props" /\ Head(p)[2] \in lifted

\* Mutant of bodyWithout: the body goes on asking for what was lifted.
BodyStillRequires(s, lifted) == [p \in {q \in DOMAIN s : ~InLifted(q, lifted)} |-> s[p]]

\* Mutant of bodyWithout: what was lifted stays a property of the body.
BodyStillDeclares(s, lifted) == [s EXCEPT ![<<>>].required = @ \ lifted]

bodyWithout(s, lifted) ==
    [p \in {q \in DOMAIN s : ~InLifted(q, lifted)} |->
        IF p = <<>> THEN [s[p] EXCEPT !.required = @ \ lifted] ELSE s[p]]

\* The x-source of a property.
SourceOf(s, k) == s[Top(k)].source

\* A parameter for each lifted key, and the schema of the JSON body.
splitOpenAPIInputs(inputs) ==
    LET s == decodeConsumerInputSchema(inputs)
        lifted == {k \in Props(s) : liftsInput(SourceOf(s, k))}
    IN  [body |-> stripVendorInputAttrs(bodyWithout(s, lifted)),
         params |-> [k \in lifted |->
            [name |-> NameOf(k, SourceOf(s, k)), in |-> SourceOf(s, k).in,
             required |-> k \in s[<<>>].required,
             schema |-> stripVendorInputAttrs(Prop(s, k))]]]

\* A body of which every property was lifted is not asked for.
hasJSONRequestBody(split) == DOMAIN split.params = {} \/ Props(split.body) # {}

-----------------------------------------------------------------------------
liftsOutput(source) == OverHTTP(source) /\ source.in = "header"

LiftedOutputs(s) == {k \in Props(s) : liftsOutput(SourceOf(s, k))}

\* The errors of splitOpenAPIOutputs; out.schema is <<>> or <<x-outputs>>.
outputFault(out) ==
    \E s \in ToSet(out.schema) :
        \/ walkXSource(s)
        \/ ~ Props(s) \subseteq out.names
        \/ ~ s[<<>>].required \subseteq out.names
        \/ \E k \in Props(s) \ LiftedOutputs(s) :
             SourceOf(s, k) # NoSource /\ SourceOf(s, k).interface # "mcp"
        \/ \E j, k \in LiftedOutputs(s) :
             j # k /\ Lower[NameOf(j, SourceOf(s, j))] = Lower[NameOf(k, SourceOf(s, k))]

splitOpenAPIOutputs(out) ==
    LET s == IF out.schema = <<>> THEN Anything ELSE out.schema[1]
        lifted == LiftedOutputs(s)
        Declared(k) == IF k \in Props(s) THEN stripVendorInputAttrs(Prop(s, k)) ELSE Anything
    IN  [body |-> ObjectOf(out.names \ lifted, Declared, s[<<>>].required \ lifted),
         params |-> [k \in lifted |->
            [name |-> NameOf(k, SourceOf(s, k)), in |-> "header",
             required |-> k \in s[<<>>].required, schema |-> Declared(k)]]]

-----------------------------------------------------------------------------
\* JSON Schema, as far as it tells which properties an object may have: the
\* values are taken to be what the schemas of the properties ask for, and the
\* keywords of "other" to say nothing of an object's properties.
Valid(s, given) ==
    LET valid[p \in DOMAIN s] ==
            /\ s[p].type \in {"", "object"}
            /\ s[p].required \subseteq given
            /\ s[p].closed => given \subseteq PropsAt(s, p)
            /\ \/ Children(s, p, "oneOf") = {}
               \/ \E q \in Children(s, p, "oneOf") :
                    valid[q] /\ \A r \in Children(s, p, "oneOf") \ {q} : ~valid[r]
            /\ \A q \in Children(s, p, "allOf") : valid[q]
            /\ \A q \in Children(s, p, "not") : ~valid[q]
    IN  valid[<<>>]
=============================================================================
