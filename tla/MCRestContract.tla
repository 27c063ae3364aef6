--------------------------- MODULE MCRestContract ---------------------------
(* Three families of cases: schemas of inputs; options and x-security, over *)
(* a workflow with one lifted header; outputs and outbound decisions.       *)
EXTENDS RestContract

Fields == {"trace", "Trace", "tenant", "status", "etag", "ETag", "Authorization", "authorization", "key"}
LowerCase == [n \in Fields |->
    CASE n = "Trace" -> "trace" [] n = "ETag" -> "etag" [] n = "Authorization" -> "authorization" [] OTHER -> n]

Via(interface, in, name) == [interface |-> interface, protocol |-> "", in |-> in, name |-> name]
Rest(in, name) == Via("rest", in, name)
Of(type, source, required) ==
    [p \in {<<>>} |-> [type |-> type, source |-> source, closed |-> FALSE, required |-> required]]
Field(source) == Of("string", source, {})
Plain == Field(NoSource)
Obj(props, required) == ObjectOf(DOMAIN props, LAMBDA k : props[k], required)

\* s with the schemas of list in one of its parts.
With(s, part, list) ==
    LET Way(i) == <<<<part, ToString(i)>>>> IN
    s @@ [p \in UNION {{Way(i) \o q : q \in DOMAIN list[i]} : i \in DOMAIN list} |->
            list[CHOOSE i \in DOMAIN list : <<p[1]>> = Way(i)][Tail(p)]]

NoOptions == [common |-> <<>>, schemes |-> <<>>, security |-> {}]
NoOutputs == [names |-> {}, schema |-> <<>>]
Absent == [kind |-> "absent", reqs |-> {}]
NoAnswer == [outputs |-> [p \in {<<>>} |-> Object], redact |-> <<>>, mask |-> Leaf("null")]

-----------------------------------------------------------------------------
Sources == {NoSource, Rest("header", "Trace"), Rest("cookie", ""), Rest("query", "tenant"),
            Rest("path", ""), Via("mcp", "header", ""), [Rest("header", "") EXCEPT !.protocol = "ftp"]}

FlatSchemas ==
    {Obj([status |-> Plain, trace |-> Field(a), tenant |-> Field(b), secrets |-> Plain], required) :
        a \in Sources, b \in {NoSource, Rest("header", "trace"), Rest("query", "")},
        required \in {{}, {"trace"}, {"status", "secrets"}, {"trace", "tenant"}}}

Branches ==
    {Obj([tenant |-> Plain, secrets |-> Plain], {"tenant", "secrets"}),
     Obj([status |-> Field(Rest("header", ""))], {}),
     Obj([status |-> Obj([secrets |-> Field(Rest("header", ""))], {})], {}),
     Of("", NoSource, {"trace"})}

Roots == {Obj(<<>>, {}), Obj([trace |-> Field(Rest("header", ""))], {"trace"}),
          Obj([status |-> Plain, trace |-> Plain], {})}

DeepSchemas ==
    {With(r, part, <<b>>) : r \in Roots, part \in Parts \ {"props"}, b \in Branches}
        \cup {With(r, "oneOf", <<a, b>>) : r \in Roots, a \in Branches, b \in Branches}
        \cup {Obj([status |-> With(Obj(<<>>, {}), part, <<Plain>>)], {}) : part \in Parts \ {"props"}}
        \cup {Obj([trace |-> With(Field(a), "other", <<Field(b)>>)], {}) :
                 a \in {NoSource, Rest("header", "")}, b \in {NoSource, Rest("query", "")}}

OddSchemas ==
    {Anything, Plain, Of("object", Rest("header", ""), {}),
     Obj([trace |-> Field(Rest("header", ""))], {"trace", "gone"}),
     [Obj([trace |-> Field(Rest("header", ""))], {}) EXCEPT ![<<>>].type = "string"]}

SchemaCases ==
    {[workflow |-> [inputs |-> s, out |-> NoOutputs, xsec |-> Absent],
      options |-> NoOptions, names |-> {"status", "trace", "tenant", "secrets"}, answer |-> NoAnswer] :
        s \in FlatSchemas \cup DeepSchemas \cup OddSchemas}

-----------------------------------------------------------------------------
Scheme(name, type) ==
    [name |-> name, type |-> type, scheme |-> "", in |-> "", param |-> "", flows |-> {}, url |-> FALSE]
Http(scheme) == [Scheme("http", "http") EXCEPT !.scheme = scheme]
ApiKey(in, param) == [Scheme("apikey", "apiKey") EXCEPT !.in = in, !.param = param]
Flow(flow, auth, token) ==
    [flow |-> flow, authorizationURL |-> auth, tokenURL |-> token, scopes |-> {"s1", "s2"}]
OAuth(flows) == [Scheme("oauth", "oauth2") EXCEPT !.flows = flows]
GoodOAuth == OAuth({Flow("authorizationCode", TRUE, TRUE)})

SchemeLists ==
    {<<>>, <<Http("bearer"), GoodOAuth>>, <<Http("basic"), GoodOAuth>>, <<Http("digest")>>,
     <<ApiKey("header", "Trace"), GoodOAuth>>, <<ApiKey("query", "trace"), GoodOAuth>>,
     <<ApiKey("body", "trace")>>, <<ApiKey("header", "")>>, <<OAuth({})>>,
     <<OAuth({Flow("implicit", FALSE, TRUE)})>>, <<OAuth({Flow("password", TRUE, FALSE)})>>,
     <<Scheme("oidc", "openIdConnect")>>, <<[Scheme("oidc", "openIdConnect") EXCEPT !.url = TRUE], GoodOAuth>>,
     <<Scheme("", "http")>>, <<Scheme("x", "mutualTLS")>>, <<GoodOAuth, GoodOAuth>>}

Common(in, name) == [in |-> in, name |-> name, required |-> TRUE, schema |-> Plain]
CommonLists ==
    {<<>>, <<Common("header", "key")>>, <<Common("header", "trace")>>, <<Common("header", "authorization")>>,
     <<Common("header", "trace"), Common("header", "Trace")>>, <<Common("cookie", "trace"), Common("cookie", "Trace")>>,
     <<Common("query", "key")>>, <<Common("header", "")>>}

Oauth(scopes) == [oauth |-> scopes]
XSecurities ==
    {Absent, [kind |-> "malformed", reqs |-> {}]}
        \cup [kind : {"list"}, reqs : {{}, {<<>>}, {Oauth({})}, {Oauth({"s1"}), Oauth({"s2"})}, {Oauth({"s3"})},
                                       {[oauth |-> {"s1"}, http |-> {"s2"}]}, {[http |-> {}, oidc |-> {}]}}]

Lifting(name) == Obj([status |-> Plain, trace |-> Field(Rest("header", name))], {"status", "trace"})

OptionCases ==
    {[workflow |-> [inputs |-> Lifting(name), out |-> NoOutputs, xsec |-> x],
      options |-> [common |-> c, schemes |-> s, security |-> d],
      names |-> {"status", "trace"}, answer |-> NoAnswer] :
        name \in {"Trace", "Authorization"}, x \in XSecurities, c \in CommonLists, s \in SchemeLists,
        d \in {{}, {Oauth({"s1"})}, {Oauth({"s3"})}, {[oidc |-> {}]}}}

-----------------------------------------------------------------------------
Numerals == [t \in {"0", "1", "2", "00", "01", "+1", "-1"} |->
    CASE t \in {"1", "01", "+1"} -> "1" [] t \in {"0", "00"} -> "0" [] OTHER -> t]
NoIndex == {"", "00", "01", "-", "-1"}

Pointer(tokens) == [ok |-> TRUE, tokens |-> tokens]
Pointers ==
    {[ok |-> FALSE, tokens |-> <<>>], Pointer(<<>>), Pointer(<<"etag">>), Pointer(<<"pets">>),
     Pointer(<<"pets", "0">>), Pointer(<<"pets", "+1", "name">>), Pointer(<<"pets", "2">>),
     Pointer(<<"pets", "01">>), Pointer(<<"pets", "-">>), Pointer(<<"pets", "0", "0">>),
     Pointer(<<"etag", "0">>), Pointer(<<"gone", "0">>)}

\* A document from what is in its root.
Inside(kind, children) ==
    [p \in {<<>>} \cup UNION {{<<k>> \o q : q \in DOMAIN children[k]} : k \in DOMAIN children} |->
        IF p = <<>> THEN kind ELSE children[p[1]][Tail(p)]]
Just(x) == [p \in {<<>>} |-> Leaf(x)]
Pets == Inside(Array, [i \in {"0", "1"} |-> Inside(Object, [name |-> Just("rex"), id |-> Just("x")])])
Pairs == {Pets, Inside(Array, [i \in {"0"} |-> Inside(Array, [j \in {"0"} |-> Just("x")])]), Just("null")}

Out(required, source) ==
    [names |-> {"pets", "etag"},
     schema |-> <<Obj([pets |-> Plain, etag |-> Field(source)], required)>>]

Outs ==
    {[names |-> {"pets", "etag"}, schema |-> <<>>], Out({}, Rest("cookie", "")), Out({}, NoSource)}
        \cup {Out(r, Rest("header", "ETag")) : r \in {{}, {"etag"}, {"gone"}}}
        \cup {[names |-> {"pets", "etag"},
               schema |-> <<Obj([etag |-> With(Field(s), "other", <<Field(Rest("header", "ETag"))>>)], {})>>] :
                 s \in {NoSource, Rest("header", "")}}
        \cup {[names |-> {"pets", "etag"},
               schema |-> <<Obj([k \in {"pets", "etag"} |-> Field(Rest("header", n[k]))], {})>>] :
                 n \in {[pets |-> "etag", etag |-> "ETag"], [pets |-> "key", etag |-> ""]}}

Answers ==
    {[outputs |-> Inside(Object, [pets |-> p, etag |-> e]), redact |-> r, mask |-> m] :
        p \in Pairs, e \in {Just("v1"), Just("blank")}, m \in {Leaf("null"), Leaf("hidden")},
        r \in {<<>>} \cup {<<a, b>> : a \in Pointers, b \in Pointers}}

OutputCases ==
    {[workflow |-> [inputs |-> Obj(<<>>, {}), out |-> o, xsec |-> Absent],
      options |-> NoOptions, names |-> {}, answer |-> a] : o \in Outs, a \in Answers}

AllCases == SchemaCases \cup OptionCases \cup OutputCases
=============================================================================
