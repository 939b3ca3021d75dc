------------------------------ MODULE MockRoutes ------------------------------
(***************************************************************************)
(* The route table of an HTTP mock: built at the start of every test from   *)
(* overrides=, an OpenAPI document and routes= (buildMockSpec in            *)
(* star/mock_runtime.go, protocol/openapi.go), and asked for every request, *)
(* once by the validator and once by the dispatcher (protocol/http.go).     *)
(*                                                                          *)
(* A path is the sequence of what lies between its slashes, after the       *)
(* first: "/" is <<"">> and "/a/" is <<"a", "">>. A segment is a sequence   *)
(* of one-letter strings; in a template "{}" stands for a parameter, and    *)
(* in a pattern "*" and "**" are what they are in the code. A document maps *)
(* templates to the operations of each method.                              *)
(***************************************************************************)
EXTENDS Naturals, Sequences, FiniteSets, SequencesExt, TLC

CONSTANTS Docs,      \* OpenAPI documents: template -> method -> operation
          Overrides, \* values of overrides= and of routes=: sequences of routes
          Selectors, \* values of examples=
          Paths,     \* request paths
          Methods,   \* request methods
          Draws      \* what the seeded generator of examples="random" yields

VARIABLES doc, overrides, routes, sel, mode,
          table,    \* the current route table
          tables,   \* the route tables of the tests so far (history)
          req,      \* the request: [method, path, fits]
          answer    \* what answered the request

vars == <<doc, overrides, routes, sel, mode, table, tables, req, answer>>

-----------------------------------------------------------------------------
(* Patterns and paths. *)

StarStar == <<"*", "*">>
Param == <<"{}">>

HasParam(segment) == Contains(segment, "{}")

(* strings.Trim(p, "/"), then strings.Split(p, "/"). *)
Trimmed(path) ==
    LET full == {k \in DOMAIN path : path[k] # <<>>}
    IN IF full = {} THEN <<>>
       ELSE SubSeq(path, CHOOSE k \in full : \A m \in full : k <= m, CHOOSE k \in full : \A m \in full : m <= k)
Parts(path) == IF Trimmed(path) = <<>> THEN <<<<>>>> ELSE Trimmed(path)

(* path.Match on one segment: a star stands for any letters. *)
RECURSIVE SegmentMatch(_, _)
SegmentMatch(pattern, target) ==
    IF pattern = <<>> THEN target = <<>>
    ELSE IF Head(pattern) = "*" THEN \E k \in 0 .. Len(target) : SegmentMatch(Tail(pattern), SubSeq(target, k + 1, Len(target)))
    ELSE target # <<>> /\ Head(pattern) = Head(target) /\ SegmentMatch(Tail(pattern), Tail(target))

(* Fault: ** stands for one segment at least. *)
RECURSIVE MatchSegmentsAtLeastOne(_, _)
MatchSegmentsAtLeastOne(pattern, target) ==
    IF pattern = <<>> THEN target = <<>>
    ELSE IF Head(pattern) = StarStar THEN \E k \in 1 .. Len(target) : MatchSegmentsAtLeastOne(Tail(pattern), SubSeq(target, k + 1, Len(target)))
    ELSE target # <<>> /\ SegmentMatch(Head(pattern), Head(target)) /\ MatchSegmentsAtLeastOne(Tail(pattern), Tail(target))

RECURSIVE MatchSegments(_, _)
MatchSegments(pattern, target) ==
    IF pattern = <<>> THEN target = <<>>
    ELSE IF Head(pattern) = StarStar THEN \E k \in 0 .. Len(target) : MatchSegments(Tail(pattern), SubSeq(target, k + 1, Len(target)))
    ELSE target # <<>> /\ SegmentMatch(Head(pattern), Head(target)) /\ MatchSegments(Tail(pattern), Tail(target))

(* A pattern without a star is compared as it is. *)
MatchGlob(pattern, path) ==
    IF \E k \in DOMAIN pattern : Contains(pattern[k], "*") THEN MatchSegments(Parts(pattern), Parts(path))
    ELSE pattern = path

(* The first route that matches; 0 when there is none. *)
MatchHTTPRoute(rs, method, path) ==
    SelectInSeq(rs, LAMBDA r : r.method \in {"*", method} /\ MatchGlob(r.pattern, path))

(* A parameter becomes a star, within its segment. *)
OpenAPIPathToGlob(template) ==
    [k \in DOMAIN template |-> [m \in DOMAIN template[k] |-> IF template[k][m] = "{}" THEN "*" ELSE template[k][m]]]

-----------------------------------------------------------------------------
(* Examples and generated routes. An operation is a record of the examples  *)
(* its answer declares, whether it has one inline, and whether a schema.    *)

Refused == "refused"

(* named: by name, and the first there is where the name is missing. draws: *)
(* what the generator yields next.                                          *)
PickExample(op, draw) ==
    IF sel = "named" /\ "named" \in ToSet(op.examples) THEN "named"
    ELSE IF sel = "random" /\ op.examples # <<>> THEN op.examples[(draw % Len(op.examples)) + 1]
    ELSE IF op.inline THEN "inline"
    ELSE IF op.examples # <<>> THEN op.examples[1]
    ELSE Refused

PickWithStrategy(op, draw) ==
    IF ~op.content THEN "status only"
    ELSE IF PickExample(op, draw) # Refused THEN PickExample(op, draw)
    ELSE IF sel = "synthesize" /\ op.schema THEN "synthesized"
    ELSE Refused

(* The order of the strings, for the letters that are used. *)
Rank == [a |-> 2, b |-> 3, v |-> 4] @@ ("{}" :> 5)
RECURSIVE Before(_, _)
Before(s, t) ==
    IF s = <<>> \/ t = <<>> THEN s = <<>> /\ t # <<>>
    ELSE IF Rank[Head(s)] # Rank[Head(t)] THEN Rank[Head(s)] < Rank[Head(t)]
    ELSE Before(Tail(s), Tail(t))
RECURSIVE PathBefore(_, _)
PathBefore(p, q) ==
    IF p = <<>> \/ q = <<>> THEN p = <<>> /\ q # <<>>
    ELSE IF Head(p) = Head(q) THEN PathBefore(Tail(p), Tail(q))
    ELSE Before(Head(p), Head(q))

(* sort.Strings: there is one order. *)
SortedKeys(templates) == {SetToSortSeq(templates, PathBefore)}

(* The routes of the document's operations, in an order of its paths. One   *)
(* draw is made for every operation with examples to draw from.             *)
GenerateRoutes(keys) ==
    LET ops == FlattenSeq([k \in DOMAIN keys |->
                   LET ms == SetToSortSeq(DOMAIN doc[keys[k]], LAMBDA x, y : x = "GET" /\ y # "GET")
                   IN [m \in DOMAIN ms |-> [template |-> keys[k], method |-> ms[m], op |-> doc[keys[k]][ms[m]]]]])
        drawn(k) == Len(SelectSeq(SubSeq(ops, 1, k - 1), LAMBDA o : o.op.content /\ o.op.examples # <<>>))
    IN [k \in DOMAIN ops |->
           [method |-> ops[k].method, pattern |-> OpenAPIPathToGlob(ops[k].template), template |-> ops[k].template,
            response |-> PickWithStrategy(ops[k].op, Draws[drawn(k) + 1])]]

(* The path of a user's route may be written like a document's. *)
NormaliseRoutePattern(pattern) == OpenAPIPathToGlob(pattern)

(* The entries of a user's dictionary, as routes. *)
AppendEntries(entries) ==
    [k \in DOMAIN entries |->
        [method |-> entries[k].method, pattern |-> NormaliseRoutePattern(entries[k].pattern), template |-> <<>>, response |-> "user"]]

(* Overrides first, then the document, then the rest. *)
BuildMockSpec(generated) == AppendEntries(overrides) \o generated \o AppendEntries(routes)

-----------------------------------------------------------------------------
(* The validator. *)

SplitPathSegments(path) == Trimmed(path)

(* A parameter is a whole segment, and any segment matches it. *)
MatchTemplateSegments(template, path) ==
    /\ Len(template) = Len(path)
    /\ \A k \in DOMAIN template : template[k] = Param \/ template[k] = path[k]

(* The literal path first, then a template, in the order of a map. *)
FindOperation(method, path) ==
    LET has(t) == method \in DOMAIN doc[t]
    IN IF path \in DOMAIN doc /\ has(path) THEN {path}
       ELSE {t \in DOMAIN doc : /\ \E k \in DOMAIN t : HasParam(t[k])
                                /\ MatchTemplateSegments(SplitPathSegments(t), SplitPathSegments(path))
                                /\ has(t)}

(* The operations the validator may find: the map has no order of its own. *)
Validated == FindOperation(req.method, req.path)

NoRequest == [method |-> "none", path |-> <<>>, fits |-> {}]
Nothing == <<>>
Answer(from, template, response) == [from |-> from, template |-> template, response |-> response]
NoAnswer == Answer("none", Nothing, "none")

Init ==
    /\ doc \in Docs
    /\ overrides \in Overrides /\ routes \in Overrides
    /\ sel \in Selectors /\ mode \in {"off", "warn", "strict"}
    /\ table = <<>> /\ tables = {}
    /\ req = NoRequest /\ answer = NoAnswer

(* A test starts the mock: the selector is made anew, with the same seed. A *)
(* document with an operation that has no answer is refused.                *)
StartMock ==
    /\ table = <<>>
    /\ \E keys \in SortedKeys(DOMAIN doc) :
          LET generated == GenerateRoutes(keys)
          IN /\ \A k \in DOMAIN generated : generated[k].response # Refused
             /\ table' = BuildMockSpec(generated)
             /\ tables' = tables \cup {BuildMockSpec(generated)}
    /\ UNCHANGED <<doc, overrides, routes, sel, mode, req, answer>>

(* A request, with the operations whose schemas its body satisfies. *)
Request(method, path, fits) ==
    /\ table # <<>> /\ req = NoRequest
    /\ req' = [method |-> method, path |-> path, fits |-> fits]
    /\ UNCHANGED <<doc, overrides, routes, sel, mode, table, tables, answer>>

ValidateRequest(template) == template \in req.fits

(* The request is validated, and dispatched unless it is refused for it.    *)
ServeHTTP ==
    /\ req # NoRequest /\ answer = NoAnswer
    /\ \E t \in (IF mode = "off" \/ Validated = {} THEN {Nothing} ELSE Validated) :
          LET k == MatchHTTPRoute(table, req.method, req.path)
          IN answer' = IF mode = "strict" /\ t # Nothing /\ ~ValidateRequest(t) THEN Answer("refused", Nothing, "400")
                       ELSE IF k = 0 THEN Answer("fallback", Nothing, "default")
                       ELSE Answer("route", table[k].template, table[k].response)
    /\ UNCHANGED <<doc, overrides, routes, sel, mode, table, tables, req>>

(* The test ends. *)
StopMock ==
    /\ answer # NoAnswer
    /\ table' = <<>> /\ req' = NoRequest /\ answer' = NoAnswer
    /\ UNCHANGED <<doc, overrides, routes, sel, mode, tables>>

Next ==
    \/ StartMock
    \/ \E m \in Methods, p \in Paths, fits \in SUBSET DOMAIN doc : Request(m, p, fits)
    \/ ServeHTTP \/ StopMock

Spec == Init /\ [][Next]_vars

-----------------------------------------------------------------------------
(* What a pattern means, without recursion: the target is cut into as many  *)
(* pieces as the pattern has segments; the piece of ** is any, and that of  *)
(* another segment is one segment that matches it.                          *)
Means(pattern, target) ==
    \E cut \in [0 .. Len(pattern) -> 0 .. Len(target)] :
        /\ cut[0] = 0 /\ cut[Len(pattern)] = Len(target)
        /\ \A k \in DOMAIN pattern :
              \/ pattern[k] = StarStar /\ cut[k - 1] <= cut[k]
              \/ pattern[k] # StarStar /\ cut[k] = cut[k - 1] + 1 /\ SegmentMatch(pattern[k], target[cut[k]])

(* matchSegments walks the segments and gives ** back one at a time: it     *)
(* finds a match exactly when there is one.                                 *)
GlobsAreExact ==
    req # NoRequest =>
        \A k \in DOMAIN table :
            MatchSegments(Parts(table[k].pattern), Parts(req.path)) <=> Means(Parts(table[k].pattern), Parts(req.path))

(* The documents for which the validator's map order and the two matchers   *)
(* make no difference: a parameter is a whole segment, and one operation at *)
(* most is found for the request.                                           *)
Plain ==
    /\ \A t \in DOMAIN doc, k \in 1 .. 3 : k \in DOMAIN t /\ HasParam(t[k]) => t[k] = Param
    /\ Trimmed(req.path) # <<>> /\ Cardinality(Validated) <= 1

(* Validation and dispatch look the request up by different functions, one  *)
(* in the document and one in the table that was made from it. A strict     *)
(* mock still never gives the answer of an operation to a request whose     *)
(* body does not fit that operation, and a request for the path of an       *)
(* override never gets the generated answer (buildMockSpec,                 *)
(* normaliseRoutePattern), for a plain document.                            *)
StrictIsStrict ==
    answer.template # Nothing =>
        /\ mode = "strict" /\ Plain => answer.template \in req.fits
        /\ \A k \in DOMAIN overrides :
              ~(overrides[k].pattern = answer.template /\ overrides[k].method \in {"*", req.method})

(* "Deterministic iteration order ... so generated route tables are stable  *)
(* across runs": every test of a suite gets the table of the first, the     *)
(* examples that were drawn at random included (resolveExampleSelector      *)
(* seeds its generator with 1 each time).                                   *)
TablesAreStable == Cardinality(tables) <= 1

(* All of it: what the requests of a mock can rely on. *)
RoutesAreHonest == GlobsAreExact /\ StrictIsStrict /\ TablesAreStable
=============================================================================
