------------------------------ MODULE MCFaults ------------------------------
(***************************************************************************)
(* What a spec declares, on small instances: a behaviour shows the rules   *)
(* of one session and the handlers that consult them, the tests of one     *)
(* spec and the windows they open, or the routes of one HTTP mock; the     *)
(* others stay as they started.                                            *)
(***************************************************************************)
EXTENDS FaultRules, TLC

Rule(id, sys) == [id |-> id, sys |-> sys, glob |-> "none", trigger |-> "always",
                  n |-> 0, prob |-> "one", key |-> "svc:" \o sys]
Call(sys, kind, path) == [sys |-> sys, kind |-> kind, path |-> path, readable |-> TRUE]
Unread(c) == [c EXCEPT !.readable = FALSE]

OpenData == Call("openat", "file", "data")
OpenSystem == Call("openat", "file", "system")
WriteData == Call("write", "fd", "data")
WriteOther == Call("write", "fd", "other")
WriteSystem == Call("write", "fd", "system")
Connect == Call("connect", "other", "other")

HandlerSymmetry == Permutations(Handlers)
Intercepted == {"openat", "write", "pwrite64", "connect"}
NoLeaf == [k \in {} |-> <<>>]
Wal == [k \in {"wal"} |-> <<TRUE, FALSE>>]
Globbed(r, g) == [r EXCEPT !.glob = g]
BySyscall(list) == [c \in Intercepted |-> SelectSeq(list, LAMBDA r : r.sys = c)]

(* faultbox run: static rules of every kind and no windows. *)
Nth == [Rule("nth", "openat") EXCEPT !.trigger = "nth", !.n = 2]
After == [Rule("after", "write") EXCEPT !.trigger = "after", !.n = 1]
Some == [Rule("some", "write") EXCEPT !.prob = "some"]
Cli == [static |-> BySyscall(<<[Globbed(Rule("glob", "openat"), "system")
                                  EXCEPT !.trigger = "after", !.n = 1],
                               Nth, Globbed(Some, "data"), After>>),
        rulesOf |-> [w \in {} |-> <<>>], traces |-> {},
        calls |-> {OpenData, OpenSystem, WriteData, WriteOther, WriteSystem,
                   Unread(OpenSystem), Unread(WriteData), Connect},
        leaf |-> NoLeaf, decider |-> FALSE, overlap |-> FALSE]

(* A specification's session: one placeholder for each intercepted syscall. *)
Placeholder(sys) == [Rule("placeholder:" \o sys, sys) EXCEPT !.prob = "zero"]
Placeholders == [c \in Intercepted |-> <<Placeholder(c)>>]

(* A labelled fault the leaf pins next to a certain one, a trace, and a     *)
(* fault the kernel was not told to intercept, one after the other.         *)
Pinned == [Rule("pinned", "write") EXCEPT !.prob = "some", !.key = "wal"]
Logged == Globbed([Rule("logged", "write") EXCEPT !.key = "log"], "data")
Mixed == [static |-> Placeholders,
          rulesOf |-> [w \in {"w1", "w2", "w3"} |->
              CASE w = "w1" -> <<{Pinned, Logged}>>
                [] w = "w2" -> <<{Rule("traced", "connect")}>>
                [] w = "w3" -> <<{Rule("inert", "close")}>>],
          traces |-> {"w2"},
          calls |-> {OpenSystem, WriteData, WriteOther, Connect},
          leaf |-> Wal, decider |-> TRUE, overlap |-> FALSE]

(* A scenario of two assumptions about one service; the second is a write=  *)
(* with a label, expanded to two syscalls under one key.                    *)
Sibling(id) == [Rule(id, id) EXCEPT !.prob = "some", !.key = "wal"]
Scenario == [Mixed EXCEPT
    !.rulesOf = [w \in {"w1"} |-> <<{Rule("refuse", "connect")},
                                   {Sibling("write"), Sibling("pwrite64")}>>],
    !.traces = {},
    !.calls = {WriteData, Call("pwrite64", "fd", "data"), Connect}]

(* Two windows on one service that may overlap. *)
Pair == [Mixed EXCEPT
    !.rulesOf = [w \in {"w1", "w2"} |-> IF w = "w1" THEN <<{Pinned}>> ELSE <<{Logged}>>],
    !.traces = {}, !.calls = {WriteData, WriteOther}, !.overlap = TRUE]

(* A scenario whose second assumption is refused. *)
Halfway == [Scenario EXCEPT
    !.rulesOf = [w \in {"w1"} |-> <<{Rule("refuse", "connect")}, {Rule("inert", "close")}>>],
    !.calls = {Connect}]

AllSetups == {Cli, Mixed, Scenario, Pair, Halfway}

----------------------------------------------------------------------------
VARIABLES part,
    spec, phase, at, objs, assumptions, scenarios, specMonitors, probes, queue, cur, stack,
    raised, session, filter, inForce, proxied, monitors, events, refused, broke, results,
    doc, overrides, routes, sel, mode, table, tables, request, answer

scopeVars == <<spec, phase, at, objs, assumptions, scenarios, specMonitors, probes, queue, cur,
               stack, raised, session, filter, inForce, proxied, monitors, events, refused,
               broke, results>>
routeVars == <<doc, overrides, routes, sel, mode, table, tables, request, answer>>
all == <<part, vars, scopeVars, routeVars>>

L == INSTANCE FaultSpecs
FS == INSTANCE FaultScopes WITH rules <- inForce, Specs <- L!AllSpecs

(* Documents: /a, /a/{} and /b/{}/a; the overlapping /a/{} and /{}/b; /v{}  *)
(* and /{}; and an operation that has only a schema.                        *)
Param == <<"{}">>
Op(examples, inline, schema) == [content |-> TRUE, examples |-> examples, inline |-> inline, schema |-> schema]
StatusOnly == [content |-> FALSE, examples |-> <<>>, inline |-> FALSE, schema |-> FALSE]
Two == Op(<<"named", "other">>, FALSE, FALSE)
Inline == Op(<<"other">>, TRUE, FALSE)
SchemaOnly == Op(<<>>, FALSE, TRUE)

SegA == <<"a">>
SegB == <<"b">>
SegV == <<"v", "{}">>

Docs ==
    {(<<SegA>> :> [GET |-> Two]) @@ (<<SegA, Param>> :> [GET |-> Two, POST |-> Inline]) @@ (<<SegB, Param, SegA>> :> [POST |-> Two]),
     (<<SegA, Param>> :> [POST |-> Two]) @@ (<<Param, SegB>> :> [POST |-> Inline]) @@ (<<SegA, SegA>> :> [POST |-> StatusOnly]),
     (<<SegV>> :> [POST |-> Two]) @@ (<<Param>> :> [GET |-> Two]),
     (<<SegA>> :> [POST |-> SchemaOnly]) @@ (<<SegB>> :> [POST |-> Two])}
Overrides ==
    {<<>>, <<[method |-> "POST", pattern |-> <<SegA, Param>>]>>,
     <<[method |-> "*", pattern |-> <<<<"*", "*">>, SegA>>], [method |-> "GET", pattern |-> <<SegA, <<"*", "*">>>>]>>}
Paths == {<<<<>>>>, <<SegA>>, <<SegA, <<>>>>, <<SegA, SegB>>, <<SegB, SegA, SegA>>, <<SegA, SegA>>, <<<<"v", "a">>>>, <<SegB, <<>>, SegA>>}

R == INSTANCE MockRoutes WITH req <- request, Draws <- <<1, 0, 2, 1>>,
        Selectors <- {"first", "named", "random", "synthesize"}, Methods <- {"GET", "POST"}

AnySpec == CHOOSE s \in L!AllSpecs : TRUE
AnyDoc == CHOOSE d \in Docs : TRUE

MCInit ==
  /\ part \in {"rules", "scopes", "routes"}
  /\ IF part = "rules" THEN setup \in Setups ELSE setup = Cli
  /\ IF part = "scopes" THEN spec \in L!AllSpecs ELSE spec = AnySpec
  /\ IF part = "routes" THEN doc \in Docs
     ELSE doc = AnyDoc /\ overrides = <<>> /\ routes = <<>> /\ sel = "first" /\ mode = "off"
  /\ Init /\ FS!Init /\ R!Init

Handled(A) == part = "rules" /\ A /\ UNCHANGED <<part, scopeVars, routeVars>>
Scoped(A) == part = "scopes" /\ A /\ UNCHANGED <<part, vars, routeVars>>
Routed(A) == part = "routes" /\ A /\ UNCHANGED <<part, vars, scopeVars>>

MCNext == Handled(Next) \/ Scoped(FS!Next) \/ Routed(R!Next)

MCSpec == MCInit /\ [][MCNext]_all

(* The windows of a spec alone. *)
ScopesSpec == MCInit /\ part = "scopes" /\ [][Scoped(FS!Next)]_all

(* Faults are what the text of a spec says they are: a fault fires or is    *)
(* refused, is in force exactly in its window, and leaves nothing behind;   *)
(* a matrix is complete (runtime.go:3986, 4619; builtins.go:2024).          *)
ScopesAreHonest == FS!ScopesAreHonest

(* A route answers what its pattern means, a strict mock never answers a    *)
(* request that does not fit, and the table is the same in every test       *)
(* (openapi.go:144).                                                        *)
RoutesAreHonest == R!RoutesAreHonest

(* A test that requires its faults to fire does not pass with a fault that  *)
(* was skipped (runtime.go:2140).                                           *)
SkippedIsNotAPass == FS!SkippedIsNotAPass
=============================================================================
