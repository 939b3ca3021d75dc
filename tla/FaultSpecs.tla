----------------------------- MODULE FaultSpecs -----------------------------
(***************************************************************************)
(* Small specs for FaultScopes: every layout of a call, the kinds of       *)
(* services, nested windows, scenarios of several assumptions and a matrix *)
(* whose cells may share a name.  The text of a spec is rendered from the  *)
(* calls of its tests.                                                     *)
(***************************************************************************)
EXTENDS Integers, Sequences, SequencesExt

Step == [op |-> "step"]
Call(op, svc, key, shape, id, body) ==
    [op |-> op, svcs |-> <<svc>>, keys |-> {key}, key |-> key, shape |-> shape, id |-> id, body |-> body]
All(svcs, key, id) ==
    [op |-> "fault_all", svcs |-> svcs, keys |-> {key}, key |-> key, shape |-> "list", id |-> id,
     body |-> <<Step>>]
Assume(obj) == [op |-> "assume", obj |-> obj, id |-> obj, body |-> <<Step>>]

(* The text of one call. *)
Lines(c) ==
    LET v == c.svcs[1]
        arg == <<c.key, "=", "deny", "(", ")">>
    IN  CASE c.op \in {"fault_stop", "trace_stop"} -> << <<c.op, "(", v, ")">> >>
          [] c.op \in {"trace", "trace_start"} -> << <<c.op, "(", v, ",", "[", "'", c.key, "'", "]", ")">> >>
          [] c.op = "fault_all" -> << <<"fault_all", "(", "[", v, ",", c.svcs[2], "]", ",">> \o arg \o <<")">> >>
          [] c.shape \in {"direct", "op"} -> << <<c.op, "(", v, ",">> \o arg \o <<")">> >>
          [] c.shape = "spaced" -> << <<c.op, "(", v, ",", " ", c.key, " ", "=", " ", "deny", "(", ")", ")">> >>
          [] c.shape = "split" -> << <<c.op, "(">>, <<v, ",">>, arg, <<")">> >>
          [] c.shape = "comment" -> << <<c.op, "(", v, ",", "#", ")">>, arg, <<")">> >>
          [] c.shape = "string" -> << <<c.op, "(", v, ",">>, <<"'", ")", "'", ",">>, arg, <<")">> >>
          [] c.shape = "kwargs" -> << <<"k", "=", "{", "'", c.key, "'", "}">>, <<c.op, "(", v, ",", "k", ")">> >>

(* The calls of a body, two levels of windows. *)
Calls(body) ==
    LET here == SelectSeq(body, LAMBDA c : c.op \notin {"step", "assume"})
        deep == SelectSeq(body, LAMBDA c : c.op \notin {"step"})
        inner == FlattenSeq([i \in DOMAIN deep |-> deep[i].body])
    IN  here \o SelectSeq(inner, LAMBDA c : c.op \notin {"step", "assume"})

TextOf(bodies) ==
    LET cs == FlattenSeq([i \in DOMAIN bodies |-> Calls(bodies[i])])
    IN  FlattenSeq([i \in DOMAIN cs |-> Lines(cs[i])])

Kinds == {[db |-> a, api |-> b] : a \in {"binary", "container"}, b \in {"binary", "plain", "remote"}}
Ops == [db |-> [persist |-> {"write", "fsync"}], api |-> [x \in {} |-> {}]]
NoBodies == [n \in {} |-> <<>>]

SpecOf(kind, reuse, decls, bodies, texts) ==
    [kind |-> kind, reuse |-> reuse, vars |-> [db |-> {"pg"}, api |-> {}], ops |-> Ops,
     l1 |-> FALSE, virtual |-> FALSE, monitors |-> {"m1", "m2"}, ifaces |-> {"sql", "rest"},
     owner |-> [sql |-> "db", rest |-> "api"], disabled |-> {"rest"}, unstartable |-> {},
     traces |-> {"t"}, decls |-> decls, bodies |-> bodies, text |-> TextOf(texts)]

Assumption(id, svc, keys, proxy, mons, children) ==
    [op |-> "assumption", id |-> id, name |-> <<id>>, svc |-> svc, keys |-> keys, proxy |-> proxy,
     mons |-> mons, children |-> children]

Body(n, b) == <<n>> :> b

(* One call in every layout, as fault() or fault_start(), by keyword,       *)
(* operation or trace, alone or inside a trace of the same service.         *)
LayoutSpecs ==
    LET calls == {Call(op, "db", key, shape, "w", <<Step>>) :
                    op \in {"fault", "fault_start"}, key \in {"write", "persist"},
                    shape \in {"direct", "spaced", "split", "comment", "string", "kwargs"}}
        odd == Call("fault", "db", "bogus", "kwargs", "w", <<Step>>)
        stop(op) == Call(op, "db", "write", "direct", "w", <<>>)
        fit(c) == IF c.op = "fault_start" /\ c.key = "persist" THEN [c EXCEPT !.shape = "op"] ELSE c
        bodies == {<<fit(c), Step>> : c \in calls}
                  \cup {<<odd>>, <<stop("fault_start"), Step, stop("fault_stop"), stop("trace_start"),
                                   Step, stop("trace_stop"), Step>>}
                  \cup {<<Call("trace", "db", "fsync", "direct", "t", <<fit(c)>>), Step>> : c \in calls}
    IN  {SpecOf(k, {}, <<>>, Body("one", b), <<b>>) : k \in Kinds, b \in bodies}

Lists ==
    LET b == <<All(<<"db", "api">>, "connect", "a"), Step>>
        c == <<Call("fault", "db", "connect", "direct", "w", <<Call("fault", "api", "connect", "direct", "v", <<Step>>)>>)>>
    IN  {SpecOf(k, {"db"}, <<>>, Body("all", b) @@ Body("nest", c), <<b, c>>) : k \in Kinds}

(* Assumptions on two services, with monitors and proxy rules, composed and *)
(* used by scenarios, by a body and by a matrix.                            *)
Declared ==
    LET down == Assumption("down", "db", {"write", "connect"}, <<"sql">>, {"m1"}, <<>>)
        slow == Assumption("slow", "db", {"persist"}, <<>>, {}, <<>>)
        both == Assumption("both", "api", {}, <<"rest">>, {}, <<"down", "slow">>)
        scen(n, fs, ms) == [op |-> "scenario", name |-> <<n>>, faults |-> fs, expect |-> "expect",
                            mons |-> ms, body |-> <<Step>>]
        b == <<Assume("both"), Step>>
    IN  {SpecOf(k, r, <<down, slow, both, scen("s", fs, {"m2"}),
                        [op |-> "probe", name |-> <<"h">>, body |-> <<Step>>]>>, Body("b", b), <<b>>) :
            k \in Kinds, r \in {{}, {"db", "api"}},
            fs \in {<<"both">>, <<"down", "slow">>, <<"slow", "both">>}}

Broken == {[s EXCEPT !.unstartable = {"rest"}] : s \in Declared}

Matrices ==
    LET a(ws) == [Assumption("x", "db", {"connect"}, <<>>, {}, <<>>) EXCEPT !.name = ws]
        b(ws) == [Assumption("y", "db", {"write"}, <<>>, {"m1"}, <<>>) EXCEPT !.name = ws]
        matrix(req, ex, ov) ==
            [op |-> "matrix", scs |-> <<[name |-> <<"p">>, body |-> <<Step>>],
                                        [name |-> <<"p", "q">>, body |-> <<Step>>]>>,
             faults |-> <<"x", "y">>, exclude |-> ex, override |-> ov, expect |-> "expect",
             require |-> req, mons |-> {"m2"}]
    IN  {SpecOf(k, {}, <<a(<<"f">>), b(w), matrix(req, ex, {<< <<"p", "q">>, "x">>})>>, NoBodies, <<>>) :
            k \in {[db |-> d, api |-> "plain"] : d \in {"binary", "plain"}}, req \in BOOLEAN,
            w \in {<<"g">>, <<"q", "f">>}, ex \in {{}, {<< <<"p">>, "x">>}}}

Indirect == {[s EXCEPT !.l1 = TRUE] : s \in Lists} \cup {[s EXCEPT !.virtual = TRUE] : s \in Lists}

AllSpecs == LayoutSpecs \cup Lists \cup Declared \cup Broken \cup Matrices \cup Indirect
=============================================================================
