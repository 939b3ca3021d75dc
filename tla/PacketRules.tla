---------------------------- MODULE PacketRules ----------------------------
(***************************************************************************)
(* Packet rules: from a packet_* call of a spec to the rule that decides a *)
(* packet.  A call is its action, its keyword arguments (a record whose    *)
(* fields are the arguments given) and what the plan leaf pins for it.     *)
(* The header and payload matchers are one argument, only: the packets     *)
(* they admit.  A where= lambda is the packets it returns true for.        *)
(***************************************************************************)
EXTENDS Integers, Sequences, FiniteSets, Functions

CONSTANTS
    Packet         \* Packet[p]: [dir, proto, flow, batch, parsed, aliased]

Packets == DOMAIN Packet

Parse(p) == Packet[p].parsed
PacketBytes(p) == Packet[p].aliased
flowID(p) == Packet[p].flow
DirOf(p) == Packet[p].dir
BatchOf(p) == Packet[p].batch    \* the WritePackets call it is in (s2c)

Arg(kw, a, default) == IF a \in DOMAIN kw THEN kw[a] ELSE default

\* The arguments every builtin takes, and what each accepts.
Selectors == {"nth", "after", "every"}
Shared == Selectors \cup
          {"dir", "proto", "only", "where", "probability", "max_fires", "mode", "label"}
parsePacketMatcherKwarg(kw, a) ==
    CASE a = "dir" -> kw[a] \in {"c2s", "s2c", "both"}
      [] a = "proto" -> kw[a] \in {"tcp", "udp", "icmp"}
      [] a \in Selectors -> kw[a] > 0
      [] OTHER -> TRUE

\* What single builtins take besides.
packetFaultBuiltins ==
    [drop |-> {}, pass |-> {}, reset |-> {}, delay |-> {"duration"}, reorder |-> {"by"},
     duplicate |-> {"count"}, corrupt |-> {"offset", "length"}, window |-> {"size"}]
starPositiveInt(kw, a) ==
    kw[a] >= CASE a = "count" -> 2
               [] a \in {"offset", "size"} -> 0
               [] OTHER -> 1

\* Probabilities are in percent; 0 and 100 both mean always.
parseProbabilityFanoutKwargs(kw) ==
    LET mode == Arg(kw, "mode", "")
    IN  /\ mode \in {"", "exhaustive", "stochastic"}
        /\ "max_fires" \in DOMAIN kw =>
             kw.max_fires > 0 /\ Arg(kw, "probability", 0) < 100 /\ mode # "stochastic"
        /\ mode = "exhaustive" => "max_fires" \in DOMAIN kw

finishPacketFault(kw) ==
    parseProbabilityFanoutKwargs(kw) /\ Cardinality(DOMAIN kw \cap Selectors) <= 1

\* Rule.Validate
Validate(r) ==
    /\ r.action \in {"delay", "reorder"} => r.by > 0
    /\ r.action = "duplicate" => r.by >= 2
    /\ r.action \in {"reset", "window"} => r.proto \in {"", "tcp"}
    /\ r.prob \in 0..100
    /\ r.maxFires > 0 => r.prob \in 1..99 /\ r.mode # "stochastic"
    /\ r.trigger # "always" => r.n > 0

\* PacketFaultDef.Compile, before it validates.
Compile(call) ==
    LET kw == call.kw
        trigger == IF DOMAIN kw \cap Selectors = {} THEN "always"
                   ELSE CHOOSE a \in DOMAIN kw \cap Selectors : TRUE
        mode == IF "max_fires" \in DOMAIN kw THEN "exhaustive" ELSE Arg(kw, "mode", "")
    IN  [id |-> Arg(kw, "label", call.action), action |-> call.action,
         by |-> CASE call.action = "delay" -> Arg(kw, "duration", 0)
                  [] call.action = "reorder" -> Arg(kw, "by", 0)
                  [] call.action = "duplicate" -> Arg(kw, "count", 2)
                  [] OTHER -> 0,
         trigger |-> trigger, n |-> Arg(kw, trigger, 0),
         dir |-> Arg(kw, "dir", "both"), proto |-> Arg(kw, "proto", ""),
         only |-> Arg(kw, "only", Packets), where |-> Arg(kw, "where", Packets),
         prob |-> Arg(kw, "probability", 0), maxFires |-> Arg(kw, "max_fires", 0),
         mode |-> mode, pins |-> IF mode = "stochastic" THEN <<>> ELSE call.pins]

\* A call loads with arguments its builtin knows and accepts, that compile to
\* a valid rule; NewRuleSet validates once more.
packetBuiltin(call) ==
    LET own == DOMAIN call.kw \ Shared
    IN  /\ own \subseteq packetFaultBuiltins[call.action]
        /\ \A a \in DOMAIN call.kw \cap Shared : parsePacketMatcherKwarg(call.kw, a)
        /\ \A a \in own : starPositiveInt(call.kw, a)
        /\ finishPacketFault(call.kw)
        /\ Validate(Compile(call))
NewRuleSet(cs) == [i \in DOMAIN cs |-> Compile(cs[i])]
Loads(cs) == \A i \in DOMAIN cs : packetBuiltin(cs[i])

\* Match.Matches: the declarative predicates first, the where= lambda last.
matchesDeclarative(r, p) ==
    /\ r.dir \in {"both", DirOf(p)}
    /\ r.proto \in {"", Packet[p].proto}
    /\ p \in r.only
Matches(r, p) == matchesDeclarative(r, p) /\ p \in r.where

\* Rule.shouldTrigger, on the count this packet brings the rule to.
shouldTrigger(r, n) ==
    CASE r.trigger = "nth" -> n = r.n
      [] r.trigger = "after" -> n > r.n
      [] r.trigger = "every" -> n % r.n = 0
      [] OTHER -> TRUE

Rolls(r) == r.prob \in 1..99
=============================================================================
