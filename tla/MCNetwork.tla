----------------------------- MODULE MCNetwork -----------------------------
(* The packet link on a small instance. *)
EXTENDS Endpoint

\* Two packets in, one out, on one flow; TCP except the last.
MCPacket == [c1 |-> [dir |-> "c2s", proto |-> "tcp", flow |-> "f", batch |-> 0, parsed |-> TRUE, aliased |-> FALSE],
             c2 |-> [dir |-> "c2s", proto |-> "tcp", flow |-> "f", batch |-> 0, parsed |-> TRUE, aliased |-> FALSE],
             s1 |-> [dir |-> "s2c", proto |-> "udp", flow |-> "f", batch |-> 1, parsed |-> TRUE, aliased |-> TRUE]]
MCIngress == <<"c1", "c2">>
MCEgress == <<"s1">>
packet(a, kw) == [action |-> a, kw |-> kw, pins |-> <<>>]
Copied == packet("duplicate", [label |-> 3, only |-> {"c2"}])
DelayC1 == packet("delay", [label |-> 1, duration |-> 1, only |-> {"c1"}])
\* The last one does not load: packet_reorder needs by=.
MCRuleSets == {<<>>, <<packet("reorder", [label |-> 8, by |-> 1, only |-> {"c1"}])>>,
               <<packet("reorder", [label |-> 9])>>}
Delays == <<packet("delay", [label |-> 1, duration |-> 1, only |-> {"c1", "s1"}])>>
Reorders == <<packet("reorder", [label |-> 2, by |-> 1, nth |-> 1]), Copied>>
Mixed == <<[packet("drop", [label |-> 4, only |-> {"c1", "s1"}, probability |-> 50, max_fires |-> 1])
              EXCEPT !.pins = <<TRUE>>],
           packet("reset", [label |-> 5, dir |-> "c2s", proto |-> "tcp", where |-> {"c1"}, probability |-> 50]),
           packet("corrupt", [label |-> 6, only |-> {"c2", "s1"}, every |-> 2]),
           packet("window", [label |-> 7, after |-> 1])>>
MCSetups == {[rules |-> Delays, limited |-> {}, calls |-> 0],
             [rules |-> <<DelayC1, Copied>>, limited |-> {"c2s"}, calls |-> 0],
             [rules |-> Reorders, limited |-> {}, calls |-> 0],
             [rules |-> Mixed, limited |-> {}, calls |-> 0],
             [rules |-> <<>>, limited |-> {"c2s"}, calls |-> 1]}
=============================================================================
