---------------------------- MODULE ProxyHandshake ----------------------------
(***************************************************************************)
(* The connection phase of the two protocols whose proxies take part in    *)
(* it: forwardUntilReady of the postgres proxy and forwardHandshake of the *)
(* mysql proxy.  The service leads: each of its messages either wants an   *)
(* answer or is followed by another message of its own, and the proxy must *)
(* guess which from the message's first bytes, because it reads only one   *)
(* side at a time.                                                         *)
(*                                                                         *)
(*   hs.method   the exchange the service is configured for                *)
(*   hs.at       messages the service has sent                             *)
(*   hs.owed     the service waits for the client's answer                 *)
(*   hs.fromS, hs.fromC   messages on their way to the proxy               *)
(*   hs.reads    whom the proxy reads next: "server", "client"; or "done"  *)
(*   hs.rounds   server messages the proxy has taken in its loop           *)
(***************************************************************************)
EXTENDS Naturals, Sequences

CONSTANT maxRounds   \* 16 in the code

VARIABLE hs

(* What a service sends, and whether it then waits for the client. "gss" is
   an exchange of the postgres protocol the proxy has no case for. *)
says(code, waits) == [code |-> code, waits |-> waits]
Exchange ==
  [trust |-> <<says("R0", FALSE), says("Z", FALSE)>>,
   cleartext |-> <<says("R3", TRUE), says("R0", FALSE), says("Z", FALSE)>>,
   md5 |-> <<says("R5", TRUE), says("R0", FALSE), says("Z", FALSE)>>,
   scram |-> <<says("R10", TRUE), says("R11", TRUE), says("R12", FALSE), says("R0", FALSE), says("Z", FALSE)>>,
   gss |-> <<says("R7", TRUE), says("R0", FALSE), says("Z", FALSE)>>,
   native |-> <<says("greeting", TRUE), says("OK", FALSE)>>,
   refused |-> <<says("greeting", TRUE), says("ERR", FALSE)>>,
   switched |-> <<says("greeting", TRUE), says("AuthSwitch", TRUE), says("OK", FALSE)>>,
   sha2cached |-> <<says("greeting", TRUE), says("More3", FALSE), says("OK", FALSE)>>,
   sha2full |-> <<says("greeting", TRUE), says("More4", TRUE), says("Key", TRUE), says("OK", FALSE)>>]

Postgres == {"trust", "cleartext", "md5", "scram", "gss"}

(* The client's startup message has been forwarded; MySQL's service speaks
   first. *)
HandshakeInit ==
  \E method \in DOMAIN Exchange :
    hs = [method |-> method, at |-> 0, owed |-> FALSE, fromS |-> <<>>, fromC |-> 0, reads |-> "server", rounds |-> 0]

(* The service sends its next message unless it waits for an answer. *)
ServiceSpeaks ==
  /\ ~hs.owed /\ hs.at < Len(Exchange[hs.method])
  /\ LET m == Exchange[hs.method][hs.at + 1]
     IN  hs' = [hs EXCEPT !.at = @ + 1, !.owed = m.waits, !.fromS = Append(@, m)]

(* authNeedsClientReply: the authentication codes a client answers. *)
authNeedsClientReply(code) == code \in {"R3", "R5", "R10", "R11"}

MySQLReadsThree(code, rounds) == IF code = "greeting" THEN "client" ELSE "done"

MySQLReadsAlternating(code, rounds) ==
  IF code \in {"OK", "ERR"} THEN "done" ELSE IF rounds >= maxRounds THEN "failed" ELSE "client"

(* forwardHandshake: the greeting and every packet that is not terminal is
   answered, except the caching_sha2_password fast path. *)
MySQLReads(code, rounds) ==
  CASE code = "greeting" -> "client"
    [] code \in {"OK", "ERR"} -> "done"
    [] rounds >= maxRounds -> "failed"
    [] code = "More3" -> "server"
    [] OTHER -> "client"

PostgresReads(code) == IF authNeedsClientReply(code) THEN "client" ELSE IF code = "Z" THEN "done" ELSE "server"

(* One server message is forwarded to the client, who answers the ones that
   ask for it; the proxy chooses whom to read next. *)
ForwardServerMessage ==
  /\ hs.reads = "server" /\ hs.fromS # <<>>
  /\ LET m == Head(hs.fromS)
         rounds == hs.rounds + (IF m.code = "greeting" THEN 0 ELSE 1)
     IN  hs' = [hs EXCEPT !.fromS = Tail(@), !.fromC = @ + (IF m.waits THEN 1 ELSE 0), !.rounds = rounds,
                          !.reads = IF hs.method \in Postgres THEN PostgresReads(m.code) ELSE MySQLReads(m.code, rounds)]

(* The client's answer is forwarded to the service. *)
ForwardClientMessage ==
  /\ hs.reads = "client" /\ hs.fromC > 0
  /\ hs' = [hs EXCEPT !.fromC = @ - 1, !.owed = FALSE, !.reads = "server"]

HandshakeStep == ServiceSpeaks \/ ForwardServerMessage \/ ForwardClientMessage

(* The command loop starts with the connection phase behind it: nothing of it
   is left on either side, so no command is taken for a credential. *)
HandedOverClean ==
  hs.reads = "done" => hs.at = Len(Exchange[hs.method]) /\ hs.fromS = <<>> /\ hs.fromC = 0 /\ ~hs.owed

(* Every exchange the proxies have a case for ends: proxy, client and service
   never wait for one another. (A GSS or SSPI exchange does not end.) *)
HandshakeOver == hs.reads \in {"done", "failed"} \/ hs.method = "gss"
==============================================================================
