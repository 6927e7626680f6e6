---------------------------- MODULE AgentTunnel -----------------------------
(***************************************************************************)
(* A stream tunnel between the proxy and an agent: the client connects     *)
(* (TLS or DTLS), sends one header that names the destination, or asks to  *)
(* close at once, and then the payload; the agent reads the header,        *)
(* validates it, dials the destination and relays.  Over DTLS records may  *)
(* be lost and may overtake each other, the header too.  Before that the   *)
(* proxy has asked the agent what it is and probed both protocols.         *)
(* Tunnels do not share state: one at a time is modelled.  Strings are     *)
(* their lengths, the checksum is injective.                               *)
(***************************************************************************)
EXTENDS Integers, Sequences, SequencesExt

CONSTANTS HostSize, PortSize,   \* fields of the header
          HostLens, PortLens,   \* lengths of the hosts and ports asked for
          MaxPayloads           \* bound: payloads the client writes

VARIABLES
  tnAgent,  \* InitWithCerts: "new", "tcp", "udp" (being probed), "ready", "failed"
  tnOk,     \* protocols found to be supported
  tnCli,    \* client: "new", "open", "closed"
  tnAsk,    \* what it asked for: protocol, host, port, probe
  tnWire,   \* records under way to the agent
  tnSent,   \* payloads written
  tnSrv,    \* handler: "none", "header", "partial" (bytes short of a header), "relay", "closed"
  tnDst,    \* destination: "none", "open", "closed", and the address dialled
  tnGot,    \* payloads written to the destination
  tnFwd     \* UDP: forwardFromDestination runs

tnVars == <<tnAgent, tnOk, tnCli, tnAsk, tnWire, tnSent, tnSrv, tnDst, tnGot, tnFwd>>

Fin == [ver |-> "fin"]
Payload(n) == [ver |-> "data", n |-> n]

Checksum(h) == <<h.ver, h.host, h.port, h.flag>>
Summed(h) == [ver |-> h.ver, host |-> h.host, port |-> h.port, flag |-> h.flag, sum |-> Checksum(h)]

(* NewStreamRequestHeader, when host and port fit, and                     *)
(* NewStreamHealthCheckHeader.                                             *)
Fits(h, p) == h <= HostSize /\ p <= PortSize
NewStreamRequestHeader(h, p) == Summed([ver |-> "0.1.0", host |-> h, port |-> p, flag |-> FALSE])
NewStreamHealthCheckHeader == Summed([ver |-> "0.1.0", host |-> 0, port |-> 0, flag |-> TRUE])

(* Validate, on what was read in the place of a header: bytes of a payload *)
(* do not have the version.                                                *)
Validate(r) ==
  /\ r.ver = "0.1.0"
  /\ r.host <= HostSize /\ r.port <= PortSize
  /\ r.sum = Checksum(r)

NotDialled == [state |-> "none", host |-> 0, port |-> 0]

TunnelInit ==
  /\ tnAgent = "new" /\ tnOk = {}
  /\ tnCli = "new" /\ tnAsk = [proto |-> "tcp", host |-> 0, port |-> 0, probe |-> FALSE]
  /\ tnWire = <<>> /\ tnSent = 0 /\ tnSrv = "none" /\ tnGot = <<>> /\ tnFwd = FALSE
  /\ tnDst = NotDialled

-----------------------------------------------------------------------------
(* fetchJSON, fetchString: an error, no such endpoint, or an answer.       *)
Fetched == {"error", "absent", "answer"}

(* InitWithCerts.  The information of the agent: an error ends it; an old  *)
(* agent has none, is asked for name, version and runtime instead, and has *)
(* no streams; a new one is probed.                                        *)
FetchInfo ==
  /\ tnAgent = "new"
  /\ \E info, rest \in Fetched :
       tnAgent' = CASE info = "error" -> "failed"
                    [] info = "absent" -> IF rest = "error" THEN "failed" ELSE "ready"
                    [] info = "answer" -> "tcp"
  /\ UNCHANGED <<tnOk, tnCli, tnAsk, tnWire, tnSent, tnSrv, tnDst, tnGot, tnFwd>>

(* A connection with its header, on a fresh tunnel.                        *)
Open(proto, h, p, header, cli, rest) ==
  /\ tnSrv \in {"none", "closed"} /\ ~tnFwd
  /\ tnAsk' = [proto |-> proto, host |-> h, port |-> p, probe |-> header.flag]
  /\ tnCli' = cli /\ tnSrv' = "header" /\ tnWire' = <<header>> \o rest
  /\ tnSent' = 0 /\ tnGot' = <<>> /\ tnDst' = NotDialled /\ UNCHANGED tnFwd

(* TCPHealthCheck, then UDPHealthCheck: the header and the end.  A probe   *)
(* that fails leaves its protocol unsupported.                             *)
HealthCheck(proto) ==
  /\ tnAgent = proto
  /\ tnAgent' = IF proto = "tcp" THEN "udp" ELSE "ready"
  /\ \/ UNCHANGED <<tnOk, tnCli, tnAsk, tnWire, tnSent, tnSrv, tnDst, tnGot, tnFwd>>
     \/ /\ tnOk' = tnOk \union {proto}
        /\ Open(proto, 0, 0, NewStreamHealthCheckHeader, "closed", <<Fin>>)

(* NewTCPClient, NewUDPClient: only to an agent that is ready and supports *)
(* the protocol; no header for what does not fit, no connection kept when  *)
(* dial or write fail.                                                     *)
NewClient(proto, h, p) ==
  /\ tnAgent = "ready" /\ proto \in tnOk /\ Fits(h, p)
  /\ Open(proto, h, p, NewStreamRequestHeader(h, p), "open", <<>>)
  /\ tnCli # "open"
  /\ UNCHANGED <<tnAgent, tnOk>>

WritePayload ==
  /\ tnCli = "open" /\ tnSent < MaxPayloads
  /\ tnSent' = tnSent + 1 /\ tnWire' = Append(tnWire, Payload(tnSent'))
  /\ UNCHANGED <<tnAgent, tnOk, tnCli, tnAsk, tnSrv, tnDst, tnGot, tnFwd>>

CloseClient ==
  /\ tnCli = "open" /\ tnCli' = "closed" /\ tnWire' = Append(tnWire, Fin)
  /\ UNCHANGED <<tnAgent, tnOk, tnAsk, tnSent, tnSrv, tnDst, tnGot, tnFwd>>

(* A DTLS record is lost.                                                  *)
LoseRecord(i) ==
  /\ tnAsk.proto = "udp" /\ tnWire' = RemoveAt(tnWire, i)
  /\ UNCHANGED <<tnAgent, tnOk, tnCli, tnAsk, tnSent, tnSrv, tnDst, tnGot, tnFwd>>

-----------------------------------------------------------------------------
(* The record the agent reads next: the first, over DTLS any.              *)
Deliverable(i) == i = 1 \/ tnAsk.proto = "udp"
Take(i) == Deliverable(i) /\ tnWire' = RemoveAt(tnWire, i)

(* The deferred calls of handle and handleDTLSConnection.                  *)
CloseServer ==
  /\ tnSrv' = "closed"
  /\ tnDst' = IF tnDst.state = "open" THEN [tnDst EXCEPT !.state = "closed"] ELSE tnDst

(* Mutant: the header is not validated.                                    *)
AcceptHeaderMutant(r) == r.ver # "fin"

(* redirect: validated, and not a probe.                                   *)
AcceptHeader(r) == Validate(r) /\ ~r.flag

(* io.ReadFull of the header, then redirect and createDestConnection.      *)
(* Payload read first is an invalid header, or too few bytes of one, to    *)
(* which the next record is joined.                                        *)
ReadHeader(i) ==
  /\ tnSrv \in {"header", "partial"} /\ Take(i)
  /\ LET r == tnWire[i] IN
     \/ /\ tnSrv = "header" /\ AcceptHeader(r)
        /\ tnSrv' = "relay"
        /\ tnDst' = IF r.ver = "data" THEN [state |-> "open", host |-> 0, port |-> 0]
                    ELSE [state |-> "open", host |-> r.host, port |-> r.port]
        /\ tnFwd' = (tnAsk.proto = "udp")
     \/ /\ r.ver = "data" /\ tnSrv' = "partial"
        /\ UNCHANGED <<tnDst, tnFwd>>
     \/ CloseServer /\ UNCHANGED tnFwd
  /\ UNCHANGED <<tnAgent, tnOk, tnCli, tnAsk, tnSent, tnGot>>

(* dialTimeout passes before the header is complete.                       *)
HeaderTimeout ==
  /\ tnSrv \in {"header", "partial"} /\ CloseServer
  /\ UNCHANGED <<tnAgent, tnOk, tnCli, tnAsk, tnWire, tnSent, tnGot, tnFwd>>

(* The relay to the destination; its end on an error, on the end of the    *)
(* client's side or on the agent's context.                                *)
Relay(i) ==
  /\ tnSrv = "relay" /\ Take(i)
  /\ \/ /\ tnWire[i].ver = "data"
        /\ tnGot' = Append(tnGot, tnWire[i].n)
        /\ UNCHANGED <<tnSrv, tnDst>>
     \/ tnWire[i].ver = "0.1.0" /\ UNCHANGED <<tnGot, tnSrv, tnDst>>
     \/ CloseServer /\ UNCHANGED tnGot
  /\ UNCHANGED <<tnAgent, tnOk, tnCli, tnAsk, tnSent, tnFwd>>

RelayEnds ==
  /\ tnSrv = "relay" /\ CloseServer
  /\ UNCHANGED <<tnAgent, tnOk, tnCli, tnAsk, tnWire, tnSent, tnGot, tnFwd>>

(* forwardFromDestination returns; the other direction goes on.            *)
ForwardEnds ==
  /\ tnFwd /\ tnFwd' = FALSE
  /\ UNCHANGED <<tnAgent, tnOk, tnCli, tnAsk, tnWire, tnSent, tnSrv, tnDst, tnGot>>

TunnelNext ==
  \/ \E proto \in {"tcp", "udp"} : \/ \E h \in HostLens, p \in PortLens : NewClient(proto, h, p)
                                   \/ HealthCheck(proto)
  \/ FetchInfo \/ WritePayload \/ CloseClient \/ HeaderTimeout \/ RelayEnds \/ ForwardEnds
  \/ \E i \in 1..Len(tnWire) : LoseRecord(i) \/ ReadHeader(i) \/ Relay(i)

TunnelSpec == TunnelInit /\ [][TunnelNext]_tnVars

-----------------------------------------------------------------------------
(* The agent dials nothing for a probe or for a payload it takes for a     *)
(* header, and otherwise the destination that was asked for, in full.      *)
DialsWhatWasAsked ==
  tnDst.state # "none" => /\ ~tnAsk.probe
                          /\ tnDst.host = tnAsk.host /\ tnDst.port = tnAsk.port

(* The destination gets payloads of this client, each at most once; over   *)
(* TCP without a gap and in order.                                         *)
RelaysOnce ==
  /\ IsInjective(tnGot) /\ ToSet(tnGot) \subseteq 1..tnSent
  /\ tnAsk.proto = "tcp" => \A i \in DOMAIN tnGot : tnGot[i] = i

(* The connection to the destination ends with the handler of the tunnel.  *)
DestinationEnds == tnSrv = "closed" => tnDst.state # "open"

(* What the two ends of a tunnel promise each other (redirect, Validate,   *)
(* handle, handleDTLSConnection).                                          *)
TunnelSound == DialsWhatWasAsked /\ RelaysOnce /\ DestinationEnds
=============================================================================
