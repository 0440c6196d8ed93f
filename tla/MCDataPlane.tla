---------------------------- MODULE MCDataPlane ----------------------------
(***************************************************************************)
(* Values of DataPlane's constants for TLC: parents of each shape and mode. *)
(***************************************************************************)
EXTENDS DataPlane

CONSTANTS h, r, n1, ip1, ip2

Base ==
    [shape |-> "exposed", annotation |-> "ok", mode |-> "tsnet", host |-> FALSE, ports |-> <<>>,
     routes |-> <<>>, consumers |-> {}, ip |-> ip1]

Port(p, target) == [port |-> p, tcp |-> TRUE, target |-> target]
Udp(p) == [port |-> p, tcp |-> FALSE, target |-> None]

Exposed == [Base EXCEPT !.ports = <<Port(1, None), Udp(2)>>]
Egress == [Base EXCEPT !.shape = "egress", !.ip = None, !.ports = <<Udp(3), Port(1, 4), Port(2, None)>>]
Ingress == [Base EXCEPT !.shape = "ingress", !.ip = None]

Path(p, b, name) == [path |-> p, backend |-> b, named |-> name]

MCSpecs == {
    Exposed,
    [Exposed EXCEPT !.host = TRUE],
    [Exposed EXCEPT !.mode = "tun", !.host = TRUE],
    [Exposed EXCEPT !.mode = "tun", !.ip = ip2],
    Egress,
    [Egress EXCEPT !.ports = <<Port(2, None), Port(1, 4)>>, !.consumers = {n1}],
    [Egress EXCEPT !.annotation = "misfit"],
    [Exposed EXCEPT !.annotation = "unparsable"],
    [Ingress EXCEPT !.routes = <<Path("/", h, FALSE), Path("/x", r, FALSE)>>],
    [Ingress EXCEPT !.routes = <<Path("/", r, TRUE), Path("/", h, TRUE)>>, !.host = TRUE],
    [Ingress EXCEPT !.routes = <<Path("/", r, FALSE), Path("/x", h, TRUE)>>, !.mode = "tun"],
    [Ingress EXCEPT !.annotation = "fromNobody", !.routes = <<Path("/", h, FALSE)>>],
    Ingress}

MCNodePorts == 30000 .. 30001
==============================================================================
