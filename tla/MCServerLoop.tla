----------------------------- MODULE MCServerLoop -----------------------------
(* Model values and the instances on which TLC checks ServerLoop.          *)
EXTENDS ServerLoop

CONSTANTS c1, c2, c3, p1, p2, p3

MCClients == {c1, c2, c3}
MCPids == {p1, p2, p3}
MCOneChatty == {c1}

MCBoth == {TRUE, FALSE}
MCEverything == {"fork", "crash", "interrupt", "listen", "udp", "accept"}
=============================================================================
