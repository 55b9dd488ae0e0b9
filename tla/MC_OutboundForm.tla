---------------------------- MODULE MC_OutboundForm ----------------------------
(***************************************************************************)
(* Instance of OutboundForm: lists as Xray's documentation and older       *)
(* versions of the panel write them, one link of each kind and two texts.  *)
(***************************************************************************)
EXTENDS OutboundForm

Json(tag, p, settings, stream, mux) ==
    [tag |-> tag, protocol |-> p, settings |-> settings, stream |-> stream, mux |-> mux]

Vision == Json("a", "vless",
    [server |-> "given", id |-> "given", flow |-> "given", testseed |-> "given"],
    [network |-> "tcp", security |-> "reality", reality |-> "given", tcpMasks |-> "given"], TRUE)
Xhttp == Json("a", "trojan", [server |-> "given"],
    [network |-> "xhttp", security |-> "tls", tls |-> "given", xhttp |-> "given",
     xmux |-> "given", quicParams |-> "given"], TRUE)
Hop == Json("a", "hysteria", [server |-> "given"],
    [network |-> "hysteria", security |-> "none", hysteria |-> "given",
     udphopPort |-> "given", interval |-> "empty", udpMasks |-> "loose"], FALSE)
Tunnel == Json("b", "wireguard",
    [params |-> "given", peers |-> "given", allowedIPs |-> "given", reserved |-> "given"],
    NoFields, FALSE)
Flat == Json("b", "trojan", [address |-> "given"], NoFields, FALSE)   \* no servers
Bare == Json("b", "trojan", [server |-> "given"], [bareRequest |-> "given"], FALSE)
Userless == Json("c", "http", [server |-> "given", userless |-> "given"], NoFields, FALSE)
OldDns == Json("b", "dns", [server |-> "given", legacy |-> "given"], NoFields, FALSE)
Proxy == Json("b", "socks", [server |-> "given", user |-> "given", pass |-> "given"],
    [sockopt |-> "given"], TRUE)

MCLists == {<<Vision, Tunnel>>, <<Xhttp, Flat>>, <<Hop, OldDns>>, <<Vision, Proxy>>, <<Userless, Bare>>}

MCTexts == {Vision, Flat, Json("c", "freedom", [fragment |-> "given"], NoFields, FALSE)}

Link(tag, p, server, stream) ==
    [tag |-> tag, protocol |-> p,
     settings |-> [f \in DOMAIN SettingsDefault(p) |->
                     IF f \in {"server", "id", "flow"} THEN server ELSE SettingsDefault(p)[f]],
     stream |-> [f \in DOMAIN StreamDefault |->
                     IF f \in DOMAIN stream THEN stream[f] ELSE StreamDefault[f]],
     mux |-> FALSE]
MCLinks == {Link("b", "vless", "given", [security |-> "reality", reality |-> "given"]),
            Link("c", "vmess", "given", [network |-> "none", tcp |-> "http", tcpHost |-> "given"]),
            Link("c", "hysteria", "given", [network |-> "hysteria", hysteria |-> "given",
                                             udphopPort |-> "given", udphopInterval |-> "given"])}
=============================================================================
