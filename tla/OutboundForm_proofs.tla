------------------------- MODULE OutboundForm_proofs -------------------------
(***************************************************************************)
(* The outbound editor, for any lists, texts, links and tags and any       *)
(* number of changes: outbounds are well formed wherever they are, what is *)
(* saved reads back as itself and has no mux beside a flow or XHTTP, the   *)
(* JSON tab shows the outbound it saves, tags differ, and a change of the  *)
(* list leaves other entries as they were.                                 *)
(***************************************************************************)
EXTENDS OutboundForm, SequenceTheorems, TLAPS

-----------------------------------------------------------------------------
(***************************************************************************)
(* The tables                                                              *)
(***************************************************************************)
LEMMA FilledIs ==
    ASSUME NEW d, NEW j, Given(j)
    PROVE  Complete(Filled(d, j), d)
BY DEF Given, Complete, Filled

LEMMA PresentIs ==
    ASSUME NEW s, NEW D
    PROVE  /\ Given(Present(s, D))
           /\ DOMAIN Present(s, D) = {f \in DOMAIN s : s[f] # Undef} \ D
           /\ \A f \in DOMAIN Present(s, D) : Present(s, D)[f] = s[f]
BY DEF Given, Present, Restrict

LEMMA DefaultIs ==
    ASSUME NEW p
    PROVE  Complete(SettingsDefault(p), SettingsDefault(p))
BY DEF Complete, SettingsDefault

LEMMA StreamDefaultIs == Complete(StreamDefault, StreamDefault)
BY DEF Complete, StreamDefault

LEMMA FromSettingsIs ==
    ASSUME NEW p, NEW j, Given(j)
    PROVE  Complete(FromSettings(p, j), SettingsDefault(p))
<1> DEFINE d == SettingsDefault(p)
           s == Filled(d, j)
<1>1. Complete(s, d)
    BY FilledIs
<1>2. CASE p = "vless" /\ ~Set(s.server)
    BY <1>2, DefaultIs DEF FromSettings
<1>3. CASE p \in {"socks", "http"} /\ "user" \notin DOMAIN j
    <2>1. FromSettings(p, j) = [s EXCEPT !.user = "empty", !.pass = "empty"]
        BY <1>3 DEF FromSettings
    <2> QED BY <1>1, <2>1 DEF Complete, Undef
<1>4. CASE p = "dns"
    <2>1. FromSettings(p, j) = [s EXCEPT !.rules = DnsRules(j)]
        BY <1>4 DEF FromSettings
    <2>2. DnsRules(j) # Undef
        BY DEF DnsRules, Set, Value, Undef
    <2> QED BY <1>1, <2>1, <2>2 DEF Complete
<1>5. CASE p = "wireguard"
    <2>1. FromSettings(p, j) = [s EXCEPT !.reserved = Tidy(@)]
        BY <1>5 DEF FromSettings
    <2>2. s["reserved"] # Undef => Tidy(s["reserved"]) # Undef
        BY DEF Tidy, Undef
    <2> HIDE DEF s
    <2> QED BY <1>1, <1>5, <2>1, <2>2 DEF Complete, SettingsDefault, Undef
<1>6. CASE ~(p = "vless" /\ ~Set(s.server)) /\ ~(p \in {"socks", "http"} /\ "user" \notin DOMAIN j)
           /\ p # "dns" /\ p # "wireguard"
    <2>1. FromSettings(p, j) = s
        BY <1>6 DEF FromSettings
    <2> QED BY <1>1, <2>1
<1> QED BY <1>2, <1>3, <1>4, <1>5, <1>6

LEMMA FromStreamIs ==
    ASSUME NEW j, Given(j)
    PROVE  Complete(FromStream(j), StreamDefault)
<1> DEFINE s == Filled(StreamDefault, j)
<1>1. Complete(s, StreamDefault)
    BY FilledIs
<1> DEFINE host == IF "tcp" \in DOMAIN j /\ s.tcp # "http" THEN "empty" ELSE s.tcpHost
           interval == CASE "interval" \in DOMAIN j -> j.interval
                         [] Set(s.udphopInterval) -> s.udphopInterval
                         [] OTHER -> "def"
           tcp == Tidy(s.tcpMasks)
           udp == Tidy(s.udpMasks)
<1>2. FromStream(j) = [s EXCEPT !.tcpHost = host, !.tcpMasks = tcp, !.udpMasks = udp,
                                !.udphopInterval = interval]
    <2>1. DOMAIN s = DOMAIN StreamDefault
        BY <1>1 DEF Complete
    <2> QED BY <2>1 DEF FromStream, StreamDefault
<1>3. /\ host = Undef => StreamDefault["tcpHost"] = Undef
      /\ interval # Undef /\ tcp # Undef /\ udp # Undef
    <2>1. s.tcpMasks # Undef /\ s.udpMasks # Undef
        BY <1>1 DEF Complete, StreamDefault, Undef
    <2>2. interval # Undef
        BY DEF Given, Undef, Set
    <2> QED BY <2>1, <2>2 DEF StreamDefault, Tidy, Undef
<1> HIDE DEF s, host, interval, tcp, udp
<1> QED BY <1>1, <1>2, <1>3 DEF Complete

\* Writing t writes W, if t has the fields of W and nothing else that is written.
LEMMA Again ==
    ASSUME NEW D, NEW t, NEW B, NEW W,
           t = [f \in D |-> t[f]], W = [f \in DOMAIN W |-> W[f]], DOMAIN W \subseteq D,
           \A f \in DOMAIN W : t[f] = W[f] /\ W[f] # Undef /\ f \notin B,
           \A f \in D : f \notin DOMAIN W => t[f] = Undef \/ f \in B
    PROVE  Present(t, B) = W
<1>1. {f \in DOMAIN t : t[f] # Undef} \ B = DOMAIN W
    OBVIOUS
<1> QED BY <1>1 DEF Present, Restrict

\* The fields of settings as they are read back, outside the special cases.
LEMMA ReadBack ==
    ASSUME NEW d, NEW s, Complete(s, d), NEW A
    PROVE  LET t == Filled(d, Present(s, A)) IN
           /\ t = [f \in DOMAIN d |-> t[f]]
           /\ \A f \in DOMAIN d : t[f] = IF s[f] # Undef /\ f \notin A THEN s[f] ELSE d[f]
BY DEF Filled, Present, Restrict, Complete

LEMMA SettingsAgain ==
    ASSUME NEW p, NEW s, Complete(s, SettingsDefault(p)), p = "vless" => Set(s.server)
    PROVE  LET t == FromSettings(p, ToSettings(p, s)) IN
           /\ ToSettings(p, t) = SettledSettings(p, ToSettings(p, s))
           /\ Set(Value(t, "flow")) => Set(Value(s, "flow"))
<1> DEFINE d == SettingsDefault(p)
           A == Dropped(p, s)
           k == Present(s, A)
           u == Filled(d, k)
           t == FromSettings(p, ToSettings(p, s))
           B == Dropped(p, t)
           W == SettledSettings(p, k)
           Written(f) == s[f] # Undef /\ f \notin A
           Same(f) == /\ Written(f) => t[f] = s[f] /\ f \notin B
                      /\ ~Written(f) => t[f] = Undef \/ f \in B
<1> SUFFICES /\ ToSettings(p, t) = SettledSettings(p, ToSettings(p, s))
             /\ Set(Value(t, "flow")) => Set(Value(s, "flow"))
    OBVIOUS
<1>1. /\ s = [f \in DOMAIN d |-> s[f]] /\ DOMAIN s = DOMAIN d
      /\ \A f \in DOMAIN d : s[f] = Undef => d[f] = Undef
    BY DEF Complete
<1>2. /\ u = [f \in DOMAIN d |-> u[f]] /\ DOMAIN u = DOMAIN d
      /\ \A f \in DOMAIN d : u[f] = IF Written(f) THEN s[f] ELSE d[f]
    BY ReadBack
<1>3. ToSettings(p, s) = k /\ ToSettings(p, t) = Present(t, B)
    BY DEF ToSettings
<1>4. DOMAIN k = {f \in DOMAIN d : Written(f)} /\ \A f \in DOMAIN k : k[f] = s[f]
    <2> HIDE DEF d, A
    <2>1. /\ DOMAIN k = {f \in DOMAIN s : s[f] # Undef} \ A
          /\ \A f \in DOMAIN k : k[f] = s[f]
        BY PresentIs
    <2> HIDE DEF k
    <2> QED BY <1>1, <2>1
<1>5. t = [f \in DOMAIN d |-> t[f]]
    <2>1. t = FromSettings(p, k) /\ Given(k)
        BY <1>3, PresentIs
    <2>2. Complete(t, d)
        BY <2>1, FromSettingsIs
    <2> HIDE DEF t, d
    <2> QED BY <2>2 DEF Complete
<1>6. ASSUME p # "wireguard", \A f \in DOMAIN d : Same(f)
      PROVE  ToSettings(p, t) = SettledSettings(p, ToSettings(p, s))
    <2>1. "reserved" \notin DOMAIN d
        BY <1>6 DEF SettingsDefault
    <2>2. k = [f \in DOMAIN k |-> k[f]]
        <3> HIDE DEF A
        <3>1. Given(k)
            BY PresentIs
        <3> HIDE DEF k
        <3> QED BY <3>1 DEF Given
    <2> HIDE DEF d, A, B, t, k
    <2>3. W = k
        BY <1>4, <1>6, <2>1, <2>2 DEF SettledSettings
    <2>4. Present(t, B) = k
        BY <1>4, <1>5, <1>6, <2>2, Again
    <2> QED BY <1>3, <2>3, <2>4
<1>7. CASE p \in {"freedom", "blackhole"}
    <2>1. t = u
        BY <1>3, <1>7 DEF FromSettings
    <2>2. A = {f \in DOMAIN s : ~Set(s[f])} /\ B = {f \in DOMAIN t : ~Set(t[f])}
        BY <1>7 DEF Dropped
    <2>3. \A f \in DOMAIN d : ~Set(d[f])
        BY <1>7 DEF SettingsDefault, Set, Undef
    <2>4. "flow" \notin DOMAIN d
        BY <1>7 DEF SettingsDefault
    <2> HIDE DEF d, A, B, t, u, k
    <2>5. \A f \in DOMAIN d : Same(f)
        BY <1>1, <1>2, <2>1, <2>2, <2>3 DEF Set
    <2> QED BY <1>5, <1>6, <1>7, <2>4, <2>5 DEF Value, Set
<1>8. CASE p = "dns"
    <2>1. t = [u EXCEPT !.rules = DnsRules(k)]
        BY <1>3, <1>8 DEF FromSettings
    <2>2. A = {f \in {"rules"} : ~Set(s[f])} /\ B = {f \in {"rules"} : ~Set(t[f])}
        BY <1>8 DEF Dropped
    <2>3. DOMAIN d = {"server", "rules"} /\ d["server"] # Undef
        BY <1>8 DEF SettingsDefault, Undef
    <2> HIDE DEF d, A, B, t, u, k
    <2>4. DnsRules(k) = IF Set(s["rules"]) THEN s["rules"] ELSE "empty"
        BY <1>4, <2>2, <2>3 DEF DnsRules, Value, Set
    <2>5. \A f \in DOMAIN d : Same(f)
        BY <1>1, <1>2, <2>1, <2>2, <2>3, <2>4 DEF Set
    <2> QED BY <1>5, <1>6, <1>8, <2>3, <2>5 DEF Value, Set
<1>9. CASE p = "vless"
    <2>1. DOMAIN d = {"server", "id", "flow", "testpre", "testseed"}
          /\ d["server"] = Undef /\ d["id"] = Undef /\ d["flow"] = Undef
          /\ d["testpre"] = "empty" /\ d["testseed"] = "def"
        BY <1>9 DEF SettingsDefault
    <2>2. A = IF Set(s["flow"]) THEN {f \in {"testpre"} : ~Set(s[f])} ELSE {"testpre", "testseed"}
        BY <1>9 DEF Dropped
    <2>3. B = IF Set(t["flow"]) THEN {f \in {"testpre"} : ~Set(t[f])} ELSE {"testpre", "testseed"}
        BY <1>9 DEF Dropped
    <2>4. Set(s["server"])
        BY <1>9
    <2>5. Set(u.server) => t = u
        BY <1>3, <1>9 DEF FromSettings
    <2> HIDE DEF d, A, B, t, u, k
    <2>6. u["server"] = s["server"]
        BY <1>2, <2>1, <2>2, <2>4 DEF Set
    <2>7. t = u
        BY <2>4, <2>5, <2>6
    <2>8. Set(t["flow"]) <=> Set(s["flow"])
        BY <1>2, <2>1, <2>2, <2>7 DEF Set
    <2>9. \A f \in DOMAIN d : Same(f)
        BY <1>1, <1>2, <2>1, <2>2, <2>3, <2>7, <2>8 DEF Set, Undef
    <2> QED BY <1>1, <1>5, <1>6, <1>9, <2>8, <2>9 DEF Value, Set
<1>10. CASE p \in {"socks", "http"}
    <2>1. DOMAIN d = {"server", "user", "pass"} /\ d["server"] # Undef
          /\ d["user"] = Undef /\ d["pass"] = Undef
        BY <1>10 DEF SettingsDefault, Undef
    <2>2. A = IF Set(s["user"]) THEN {} ELSE {"user", "pass"}
        BY <1>10 DEF Dropped
    <2>3. B = IF Set(t["user"]) THEN {} ELSE {"user", "pass"}
        BY <1>10 DEF Dropped
    <2>4. t = IF "user" \notin DOMAIN k THEN [u EXCEPT !.user = "empty", !.pass = "empty"] ELSE u
        BY <1>3, <1>10 DEF FromSettings
    <2> HIDE DEF d, A, B, t, u, k
    <2>5. "user" \in DOMAIN k <=> Set(s["user"])
        BY <1>4, <2>1, <2>2 DEF Set
    <2>6. CASE Set(s["user"])
        <3>1. t = u /\ t["user"] = s["user"]
            BY <1>2, <2>1, <2>2, <2>4, <2>5, <2>6 DEF Set
        <3>2. \A f \in DOMAIN d : Same(f)
            BY <1>1, <1>2, <2>1, <2>2, <2>3, <2>6, <3>1
        <3> QED BY <1>5, <1>6, <1>10, <2>1, <3>2 DEF Value, Set
    <2>7. CASE ~Set(s["user"])
        <3>1. t["user"] = "empty" /\ t["server"] = u["server"]
            BY <1>2, <2>1, <2>4, <2>5, <2>7
        <3>2. \A f \in DOMAIN d : Same(f)
            BY <1>1, <1>2, <2>1, <2>2, <2>3, <2>7, <3>1 DEF Set
        <3> QED BY <1>5, <1>6, <1>10, <2>1, <3>2 DEF Value, Set
    <2> QED BY <2>6, <2>7
<1>11. CASE p = "wireguard"
    <2> DEFINE E == {"numbers", "domainStrategy", "reserved", "psk"}
    <2>1. DOMAIN d = {"params", "numbers", "domainStrategy", "reserved", "peers", "psk", "allowedIPs"}
          /\ \A f \in DOMAIN d : d[f] = IF f \in E \ {"numbers"} THEN "empty" ELSE "def"
        BY <1>11 DEF SettingsDefault
    <2>2. A = {f \in E : ~Set(s[f])} /\ B = {f \in E : ~Set(t[f])}
        BY <1>11 DEF Dropped
    <2>3. t = [u EXCEPT !.reserved = Tidy(@)]
        BY <1>3, <1>11 DEF FromSettings
    <2>4. W = [f \in DOMAIN k \union {"numbers"} |->
                CASE f \notin DOMAIN k -> "def"
                  [] f = "reserved" -> Tidy(k[f])
                  [] OTHER -> k[f]]
        BY <1>11 DEF SettledSettings
    <2> HIDE DEF d, A, B, t, u, k, W
    <2>5. DOMAIN W = DOMAIN k \union {"numbers"} /\ W = [f \in DOMAIN W |-> W[f]]
        BY <2>4
    <2>6. /\ t["reserved"] = Tidy(u["reserved"])
          /\ \A f \in DOMAIN d : f # "reserved" => t[f] = u[f]
        BY <1>2, <2>1, <2>3
    <2>7. \A f \in DOMAIN W : t[f] = W[f]
        BY <1>2, <1>4, <2>1, <2>4, <2>5, <2>6
    <2>8. \A f \in DOMAIN d : s[f] # Undef
        BY <1>1, <2>1 DEF Undef
    <2>9. \A f \in DOMAIN W : W[f] # Undef /\ (f \in E => Set(W[f]))
        BY <1>4, <2>1, <2>2, <2>4, <2>5, <2>8 DEF Set, Undef, Tidy
    <2>10. \A f \in DOMAIN d : f \notin DOMAIN W => f \in E /\ ~Set(t[f])
        BY <1>2, <1>4, <2>1, <2>2, <2>5, <2>6, <2>8 DEF Set, Tidy
    <2>11. Present(t, B) = W
        BY <1>4, <1>5, <2>1, <2>2, <2>5, <2>7, <2>9, <2>10, Again
    <2>12. "flow" \notin DOMAIN t
        BY <1>5, <2>1
    <2> QED BY <1>3, <2>11, <2>12 DEF Value, Set, W
<1>12. CASE p \notin {"freedom", "blackhole", "dns", "vless", "socks", "http", "wireguard"}
    <2>1. A = {} /\ B = {}
        BY <1>12 DEF Dropped
    <2>2. t = u
        BY <1>3, <1>12 DEF FromSettings
    <2>3. "flow" \notin DOMAIN d
        BY <1>12 DEF SettingsDefault
    <2> HIDE DEF d, A, B, t, u, k
    <2>4. \A f \in DOMAIN d : Same(f)
        BY <1>1, <1>2, <2>1, <2>2
    <2> QED BY <1>5, <1>6, <1>12, <2>3, <2>4 DEF Value, Set
<1> QED BY <1>7, <1>8, <1>9, <1>10, <1>11, <1>12

LEMMA StreamAgain ==
    ASSUME NEW s, Complete(s, StreamDefault)
    PROVE  LET t == FromStream(ToStream(s)) IN
           /\ ToStream(t) = SettledStream(ToStream(s))
           /\ t.network = s.network
<1> DEFINE d == StreamDefault
           A == DOMAIN s \ ({"network", "security"} \union Own(s))
           k == Present(s, A)
           u == Filled(d, k)
           t == FromStream(ToStream(s))
           B == DOMAIN t \ ({"network", "security"} \union Own(t))
           W == SettledStream(k)
           Written(f) == s[f] # Undef /\ f \notin A
<1> SUFFICES ToStream(t) = SettledStream(ToStream(s)) /\ t.network = s.network
    OBVIOUS
<1>1. /\ s = [f \in DOMAIN d |-> s[f]] /\ DOMAIN s = DOMAIN d
      /\ \A f \in DOMAIN d : s[f] = Undef => d[f] = Undef
    BY DEF Complete
<1>2. /\ u = [f \in DOMAIN d |-> u[f]] /\ DOMAIN u = DOMAIN d
      /\ \A f \in DOMAIN d : u[f] = IF Written(f) THEN s[f] ELSE d[f]
    BY ReadBack
<1>3. ToStream(s) = k /\ ToStream(t) = Present(t, B)
    BY DEF ToStream
<1>4. DOMAIN k = {f \in DOMAIN d : Written(f)} /\ \A f \in DOMAIN k : k[f] = s[f]
    <2> HIDE DEF d, A
    <2>1. /\ DOMAIN k = {f \in DOMAIN s : s[f] # Undef} \ A
          /\ \A f \in DOMAIN k : k[f] = s[f]
        BY PresentIs
    <2> HIDE DEF k
    <2> QED BY <1>1, <2>1
<1>5. t = [f \in DOMAIN d |-> t[f]] /\ DOMAIN t = DOMAIN d
    <2>1. t = FromStream(k) /\ Given(k)
        BY <1>3, PresentIs
    <2>2. Complete(t, d)
        BY <2>1, FromStreamIs
    <2> HIDE DEF t, d
    <2> QED BY <2>2 DEF Complete
<1>6. /\ t["tcpHost"] = IF "tcp" \in DOMAIN k /\ u["tcp"] # "http" THEN "empty" ELSE u["tcpHost"]
      /\ t["tcpMasks"] = Tidy(u["tcpMasks"]) /\ t["udpMasks"] = Tidy(u["udpMasks"])
      /\ t["udphopInterval"] = IF Set(u["udphopInterval"]) THEN u["udphopInterval"] ELSE "def"
      /\ \A f \in DOMAIN d \ {"tcpHost", "tcpMasks", "udpMasks", "udphopInterval"} : t[f] = u[f]
    <2>1. "interval" \notin DOMAIN k
        BY <1>4 DEF StreamDefault
    <2>2. t = [u EXCEPT !.tcpHost = IF "tcp" \in DOMAIN k /\ u.tcp # "http" THEN "empty" ELSE @,
                        !.tcpMasks = Tidy(@), !.udpMasks = Tidy(@),
                        !.udphopInterval = IF Set(@) THEN @ ELSE "def"]
        <3> HIDE DEF k
        <3> QED BY <1>3, <2>1 DEF FromStream
    <2>3. {"tcpHost", "tcpMasks", "udpMasks", "udphopInterval"} \subseteq DOMAIN u
        <3> HIDE DEF u
        <3> QED BY <1>2 DEF StreamDefault
    <2> HIDE DEF u, t, k
    <2> QED BY <1>2, <2>2, <2>3
<1>7. /\ W = [f \in DOMAIN W |-> W[f]] /\ DOMAIN W = DOMAIN k
      /\ \A f \in DOMAIN k \ {"tcpMasks", "udpMasks", "udphopInterval"} : W[f] = k[f]
      /\ \A f \in DOMAIN k \cap {"tcpMasks", "udpMasks"} : W[f] = Tidy(k[f])
      /\ "udphopInterval" \in DOMAIN k =>
             W["udphopInterval"] = IF Set(k["udphopInterval"]) THEN k["udphopInterval"] ELSE "def"
    <2> HIDE DEF k
    <2> QED BY DEF SettledStream
<1>8. /\ DOMAIN d = {"network", "security", "tls", "reality", "tcp", "tcpHost", "kcp", "ws", "grpc",
                     "httpupgrade", "xhttp", "xmux", "hysteria", "udphopPort", "udphopInterval",
                     "tcpMasks", "udpMasks", "quicParams", "sockopt"}
      /\ \A f \in DOMAIN d : d[f] = Undef => f \in {"tcpHost", "quicParams", "sockopt"}
      /\ \A f \in {"tcpMasks", "udpMasks", "quicParams", "sockopt", "udphopPort"} : ~Set(d[f])
    BY DEF StreamDefault, Undef, Set
<1> USE DEF Transports
<1>9. /\ \A f \in Own(s) \cup {"network", "security"} : Written(f) <=> s[f] # Undef
      /\ \A f \in DOMAIN d : f \notin Own(s) \cup {"network", "security"} => ~Written(f)
      /\ Own(s) \subseteq DOMAIN d
    BY <1>1, <1>8 DEF Own
<1> HIDE DEF d, A, B, k, u, t, W
<1>10. t["network"] = s["network"] /\ t["security"] = s["security"]
    BY <1>1, <1>2, <1>6, <1>8, <1>9
<1>11. s["network"] = "tcp" => t["tcp"] = s["tcp"] /\ u["tcp"] = s["tcp"]
    <2>1. s["network"] = "tcp" => "tcp" \in Own(s)
        BY DEF Own
    <2> QED BY <1>1, <1>2, <1>6, <1>8, <1>9, <2>1
<1>12. s["network"] = "hysteria" => (Set(t["udphopPort"]) <=> Set(s["udphopPort"]))
    <2>1. s["network"] = "hysteria" => ("udphopPort" \in Own(s) <=> Set(s["udphopPort"]))
        BY DEF Own
    <2> QED BY <1>1, <1>2, <1>6, <1>8, <1>9, <2>1 DEF Set
<1>13. \A f \in {"tcpMasks", "udpMasks", "quicParams", "sockopt"} : Set(t[f]) <=> Set(s[f])
    <2>1. \A f \in {"tcpMasks", "udpMasks", "quicParams", "sockopt"} : f \in Own(s) <=> Set(s[f])
        BY DEF Own
    <2>2. \A v : Set(Tidy(v)) <=> Set(v)
        BY DEF Set, Tidy, Undef
    <2>3. \A f \in {"tcpMasks", "udpMasks", "quicParams", "sockopt"} : Set(u[f]) <=> Set(s[f])
        BY <1>1, <1>2, <1>8, <1>9, <2>1 DEF Set
    <2> QED BY <1>6, <1>8, <2>2, <2>3
<1>14. Own(t) = Own(s)
    BY <1>10, <1>11, <1>12, <1>13 DEF Own
<1>15. "tcpHost" \in Own(s) => t["tcpHost"] = u["tcpHost"]
    <2>1. "tcpHost" \in Own(s) => s["network"] = "tcp" /\ s["tcp"] = "http"
        BY DEF Own
    <2> QED BY <1>6, <1>11, <2>1
<1>16. \A f \in DOMAIN W : t[f] = W[f] /\ W[f] # Undef /\ f \notin B
    <2> SUFFICES ASSUME NEW f \in DOMAIN W
                 PROVE  t[f] = W[f] /\ W[f] # Undef /\ f \notin B
        OBVIOUS
    <2>1. f \in DOMAIN d /\ Written(f) /\ k[f] = s[f] /\ u[f] = s[f] /\ s[f] # Undef
        BY <1>2, <1>4, <1>7
    <2>2. t[f] = W[f]
        BY <1>6, <1>7, <1>9, <1>15, <2>1
    <2>3. W[f] # Undef
        BY <1>7, <2>1 DEF Tidy, Undef, Set
    <2>4. f \notin B
        BY <1>5, <1>9, <1>14, <2>1 DEF B
    <2> QED BY <2>2, <2>3, <2>4
<1>17. \A f \in DOMAIN d : f \notin DOMAIN W => t[f] = Undef \/ f \in B
    <2> SUFFICES ASSUME NEW f \in DOMAIN d, ~Written(f), f \in Own(s) \cup {"network", "security"}
                 PROVE  t[f] = Undef
        BY <1>4, <1>5, <1>7, <1>14 DEF B
    <2>1. s[f] = Undef /\ u[f] = Undef
        BY <1>1, <1>2, <1>9
    <2> QED BY <1>1, <1>6, <1>8, <1>15, <2>1
<1>18. Present(t, B) = W
    BY <1>4, <1>5, <1>7, <1>16, <1>17, Again
<1> QED BY <1>3, <1>10, <1>18 DEF k, W

-----------------------------------------------------------------------------
(***************************************************************************)
(* Outbounds, read and written                                             *)
(***************************************************************************)
LEMMA ToJsonIs ==
    ASSUME NEW b, IsObject(b)
    PROVE  IsJson(ToJson(b))
<1>1. Given(ToSettings(b.protocol, b.settings)) /\ Given(ToStream(b.stream))
    BY PresentIs DEF ToSettings, ToStream
<1>2. Given(Restrict(b.stream, {f \in {"sockopt"} : Set(b.stream[f])}))
    BY DEF Given, Restrict, Set
<1> QED BY <1>1, <1>2 DEF ToJson, IsJson, Outbound, IsObject

LEMMA FromJsonIs ==
    ASSUME NEW j, IsJson(j)
    PROVE  IsObject(FromJson(j))
<1>1. Complete(FromSettings(j.protocol, j.settings), SettingsDefault(j.protocol))
    BY FromSettingsIs DEF IsJson
<1>2. Complete(FromStream(j.stream), StreamDefault)
    BY FromStreamIs DEF IsJson
<1> QED BY <1>1, <1>2 DEF FromJson, IsObject, Outbound, IsJson

\* An outbound as it is once it has been rendered.
Shown(b) == IsObject(b) /\ (b.mux => ~NoMux(b))

LEMMA RenderIs ==
    ASSUME NEW b, IsObject(b)
    PROVE  Shown(Render(b)) /\ Render(b).tag = b.tag
BY DEF Render, IsObject, Outbound, NoMux, Shown

LEMMA NewIs ==
    ASSUME NEW p
    PROVE  Shown(NewOutbound(p))
BY DefaultIs, StreamDefaultIs DEF NewOutbound, IsObject, Outbound, Shown

\* The field whose absence fromJson does not expect is written, and no field of another form.
LEMMA WrittenIsReadable ==
    ASSUME NEW b, IsObject(b)
    PROVE  Readable(ToJson(b))
<1> DEFINE p == b.protocol
           s == b.settings
           g == IF p = "wireguard" THEN "peers" ELSE "server"
<1>1. s = [f \in DOMAIN SettingsDefault(p) |-> s[f]] /\ b.stream = [f \in DOMAIN StreamDefault |-> b.stream[f]]
      /\ \A f \in DOMAIN SettingsDefault(p) : s[f] = Undef => SettingsDefault(p)[f] = Undef
    BY DEF IsObject, Complete
<1>2. DOMAIN ToSettings(p, s) = {f \in DOMAIN s : s[f] # Undef} \ Dropped(p, s)
    <2> DEFINE A == Dropped(p, s)
    <2> HIDE DEF s, A
    <2>1. DOMAIN Present(s, A) = {f \in DOMAIN s : s[f] # Undef} \ A
        BY PresentIs
    <2> QED BY <2>1 DEF ToSettings, A
<1>3. p \in NeedsArray => g \in DOMAIN ToSettings(p, s)
    <2> SUFFICES ASSUME p \in NeedsArray PROVE g \in DOMAIN ToSettings(p, s)
        OBVIOUS
    <2>1. g \in DOMAIN SettingsDefault(p) /\ SettingsDefault(p)[g] # Undef
        BY DEF NeedsArray, SettingsDefault, Undef
    <2>2. g \notin Dropped(p, s)
        BY DEF NeedsArray, Dropped
    <2> HIDE DEF s, g, p
    <2>3. g \in DOMAIN s /\ s[g] # Undef
        BY <1>1, <2>1
    <2> QED BY <1>2, <2>2, <2>3
<1>4. p \in {"vmess", "socks", "http"} => "userless" \notin DOMAIN ToSettings(p, s)
    <2>1. p \in {"vmess", "socks", "http"} => "userless" \notin DOMAIN SettingsDefault(p)
        BY DEF SettingsDefault
    <2> HIDE DEF s, p
    <2> QED BY <1>1, <1>2, <2>1
<1>5. "bareRequest" \notin DOMAIN ToJson(b).stream
    <2>1. "bareRequest" \notin DOMAIN b.stream
        BY <1>1 DEF StreamDefault
    <2>2. DOMAIN ToStream(b.stream) \subseteq DOMAIN b.stream
        BY DEF ToStream, Present, Restrict
    <2>3. DOMAIN Restrict(b.stream, {f \in {"sockopt"} : Set(b.stream[f])}) \subseteq {"sockopt"}
        BY DEF Restrict
    <2> QED BY <2>1, <2>2, <2>3 DEF ToJson
<1>6. ToJson(b).protocol = p /\ ToJson(b).settings = ToSettings(p, s)
    BY DEF ToJson
<1> QED BY <1>3, <1>4, <1>5, <1>6 DEF Readable

LEMMA ReopenedIs ==
    ASSUME NEW b, Shown(b)
    PROVE  Reopened(ToJson(b)) = Settled(ToJson(b))
<1> DEFINE p == b.protocol
           s == b.settings
           st == b.stream
           j == ToJson(b)
           t == FromSettings(p, ToSettings(p, s))
           c == FromJson(j)
<1>1. Complete(s, SettingsDefault(p)) /\ Complete(st, StreamDefault) /\ b.mux \in BOOLEAN
    BY DEF IsObject, Outbound, Shown
<1>2. j.tag = b.tag /\ j.protocol = p /\ j.settings = ToSettings(p, s) /\ j.mux = b.mux
    BY DEF ToJson
<1>3. Outbound(j) /\ DOMAIN j = {"tag", "protocol", "settings", "stream", "mux"}
    BY ToJsonIs DEF Shown, IsJson, Outbound, ToJson
<1>4. /\ ToSettings(p, t) = IF BlankVless(j) THEN NoFields ELSE SettledSettings(p, j.settings)
      /\ Set(Value(t, "flow")) => Set(Value(s, "flow"))
    <2>1. "server" \in DOMAIN j.settings => j.settings["server"] = s["server"]
        <3> DEFINE A == Dropped(p, s)
        <3>1. \A f \in DOMAIN Present(s, A) : Present(s, A)[f] = s[f]
            <4> HIDE DEF A
            <4> QED BY PresentIs
        <3> HIDE DEF j
        <3> QED BY <1>2, <3>1 DEF ToSettings
    <2>2. CASE p = "vless" /\ ~Set(s.server)
        <3>1. ~Set(Value(j.settings, "server"))
            BY <2>1, <2>2 DEF Value, Set
        <3>2. BlankVless(j)
            BY <1>2, <2>2, <3>1 DEF BlankVless
        <3>3. Filled(SettingsDefault(p), j.settings).server = Value(j.settings, "server")
            BY <2>2 DEF Filled, SettingsDefault, Value
        <3>4. t = SettingsDefault(p)
            BY <1>2, <2>2, <3>1, <3>3 DEF FromSettings
        <3>5. ToSettings(p, t) = NoFields
            BY <2>2, <3>4 DEF ToSettings, SettingsDefault, Dropped, Present, Restrict, NoFields, Set, Undef
        <3>6. ~Set(Value(t, "flow"))
            BY <2>2, <3>4 DEF SettingsDefault, Value, Set
        <3> QED BY <3>2, <3>5, <3>6
    <2>3. CASE p = "vless" => Set(s.server)
        <3>1. /\ ToSettings(p, t) = SettledSettings(p, ToSettings(p, s))
              /\ Set(Value(t, "flow")) => Set(Value(s, "flow"))
            BY <1>1, <2>3, SettingsAgain
        <3>2. ~BlankVless(j)
            <4> SUFFICES ASSUME p = "vless" PROVE Set(Value(j.settings, "server"))
                BY <1>2 DEF BlankVless
            <4>1. "server" \in DOMAIN s /\ s["server"] # Undef /\ "server" \notin Dropped(p, s)
                BY <1>1, <2>3 DEF Complete, SettingsDefault, Dropped, Set
            <4>2. "server" \in DOMAIN j.settings
                <5> DEFINE A == Dropped(p, s)
                <5>1. DOMAIN Present(s, A) = {f \in DOMAIN s : s[f] # Undef} \ A
                    <6> HIDE DEF A
                    <6> QED BY PresentIs
                <5> HIDE DEF j
                <5> QED BY <1>2, <4>1, <5>1 DEF ToSettings
            <4> QED BY <2>1, <2>3, <4>2 DEF Value
        <3> QED BY <1>2, <3>1, <3>2
    <2> QED BY <2>2, <2>3
<1>5. c.tag = b.tag /\ c.protocol = p /\ c.settings = t /\ c.stream = FromStream(j.stream) /\ c.mux = b.mux
    BY <1>2 DEF FromJson
<1>6. /\ (CanEnableStream(c) <=> CanEnableStream(b))
      /\ c = [tag |-> c.tag, protocol |-> c.protocol, settings |-> c.settings, stream |-> c.stream, mux |-> c.mux]
    BY <1>2, <1>5 DEF CanEnableStream, FromJson
<1>7. /\ c.stream.network = IF CanEnableStream(b) THEN st.network ELSE "tcp"
      /\ ToJson(c).stream = SettledStream(j.stream)
    <2>1. CASE CanEnableStream(b)
        <3>1. j.stream = ToStream(st)
            BY <2>1 DEF ToJson
        <3>2. ToStream(c.stream) = SettledStream(j.stream) /\ c.stream.network = st.network
            BY <1>1, <1>5, <3>1, StreamAgain
        <3> QED BY <1>6, <2>1, <3>2 DEF ToJson
    <2>2. CASE ~CanEnableStream(b)
        <3>1. j.stream = Restrict(st, {f \in {"sockopt"} : Set(st[f])})
            BY <2>2 DEF ToJson
        <3>2. c.stream.network = "tcp"
            BY <1>5, <3>1 DEF FromStream, Filled, StreamDefault, Restrict
        <3>3. c.stream.sockopt = IF Set(st["sockopt"]) THEN st["sockopt"] ELSE Undef
            BY <1>5, <3>1 DEF FromStream, Filled, StreamDefault, Restrict
        <3>4. Restrict(c.stream, {f \in {"sockopt"} : Set(c.stream[f])}) = j.stream
            BY <3>1, <3>3 DEF Restrict, Set
        <3>5. SettledStream(j.stream) = j.stream
            BY <3>1 DEF SettledStream, Restrict
        <3> QED BY <1>6, <2>2, <3>2, <3>4, <3>5 DEF ToJson
    <2> QED BY <2>1, <2>2
<1>8. Render(c) = c
    <2>1. NoMux(c) => NoMux(b)
        BY <1>4, <1>5, <1>7 DEF NoMux
    <2>2. c.mux => ~NoMux(c)
        BY <1>5, <2>1 DEF Shown
    <2> HIDE DEF c
    <2> QED BY <1>1, <1>5, <1>6, <2>2 DEF Render
<1>9. ToJson(c) = Settled(j)
    <2>1. /\ ToJson(c).tag = j.tag /\ ToJson(c).protocol = p /\ ToJson(c).mux = j.mux
          /\ ToJson(c).settings = ToSettings(p, t)
          /\ ToJson(c) = [tag |-> ToJson(c).tag, protocol |-> ToJson(c).protocol,
                           settings |-> ToJson(c).settings, stream |-> ToJson(c).stream,
                           mux |-> ToJson(c).mux]
        BY <1>2, <1>5 DEF ToJson
    <2> HIDE DEF j, c, t
    <2> QED BY <1>2, <1>3, <1>4, <1>7, <2>1 DEF Settled, Outbound
<1> QED BY <1>8, <1>9 DEF Reopened

\* One field of an object is changed.
LEMMA PutIs ==
    ASSUME NEW b, IsObject(b), NEW v
    PROVE  /\ IsObject([b EXCEPT !.tag = v]) /\ IsObject([b EXCEPT !.mux = ~@])
           /\ \A f \in DOMAIN StreamDefault :
                (v = Undef => StreamDefault[f] = Undef) => IsObject([b EXCEPT !.stream[f] = v])
           /\ \A f \in DOMAIN SettingsDefault(b.protocol) :
                (v = Undef => SettingsDefault(b.protocol)[f] = Undef) => IsObject([b EXCEPT !.settings[f] = v])
<1> DEFINE d == SettingsDefault(b.protocol)
<1>1. Complete(b.settings, d) /\ Complete(b.stream, StreamDefault) /\ Outbound(b)
    BY DEF IsObject
<1>2. \A f \in DOMAIN d : (v = Undef => d[f] = Undef) => Complete([b.settings EXCEPT ![f] = v], d)
    <2> HIDE DEF d
    <2> QED BY <1>1 DEF Complete
<1>3. \A f \in DOMAIN StreamDefault :
        (v = Undef => StreamDefault[f] = Undef) => Complete([b.stream EXCEPT ![f] = v], StreamDefault)
    BY <1>1 DEF Complete
<1>4. \A f \in DOMAIN StreamDefault :
        (v = Undef => StreamDefault[f] = Undef) => IsObject([b EXCEPT !.stream[f] = v])
    BY <1>1, <1>3 DEF IsObject, Outbound
<1>5. \A f \in DOMAIN d : (v = Undef => d[f] = Undef) => IsObject([b EXCEPT !.settings[f] = v])
    BY <1>1, <1>2 DEF IsObject, Outbound
<1> QED BY <1>1, <1>4, <1>5 DEF IsObject, Outbound

\* One field of an outbound of a list is changed, if it is there.
LEMMA PutJson ==
    ASSUME NEW j, IsJson(j), NEW f, NEW v, v # Undef
    PROVE  IsJson([j EXCEPT !.stream[f] = v]) /\ IsJson([j EXCEPT !.settings[f] = v])
<1>1. Given([j.stream EXCEPT ![f] = v]) /\ Given([j.settings EXCEPT ![f] = v])
    BY DEF Given, IsJson
<1> QED BY <1>1 DEF IsJson, Outbound

LEMMA TagJson ==
    ASSUME NEW j, IsJson(j), NEW v
    PROVE  IsJson([j EXCEPT !.tag = v])
BY DEF IsJson, Outbound

-----------------------------------------------------------------------------
(***************************************************************************)
(* Lists                                                                   *)
(***************************************************************************)
IsList(l) == l \in Seq(ToSet(l)) /\ \A i \in DOMAIN l : IsJson(l[i])

LEMMA SeqIs ==
    ASSUME NEW S, NEW l \in Seq(S)
    PROVE  /\ Len(l) \in Nat /\ DOMAIN l = 1..Len(l) /\ l \in Seq(ToSet(l))
           /\ l = [i \in 1..Len(l) |-> l[i]]
<1>1. Len(l) \in Nat /\ DOMAIN l = 1..Len(l) /\ l = [i \in 1..Len(l) |-> l[i]]
    BY LenProperties
<1>2. \A i \in 1..Len(l) : l[i] \in ToSet(l)
    BY <1>1 DEF ToSet
<1> QED BY <1>1, <1>2, SeqDef

LEMMA ListIs ==
    ASSUME NEW l, IsList(l)
    PROVE  /\ Len(l) \in Nat /\ DOMAIN l = 1..Len(l)
           /\ l = [i \in 1..Len(l) |-> l[i]]
BY SeqIs DEF IsList

LEMMA AppendIs ==
    ASSUME NEW S, NEW l \in Seq(S), NEW x
    PROVE  /\ Append(l, x) \in Seq(S \cup {x}) /\ Len(Append(l, x)) = Len(l) + 1
           /\ \A i \in 1..(Len(l) + 1) : Append(l, x)[i] = IF i = Len(l) + 1 THEN x ELSE l[i]
<1>1. l \in Seq(S \cup {x}) /\ Len(l) \in Nat
    BY LenProperties, SeqMonotonic
<1> QED BY <1>1, AppendProperties

LEMMA RemoveIs ==
    ASSUME NEW S, NEW l \in Seq(S), NEW i \in 1..Len(l)
    PROVE  /\ RemoveAt(l, i) \in Seq(S) /\ Len(RemoveAt(l, i)) = Len(l) - 1
           /\ \A k \in 1..(Len(l) - 1) : RemoveAt(l, i)[k] = IF k < i THEN l[k] ELSE l[k + 1]
<1> DEFINE n == Len(l)
           a == SubSeq(l, 1, i - 1)
           b == SubSeq(l, i + 1, n)
<1>1. n \in Nat /\ i \in Nat /\ \A k \in 1..n : l[k] \in S
    BY LenProperties, ElementOfSeq
<1>2. a \in Seq(S) /\ Len(a) = i - 1 /\ \A k \in 1..(i - 1) : a[k] = l[k]
    <2>1. \A k \in 1..(i - 1) : l[k] \in S
        BY <1>1
    <2>2. /\ a \in Seq(S) /\ Len(a) = (IF 1 <= i - 1 THEN (i - 1) - 1 + 1 ELSE 0)
          /\ \A k \in 1..((i - 1) - 1 + 1) : a[k] = l[1 + k - 1]
        BY <1>1, <2>1, SubSeqProperties
    <2> HIDE DEF a
    <2> QED BY <1>1, <2>2
<1>3. b \in Seq(S) /\ Len(b) = n - i /\ \A k \in 1..(n - i) : b[k] = l[i + k]
    <2>1. \A k \in (i + 1)..n : l[k] \in S
        BY <1>1
    <2>2. /\ b \in Seq(S) /\ Len(b) = (IF i + 1 <= n THEN n - (i + 1) + 1 ELSE 0)
          /\ \A k \in 1..(n - (i + 1) + 1) : b[k] = l[(i + 1) + k - 1]
        BY <1>1, <2>1, SubSeqProperties
    <2> HIDE DEF b
    <2> QED BY <1>1, <2>2
<1>4. RemoveAt(l, i) = a \o b
    BY DEF RemoveAt
<1> HIDE DEF a, b
<1>5. /\ a \o b \in Seq(S) /\ Len(a \o b) = Len(a) + Len(b)
      /\ \A k \in 1..(Len(a) + Len(b)) : (a \o b)[k] = IF k <= Len(a) THEN a[k] ELSE b[k - Len(a)]
    BY <1>2, <1>3, ConcatProperties
<1>6. ASSUME NEW k \in 1..(n - 1)
      PROVE  (a \o b)[k] = IF k < i THEN l[k] ELSE l[k + 1]
    <2>1. CASE k < i
        BY <1>1, <1>2, <1>3, <1>5, <2>1
    <2>2. CASE ~(k < i)
        <3>1. k - Len(a) \in 1..(n - i) /\ i + (k - Len(a)) = k + 1 /\ ~(k <= Len(a))
            BY <1>1, <1>2, <2>2
        <3>2. (a \o b)[k] = b[k - Len(a)]
            BY <1>1, <1>2, <1>3, <1>5, <3>1
        <3> QED BY <1>3, <2>2, <3>1, <3>2
    <2> QED BY <2>1, <2>2
<1> QED BY <1>1, <1>2, <1>3, <1>4, <1>5, <1>6

LEMMA FirstIs ==
    ASSUME NEW S, NEW l \in Seq(S), NEW x \in S
    PROVE  /\ <<x>> \o l \in Seq(S) /\ Len(<<x>> \o l) = Len(l) + 1
           /\ \A k \in 1..(Len(l) + 1) : (<<x>> \o l)[k] = IF k = 1 THEN x ELSE l[k - 1]
<1>1. <<x>> \in Seq(S) /\ Len(<<x>>) = 1 /\ <<x>>[1] = x
    OBVIOUS
<1>2. Len(l) \in Nat
    BY LenProperties
<1> DEFINE y == <<x>>
<1> HIDE DEF y
<1>3. /\ y \o l \in Seq(S) /\ Len(y \o l) = Len(y) + Len(l)
      /\ \A k \in 1..(Len(y) + Len(l)) : (y \o l)[k] = IF k <= Len(y) THEN y[k] ELSE l[k - Len(y)]
    BY <1>1, ConcatProperties DEF y
<1> QED BY <1>1, <1>2, <1>3 DEF y

\* What OK makes of the list: the outbound at one place, the entries elsewhere.
Saved(l, x) == IF index = 0 THEN Append(l, x) ELSE [l EXCEPT ![index] = x]
Place(l) == IF index = 0 THEN Len(l) ELSE index

LEMMA SavedIs ==
    ASSUME NEW l, IsList(l), NEW x, IsJson(x), index \in 0..Len(l)
    PROVE  /\ IsList(Saved(l, x)) /\ Place(Saved(l, x)) \in DOMAIN Saved(l, x)
           /\ Saved(l, x)[Place(Saved(l, x))] = x
           /\ \A i \in DOMAIN Saved(l, x) : i # Place(Saved(l, x)) =>
                i \in DOMAIN l \ {index} /\ Saved(l, x)[i] = l[i]
<1> DEFINE m == Saved(l, x)
           S == ToSet(l)
<1>1. l \in Seq(S) /\ Len(l) \in Nat /\ DOMAIN l = 1..Len(l) /\ \A i \in 1..Len(l) : IsJson(l[i])
    BY ListIs DEF IsList
<1>2. CASE index = 0
    <2>1. m = Append(l, x)
        BY <1>2 DEF Saved
    <2>2. /\ m \in Seq(S \cup {x}) /\ Len(m) = Len(l) + 1
          /\ \A i \in 1..(Len(l) + 1) : m[i] = IF i = Len(l) + 1 THEN x ELSE l[i]
        BY <1>1, <2>1, AppendIs
    <2>3. DOMAIN m = 1..(Len(l) + 1) /\ m \in Seq(ToSet(m))
        BY <2>2, SeqIs
    <2>4. IsList(m)
        BY <1>1, <2>2, <2>3 DEF IsList
    <2> HIDE DEF m
    <2> QED BY <1>1, <1>2, <2>2, <2>3, <2>4 DEF Place, m
<1>3. CASE index # 0
    <2>1. m = [l EXCEPT ![index] = x] /\ index \in 1..Len(l)
        BY <1>1, <1>3 DEF Saved
    <2>2. l \in Seq(S \cup {x})
        BY <1>1, SeqMonotonic
    <2>3. /\ m \in Seq(S \cup {x}) /\ Len(m) = Len(l)
          /\ \A i \in 1..Len(l) : m[i] = IF i = index THEN x ELSE l[i]
        BY <2>1, <2>2, ExceptSeq
    <2>4. DOMAIN m = 1..Len(l) /\ m \in Seq(ToSet(m))
        BY <2>3, SeqIs
    <2>5. IsList(m)
        BY <1>1, <2>3, <2>4 DEF IsList
    <2> HIDE DEF m
    <2> QED BY <1>1, <1>3, <2>1, <2>3, <2>4, <2>5 DEF Place, m
<1> QED BY <1>2, <1>3

\* A list made of different entries of another.
Drawn(m, l) == \E h \in [DOMAIN m -> DOMAIN l] :
                  /\ \A i, k \in DOMAIN m : i # k => h[i] # h[k]
                  /\ \A i \in DOMAIN m : m[i] = l[h[i]]

LEMMA DrawnIs ==
    ASSUME NEW l, IsList(l), NEW i \in DOMAIN l
    PROVE  /\ IsList(RemoveAt(l, i)) /\ Drawn(RemoveAt(l, i), l)
           /\ IsList(<<l[i]>> \o RemoveAt(l, i)) /\ Drawn(<<l[i]>> \o RemoveAt(l, i), l)
<1> DEFINE S == ToSet(l)
           n == Len(l)
           r == RemoveAt(l, i)
           m == <<l[i]>> \o r
<1>1. l \in Seq(S) /\ n \in Nat /\ DOMAIN l = 1..n /\ i \in 1..n /\ \A k \in 1..n : IsJson(l[k])
    BY ListIs DEF IsList
<1>2. r \in Seq(S) /\ Len(r) = n - 1 /\ \A k \in 1..(n - 1) : r[k] = IF k < i THEN l[k] ELSE l[k + 1]
    BY <1>1, RemoveIs
<1>3. l[i] \in S
    BY DEF ToSet
<1>4. m \in Seq(S) /\ Len(m) = n /\ \A k \in 1..n : m[k] = IF k = 1 THEN l[i] ELSE r[k - 1]
    <2> HIDE DEF r, n
    <2> QED BY <1>1, <1>2, <1>3, FirstIs
<1>5. DOMAIN r = 1..(n - 1) /\ r \in Seq(ToSet(r)) /\ DOMAIN m = 1..n /\ m \in Seq(ToSet(m))
    BY <1>2, <1>4, SeqIs
<1> HIDE DEF r, m, n, S
<1>6. IsList(r) /\ Drawn(r, l)
    <2> DEFINE h == [k \in 1..(n - 1) |-> IF k < i THEN k ELSE k + 1]
    <2>1. /\ h \in [DOMAIN r -> DOMAIN l]
          /\ \A j, k \in DOMAIN r : j # k => h[j] # h[k]
          /\ \A k \in DOMAIN r : r[k] = l[h[k]]
        BY <1>1, <1>2, <1>5
    <2> HIDE DEF h
    <2> QED BY <1>1, <1>5, <2>1 DEF IsList, Drawn
<1>7. IsList(m) /\ Drawn(m, l)
    <2> DEFINE h == [k \in 1..n |-> IF k = 1 THEN i ELSE IF k - 1 < i THEN k - 1 ELSE k]
    <2>1. ASSUME NEW k \in 1..n
          PROVE  h[k] \in 1..n /\ m[k] = l[h[k]]
        <3>1. CASE k = 1
            BY <1>1, <1>4, <3>1
        <3>2. CASE k # 1
            <4>1. k - 1 \in 1..(n - 1) /\ (k - 1) + 1 = k /\ m[k] = r[k - 1]
                BY <1>1, <1>4, <3>2
            <4> QED BY <1>1, <1>2, <3>2, <4>1
        <3> QED BY <3>1, <3>2
    <2>2. /\ h \in [DOMAIN m -> DOMAIN l]
          /\ \A j, k \in DOMAIN m : j # k => h[j] # h[k]
        BY <1>1, <1>5
    <2>3. \A k \in DOMAIN m : m[k] = l[h[k]]
        BY <1>5, <2>1
    <2> HIDE DEF h
    <2> QED BY <1>1, <1>5, <2>2, <2>3 DEF IsList, Drawn
<1> QED BY <1>6, <1>7 DEF m, r

-----------------------------------------------------------------------------
(***************************************************************************)
(* Types                                                                   *)
(***************************************************************************)
AliasType == alias \in [entry : Nat, fields : SUBSET SharedFields]
EditorType == /\ cm = [open |-> cm.open, text |-> cm.text] /\ cm.open \in BOOLEAN
              /\ \A j \in cm.text : IsJson(j)
ListType == IsList(list) /\ IsList(parsed) /\ \A j \in last : IsJson(j)
ModalType == /\ visible \in BOOLEAN /\ isValid \in BOOLEAN /\ kept \in BOOLEAN /\ waiting \in BOOLEAN
             /\ index \in Nat /\ (visible => index \in 0..Len(parsed))
             /\ tab \in {"form", "json"} /\ loader \in {"idle", "loading", "ready", "failed"}
             /\ edits \in Nat /\ uses \in Nat
\* Outbounds are well formed wherever they are: in the text, the parsed copy, the form
\* and the editor; and the form shares none but the fields known to be shared.
FormType == ListType /\ Shown(o) /\ AliasType /\ EditorType /\ ModalType

LEMMA StripPut ==
    ASSUME NEW j, IsJson(j), NEW f \in SharedFields, NEW v
    PROVE  /\ Strip([j EXCEPT !.settings[f] = v]) = Strip(j)
           /\ Strip([j EXCEPT !.stream[f] = v]) = Strip(j)
<1>1. ASSUME NEW s, Given(s)
      PROVE  Restrict([s EXCEPT ![f] = v], DOMAIN s \ SharedFields) = Restrict(s, DOMAIN s \ SharedFields)
    BY <1>1 DEF Restrict, Given
<1>2. /\ Restrict([j.settings EXCEPT ![f] = v], DOMAIN j.settings \ SharedFields)
           = Restrict(j.settings, DOMAIN j.settings \ SharedFields)
      /\ Restrict([j.stream EXCEPT ![f] = v], DOMAIN j.stream \ SharedFields)
           = Restrict(j.stream, DOMAIN j.stream \ SharedFields)
    BY <1>1 DEF IsJson
<1> QED BY <1>2 DEF Strip, IsJson, Outbound

LEMMA LeakedIs ==
    ASSUME ListType, AliasType, NEW part \in {"settings", "stream"}, NEW f, NEW v, v # Undef
    PROVE  /\ IsList(Leaked(part, f, v)) /\ DOMAIN Leaked(part, f, v) = DOMAIN parsed
           /\ Len(Leaked(part, f, v)) = Len(parsed)
           /\ \A i \in DOMAIN parsed : /\ Leaked(part, f, v)[i].tag = parsed[i].tag
                                       /\ Strip(Leaked(part, f, v)[i]) = Strip(parsed[i])
<1> DEFINE e == alias.entry
           x == [parsed[e] EXCEPT ![part][f] = v]
           m == Leaked(part, f, v)
<1>1. /\ Len(parsed) \in Nat /\ DOMAIN parsed = 1..Len(parsed) /\ parsed \in Seq(ToSet(parsed))
      /\ \A i \in DOMAIN parsed : IsJson(parsed[i])
    BY ListIs DEF ListType, IsList
<1>2. CASE f \notin alias.fields
    BY <1>2 DEF Leaked, ListType
<1>3. CASE f \in alias.fields /\ e \notin DOMAIN parsed
    <2>1. m = parsed
        BY <1>1, <1>3, SeqIs DEF Leaked
    <2> QED BY <2>1 DEF ListType
<1>4. CASE f \in alias.fields /\ e \in DOMAIN parsed
    <2>1. m = [parsed EXCEPT ![e] = x]
        BY <1>4 DEF Leaked
    <2>2. f \in SharedFields /\ IsJson(parsed[e])
        BY <1>1, <1>4 DEF AliasType
    <2>3. IsJson(x) /\ Strip(x) = Strip(parsed[e]) /\ x.tag = parsed[e].tag
        <3>1. IsJson([parsed[e] EXCEPT !.settings[f] = v]) /\ IsJson([parsed[e] EXCEPT !.stream[f] = v])
            BY <2>2, PutJson
        <3>2. Strip([parsed[e] EXCEPT !.settings[f] = v]) = Strip(parsed[e])
              /\ Strip([parsed[e] EXCEPT !.stream[f] = v]) = Strip(parsed[e])
            BY <2>2, StripPut
        <3>3. x.tag = parsed[e].tag
            BY <2>2 DEF IsJson, Outbound
        <3> QED BY <3>1, <3>2, <3>3
    <2> HIDE DEF x, m, e
    <2>4. /\ m \in Seq(ToSet(parsed) \cup {x}) /\ Len(m) = Len(parsed)
          /\ \A i \in 1..Len(parsed) : m[i] = IF i = e THEN x ELSE parsed[i]
        <3>1. parsed \in Seq(ToSet(parsed) \cup {x})
            BY <1>1, SeqMonotonic
        <3> QED BY <1>1, <1>4, <2>1, <3>1, ExceptSeq DEF e
    <2>5. DOMAIN m = 1..Len(parsed) /\ m \in Seq(ToSet(m))
        BY <2>4, SeqIs
    <2>6. IsList(m)
        BY <1>1, <2>3, <2>4, <2>5 DEF IsList
    <2> QED BY <1>1, <2>3, <2>4, <2>5, <2>6 DEF m
<1> QED BY <1>2, <1>3, <1>4

LEMMA TypeInit == Init => FormType
<1> SUFFICES ASSUME Init PROVE FormType
    OBVIOUS
<1>1. IsList(list) /\ parsed = list
    BY ListsAssumption DEF Init, IsList
<1>2. Shown(o)
    BY NewIs DEF Init
<1>3. AliasType
    BY DEF Init, AliasType, NoAlias
<1>4. EditorType
    BY DEF Init, EditorType, NoEditor
<1> QED BY <1>1, <1>2, <1>3, <1>4 DEF Init, FormType, ListType, ModalType

LEMMA EditorIs ==
    ASSUME IsObject(o), OpenEditor
    PROVE  EditorType' /\ tab' = "json"
<1>1. IsJson(ToJson(o))
    BY ToJsonIs
<1> QED BY <1>1 DEF OpenEditor, Editor, EditorType

LEMMA ShowType ==
    ASSUME FormType, NEW i \in {0} \union DOMAIN parsed, Show(i)
    PROVE  FormType'
<1> DEFINE b == IF i = 0 THEN NewOutbound("vless") ELSE Render(FromJson(parsed[i]))
<1>1. i \in 0..Len(parsed) /\ Len(parsed) \in Nat /\ (i > 0 => IsJson(parsed[i]))
    BY ListIs DEF FormType, ListType, IsList
<1>2. Shown(b)
    BY <1>1, NewIs, FromJsonIs, RenderIs
<1>3. AliasOf(i) \in [entry : Nat, fields : SUBSET SharedFields]
    BY <1>1 DEF AliasOf
<1>4. Shown(o') /\ AliasType'
    <2>1. (o' = o /\ alias' = alias) \/ (o' = b /\ alias' \in {NoAlias, AliasOf(i)})
        BY DEF Show
    <2> HIDE DEF b
    <2> QED BY <1>2, <1>3, <2>1 DEF FormType, AliasType, NoAlias
<1>5. ListType' /\ EditorType'
    BY DEF Show, page, FormType, ListType, EditorType
<1>6. isValid' \in BOOLEAN
    BY DEF Show, Check, FormType, ModalType
<1>7. /\ visible' = TRUE /\ index' = i /\ tab' = "form" /\ parsed' = parsed
      /\ kept' \in BOOLEAN /\ waiting' = waiting /\ loader' = loader /\ edits' = edits /\ uses' = uses + 1
    BY DEF Show, Use, page, FormType, ModalType
<1>8. ModalType'
    BY <1>1, <1>6, <1>7 DEF FormType, ModalType
<1> QED BY <1>4, <1>5, <1>8 DEF FormType

LEMMA OkType ==
    ASSUME FormType, Ok
    PROVE  FormType' /\ list' = Saved(parsed, ToJson(o)) /\ parsed' = list'
<1>1. IsJson(ToJson(o)) /\ index \in 0..Len(parsed) /\ IsList(parsed)
    BY ToJsonIs DEF Ok, FormType, ModalType, ListType, Shown
<1>2. list' = Saved(parsed, ToJson(o)) /\ parsed' = list'
    BY DEF Ok, Store, Saved
<1>3. IsList(Saved(parsed, ToJson(o)))
    BY <1>1, SavedIs
<1>4. ListType'
    BY <1>1, <1>2, <1>3 DEF Ok, ListType
<1>5. o' = o /\ AliasType' /\ EditorType' /\ ModalType'
    BY DEF Ok, Store, FormType, AliasType, NoAlias, EditorType, ModalType
<1> QED BY <1>2, <1>4, <1>5 DEF FormType

LEMMA MoveType ==
    ASSUME FormType, NEW i \in DOMAIN parsed, DeleteOutbound(i) \/ SetFirstOutbound(i)
    PROVE  FormType' /\ Drawn(list', parsed) /\ parsed' = list'
<1>1. IsList(list') /\ Drawn(list', parsed) /\ parsed' = list'
    BY DrawnIs DEF DeleteOutbound, SetFirstOutbound, Store, FormType, ListType
<1>2. ListType'
    BY <1>1 DEF DeleteOutbound, SetFirstOutbound, FormType, ListType
<1>3. o' = o /\ AliasType' /\ EditorType' /\ ModalType'
    BY DEF DeleteOutbound, SetFirstOutbound, Store, Use, FormType, AliasType, NoAlias, EditorType, ModalType
<1> QED BY <1>1, <1>2, <1>3 DEF FormType

\* A change of the form, once its outbound is known to be one.
LEMMA ChangeType ==
    ASSUME FormType, NEW b, IsObject(b), NEW a \in {alias, NoAlias}, Change(b, a),
           IsList(parsed'), Len(parsed') = Len(parsed), isValid' \in BOOLEAN
    PROVE  FormType'
<1>1. Shown(o')
    BY RenderIs DEF Change
<1>2. AliasType'
    BY DEF Change, FormType, AliasType, NoAlias
<1>3. ListType' /\ EditorType'
    BY DEF Change, FormType, ListType, EditorType
<1>4. ModalType'
    BY DEF Change, modal, Edit, FormType, ModalType
<1> QED BY <1>1, <1>2, <1>3, <1>4 DEF FormType

LEMMA SetNetworkIs ==
    ASSUME IsObject(o), NEW n \in Transports
    PROVE  /\ IsObject([o EXCEPT !.stream.network = n])
           /\ o.protocol = "vless" =>
                IsObject([[o EXCEPT !.stream.network = n] EXCEPT !.settings.flow = Undef])
<1> DEFINE b == [o EXCEPT !.stream.network = n]
<1>1. n # Undef /\ "network" \in DOMAIN StreamDefault
    BY DEF Transports, Undef, StreamDefault
<1>2. IsObject(b)
    BY <1>1, PutIs
<1>3. b.protocol = o.protocol
    BY DEF IsObject, Outbound
<1>4. o.protocol = "vless" => "flow" \in DOMAIN SettingsDefault(o.protocol)
                              /\ SettingsDefault(o.protocol)["flow"] = Undef
    BY DEF SettingsDefault
<1>5. o.protocol = "vless" => IsObject([b EXCEPT !.settings["flow"] = Undef])
    <2> HIDE DEF b
    <2> QED BY <1>2, <1>3, <1>4, PutIs
<1> QED BY <1>2, <1>5

LEMMA SetFieldIs ==
    ASSUME IsObject(o), NEW part \in {"settings", "stream"}, NEW f, NEW v \in Inputs(f), SetField(part, f, v)
    PROVE  /\ IsObject([o EXCEPT ![part][f] = v])
           /\ f \in SharedFields => v # Undef
<1>1. f \in SharedFields => v # Undef
    BY DEF SharedFields, Inputs, Undef
<1>2. CASE part = "stream"
    <2>1. f \in StreamShown(o)
        BY <1>2 DEF SetField
    <2>2. f \in DOMAIN StreamDefault
        BY <2>1 DEF StreamShown, StreamDefault, Transports
    <2>3. v = Undef => StreamDefault[f] = Undef
        BY DEF Inputs, Undef, StreamDefault
    <2> QED BY <1>1, <1>2, <2>2, <2>3, PutIs
<1>3. CASE part = "settings"
    <2>1. f \in DOMAIN o.settings
        BY <1>3 DEF SetField, SettingsShown
    <2>2. f \in DOMAIN SettingsDefault(o.protocol)
        BY <2>1 DEF IsObject, Complete
    <2>3. f \notin {"quicParams", "sockopt"}
        BY <2>2 DEF SettingsDefault
    <2>4. v # Undef
        BY <2>3 DEF Inputs, Undef
    <2> QED BY <1>1, <1>3, <2>2, <2>4, PutIs
<1> QED BY <1>2, <1>3

LEMMA FormStepType ==
    ASSUME FormType, EditForm
    PROVE  FormType'
<1>1. IsObject(o) /\ ListType /\ AliasType /\ IsList(parsed) /\ isValid \in BOOLEAN
    BY DEF FormType, ListType, ModalType, Shown
<1>2. ASSUME NEW t, SetTag(t) PROVE FormType'
    <2>1. IsObject([o EXCEPT !.tag = t])
        BY <1>1, PutIs
    <2>2. isValid' \in BOOLEAN /\ parsed' = parsed /\ Change([o EXCEPT !.tag = t], alias)
        BY <1>2 DEF SetTag, Check
    <2> QED BY <1>1, <2>1, <2>2, ChangeType
<1>3. ASSUME NEW p, SetProtocol(p) PROVE FormType'
    <2> DEFINE b == [o EXCEPT !.protocol = p, !.settings = SettingsDefault(p), !.stream = StreamDefault]
    <2>1. IsObject(b)
        <3>1. Outbound(b) /\ b.protocol = p /\ b.settings = SettingsDefault(p) /\ b.stream = StreamDefault
            <4> DEFINE r == [tag |-> o.tag, protocol |-> p, settings |-> SettingsDefault(p),
                             stream |-> StreamDefault, mux |-> o.mux]
            <4>1. DOMAIN o = {"tag", "protocol", "settings", "stream", "mux"} /\ o.mux \in BOOLEAN
                BY <1>1 DEF IsObject, Outbound
            <4>2. DOMAIN b = DOMAIN o /\ \A f \in DOMAIN o : b[f] = r[f]
                BY <4>1
            <4>3. b = r
                BY <4>1, <4>2
            <4> QED BY <4>1, <4>3 DEF Outbound
        <3> HIDE DEF b
        <3> QED BY <3>1, DefaultIs, StreamDefaultIs DEF IsObject
    <2>2. isValid' = isValid /\ parsed' = parsed /\ Change(b, NoAlias)
        BY <1>3 DEF SetProtocol
    <2> HIDE DEF b
    <2> QED BY <1>1, <2>1, <2>2, ChangeType
<1>4. ASSUME NEW n \in Transports, SetNetwork(n) PROVE FormType'
    <2> DEFINE b == [o EXCEPT !.stream.network = n]
               c == IF o.protocol = "vless" /\ ~CanEnableTlsFlow(b)
                    THEN [b EXCEPT !.settings.flow = Undef] ELSE b
    <2>1. IsObject(c)
        BY <1>1, SetNetworkIs
    <2>2. isValid' = isValid /\ parsed' = parsed /\ Change(c, alias)
        BY <1>4 DEF SetNetwork
    <2> HIDE DEF c
    <2> QED BY <1>1, <2>1, <2>2, ChangeType
<1>5. ASSUME NEW s \in {"none", "tls", "reality"}, SetSecurity(s) PROVE FormType'
    <2>1. s # Undef /\ "security" \in DOMAIN StreamDefault
        BY DEF Undef, StreamDefault
    <2>2. IsObject([o EXCEPT !.stream.security = s])
        BY <1>1, <2>1, PutIs
    <2>3. isValid' = isValid /\ parsed' = parsed /\ Change([o EXCEPT !.stream.security = s], alias)
        BY <1>5 DEF SetSecurity
    <2> QED BY <1>1, <2>2, <2>3, ChangeType
<1>6. CASE SetMux
    <2>1. IsObject([o EXCEPT !.mux = ~@])
        BY <1>1, PutIs
    <2>2. isValid' = isValid /\ parsed' = parsed /\ Change([o EXCEPT !.mux = ~@], alias)
        BY <1>6 DEF SetMux
    <2> QED BY <1>1, <2>1, <2>2, ChangeType
<1>7. ASSUME NEW part \in {"settings", "stream"}, NEW f, NEW v \in Inputs(f), SetField(part, f, v)
      PROVE  FormType'
    <2>1. IsObject([o EXCEPT ![part][f] = v]) /\ (f \in SharedFields => v # Undef)
        BY <1>1, <1>7, SetFieldIs
    <2>2. IsList(parsed') /\ Len(parsed') = Len(parsed)
        <3>1. CASE parsed' = parsed
            BY <1>1, <3>1
        <3>2. CASE parsed' = Leaked(part, f, v)
            <4>1. CASE f \in alias.fields
                BY <1>1, <2>1, <3>2, <4>1, LeakedIs DEF AliasType
            <4>2. CASE f \notin alias.fields
                BY <1>1, <3>2, <4>2 DEF Leaked
            <4> QED BY <4>1, <4>2
        <3> QED BY <1>7, <3>1, <3>2 DEF SetField
    <2>3. isValid' = isValid /\ Change([o EXCEPT ![part][f] = v], alias)
        BY <1>7 DEF SetField
    <2> QED BY <1>1, <2>1, <2>2, <2>3, ChangeType
<1> QED BY <1>2, <1>3, <1>4, <1>5, <1>6, <1>7 DEF EditForm

LEMMA TabType ==
    ASSUME FormType, Cancel \/ ToJsonTab \/ Loaded \/ LoadFails \/ ToFormTab
    PROVE  FormType'
<1>1. ListType' /\ o' = o /\ AliasType'
    BY DEF Cancel, ToJsonTab, Loaded, LoadFails, ToFormTab, OpenEditor, page, FormType, ListType, AliasType
<1>2. EditorType'
    <2>1. OpenEditor \/ cm' = cm \/ cm' = NoEditor
        BY DEF Cancel, ToJsonTab, Loaded, LoadFails, ToFormTab
    <2>2. OpenEditor => EditorType'
        BY EditorIs DEF FormType, Shown
    <2>3. cm' = cm => EditorType'
        BY DEF FormType, EditorType
    <2>4. cm' = NoEditor => EditorType'
        BY DEF EditorType, NoEditor
    <2> QED BY <2>1, <2>2, <2>3, <2>4
<1>3. ModalType'
    <2>1. /\ parsed' = parsed /\ index' = index /\ kept' = kept /\ isValid' = isValid /\ edits' = edits
          /\ uses' = uses /\ (visible' = visible \/ visible' = FALSE)
        BY DEF Cancel, ToJsonTab, Loaded, LoadFails, ToFormTab, page, modal
    <2>2. tab' \in {"form", "json"}
        BY DEF Cancel, ToJsonTab, Loaded, LoadFails, ToFormTab, OpenEditor, FormType, ModalType
    <2>3. loader' \in {"idle", "loading", "ready", "failed"}
        BY DEF Cancel, ToJsonTab, Loaded, LoadFails, ToFormTab, FormType, ModalType
    <2>4. waiting' \in BOOLEAN
        BY DEF Cancel, ToJsonTab, Loaded, LoadFails, ToFormTab, FormType, ModalType
    <2>5. visible' \in BOOLEAN /\ (visible' => index' \in 0..Len(parsed'))
        <3>1. visible \in BOOLEAN /\ (visible => index \in 0..Len(parsed))
            BY DEF FormType, ModalType
        <3>2. CASE visible' = visible
            BY <2>1, <3>1, <3>2, Zenon
        <3>3. CASE visible' = FALSE
            BY <3>3
        <3> QED BY <2>1, <3>2, <3>3
    <2> QED BY <2>1, <2>2, <2>3, <2>4, <2>5 DEF FormType, ModalType
<1> QED BY <1>1, <1>2, <1>3 DEF FormType

LEMMA TypeText ==
    ASSUME FormType, NEW text, text = {} \/ (\E j : text = {j} /\ IsJson(j)), Type(text)
    PROVE  FormType'
<1>1. \A j \in text : IsJson(j)
    OBVIOUS
<1>2. Shown(o') /\ AliasType'
    <2>1. CASE \E j \in text : Readable(j)
        <3>1. PICK j \in text : o' = Render(FromJson(j))
            BY <2>1 DEF Type
        <3> QED BY <1>1, <2>1, <3>1, FromJsonIs, RenderIs DEF Type, AliasType, NoAlias
    <2>2. CASE ~\E j \in text : Readable(j)
        BY <2>2 DEF Type, FormType, AliasType
    <2> QED BY <2>1, <2>2
<1>3. ListType' /\ EditorType'
    BY <1>1 DEF Type, page, FormType, ListType, EditorType
<1>4. isValid' \in BOOLEAN
    BY DEF Type, Check, FormType, ModalType
<1>5. ModalType'
    BY <1>4 DEF Type, Edit, page, modal, FormType, ModalType
<1> QED BY <1>2, <1>3, <1>5 DEF FormType

LEMMA LinkType ==
    ASSUME FormType, NEW b \in Links, ConvertLink(b)
    PROVE  FormType'
<1>1. Shown(o') /\ IsJson(ToJson(o'))
    BY LinksAssumption, RenderIs, ToJsonIs DEF ConvertLink, Shown
<1>2. EditorType'
    BY <1>1 DEF ConvertLink, Editor, EditorType
<1>3. ListType' /\ AliasType'
    BY DEF ConvertLink, page, FormType, ListType, AliasType, NoAlias
<1>4. isValid' \in BOOLEAN
    BY DEF ConvertLink, Check
<1>5. ModalType'
    BY <1>4 DEF ConvertLink, Edit, page, modal, FormType, ModalType
<1> QED BY <1>1, <1>2, <1>3, <1>5 DEF FormType

\* What is typed is one of the texts, the text of the editor with another tag, or no JSON.
LEMMA TextIs ==
    ASSUME FormType, EditText
    PROVE  \/ \E text : Type(text) /\ (text = {} \/ \E j : text = {j} /\ IsJson(j))
           \/ \E b \in Links : ConvertLink(b)
<1>1. ASSUME NEW j \in Texts, Type({j}) PROVE \E k : {j} = {k} /\ IsJson(k)
    BY TextsAssumption
<1>2. ASSUME NEW j \in cm.text, NEW t \in Tags PROVE IsJson([j EXCEPT !.tag = t])
    BY TagJson DEF FormType, EditorType
<1> QED BY <1>1, <1>2 DEF EditText

LEMMA TypeStep == FormType /\ [Next]_vars => FormType'
<1> SUFFICES ASSUME FormType, [Next]_vars PROVE FormType'
    OBVIOUS
<1>1. CASE EditText
    BY <1>1, TextIs, TypeText, LinkType
<1>2. CASE UNCHANGED vars
    BY <1>2 DEF vars, FormType, ListType, AliasType, EditorType, ModalType
<1> QED BY <1>1, <1>2, ShowType, OkType, MoveType, FormStepType, TabType DEF Next

\* Outbounds are well formed wherever they are, whatever is done to them.
THEOREM TypeCorrect == Spec => []FormType
<1> QED BY TypeInit, TypeStep, PTL DEF Spec

-----------------------------------------------------------------------------
(***************************************************************************)
(* What is saved                                                           *)
(***************************************************************************)
LEMMA LastIs ==
    ASSUME [Next]_vars
    PROVE  last' = last \/ last' = {ToJson(o)}
<1>1. CASE EditForm
    BY <1>1 DEF EditForm, SetTag, SetProtocol, SetNetwork, SetSecurity, SetMux, SetField, Change
<1>2. CASE EditText
    BY <1>2 DEF EditText, Type, ConvertLink, page
<1>3. CASE Next /\ ~EditForm /\ ~EditText
    BY <1>3 DEF Next, Show, Cancel, Ok, DeleteOutbound, SetFirstOutbound, ToJsonTab, ToFormTab, Loaded,
                LoadFails, page
<1> QED BY <1>1, <1>2, <1>3 DEF vars

\* What the form saves can be opened again, and saving it untouched changes nothing:
\* toJson and fromJson are inverse on outbounds that have been rendered.
THEOREM WhatIsSavedReopens == Spec => []ReopenKeeps
<1>1. Init => FormType /\ ReopenKeeps
    BY TypeInit DEF Init, ReopenKeeps
<1>2. FormType /\ ReopenKeeps /\ [Next]_vars => (FormType /\ ReopenKeeps)'
    <2> SUFFICES ASSUME FormType, ReopenKeeps, [Next]_vars PROVE ReopenKeeps'
        BY TypeStep
    <2>1. Readable(ToJson(o)) /\ Reopened(ToJson(o)) = Settled(ToJson(o))
        BY WrittenIsReadable, ReopenedIs DEF FormType, Shown
    <2> QED BY <2>1, LastIs DEF ReopenKeeps
<1> QED BY <1>1, <1>2, PTL DEF Spec

LEMMA MuxAlone ==
    ASSUME NEW b, Shown(b), ToJson(b).mux
    PROVE  ~Set(Value(ToJson(b).settings, "flow")) /\ Value(ToJson(b).stream, "network") # "xhttp"
<1> DEFINE p == b.protocol
           s == b.settings
           A == Dropped(p, s)
           D == DOMAIN b.stream \ ({"network", "security"} \union Own(b.stream))
<1>1. ~Set(Value(s, "flow")) /\ b.stream.network # "xhttp"
    BY DEF Shown, ToJson, NoMux
<1>2. DOMAIN Present(s, A) = {f \in DOMAIN s : s[f] # Undef} \ A /\ \A f \in DOMAIN Present(s, A) : Present(s, A)[f] = s[f]
    <2> HIDE DEF s, A
    <2> QED BY PresentIs
<1>3. ~Set(Value(Present(s, A), "flow"))
    <2> HIDE DEF s, A
    <2> QED BY <1>1, <1>2 DEF Value, Set
<1>4. \A f \in DOMAIN Present(b.stream, D) : Present(b.stream, D)[f] = b.stream[f]
    <2> HIDE DEF D
    <2> QED BY PresentIs
<1>5. Value(ToStream(b.stream), "network") # "xhttp"
    <2>1. ToStream(b.stream) = Present(b.stream, D)
        BY DEF ToStream
    <2> HIDE DEF D
    <2> QED BY <1>1, <1>4, <2>1 DEF Value, Undef
<1>6. Value(Restrict(b.stream, {f \in {"sockopt"} : Set(b.stream[f])}), "network") # "xhttp"
    BY DEF Value, Undef, Restrict
<1> QED BY <1>3, <1>5, <1>6 DEF ToJson, ToSettings

\* No outbound is saved with mux beside a flow or XHTTP: whatever comes into the form is
\* rendered before it can be saved.
THEOREM MuxExcludes == Spec => []NoMuxWithFlow
<1>1. Init => FormType /\ NoMuxWithFlow
    BY TypeInit DEF Init, NoMuxWithFlow
<1>2. FormType /\ NoMuxWithFlow /\ [Next]_vars => (FormType /\ NoMuxWithFlow)'
    <2> SUFFICES ASSUME FormType, NoMuxWithFlow, [Next]_vars PROVE NoMuxWithFlow'
        BY TypeStep
    <2> QED BY MuxAlone, LastIs DEF NoMuxWithFlow, FormType
<1> QED BY <1>1, <1>2, PTL DEF Spec

-----------------------------------------------------------------------------
(***************************************************************************)
(* The JSON tab                                                            *)
(***************************************************************************)
\* The tab is in front only from the moment its text is made from the outbound, or
\* the outbound from the text.
THEOREM EditorIsCurrent == Spec => []EditorAgrees
<1>1. Init => FormType /\ EditorAgrees
    BY TypeInit DEF Init, EditorAgrees
<1>2. FormType /\ EditorAgrees /\ [Next]_vars => (FormType /\ EditorAgrees)'
    <2> SUFFICES ASSUME FormType, EditorAgrees, [Next]_vars PROVE EditorAgrees'
        BY TypeStep
    <2>1. CASE EditForm
        BY <2>1 DEF EditForm, SetTag, SetProtocol, SetNetwork, SetSecurity, SetMux, SetField, Change,
                    EditorAgrees
    <2>2. ASSUME NEW text, Type(text), text = {} \/ \E j : text = {j}
          PROVE  EditorAgrees'
        <3>1. cm'.open /\ cm'.text = text
            BY <2>2 DEF Type, FormType, EditorType
        <3>2. \A j \in text : Readable(j) => o' = Render(FromJson(j))
            BY <2>2 DEF Type
        <3> QED BY <3>1, <3>2 DEF EditorAgrees, Reopened
    <2>3. ASSUME NEW b, ConvertLink(b)
          PROVE  EditorAgrees'
        BY <2>3 DEF ConvertLink, Editor, EditorAgrees
    <2>4. CASE EditText
        BY <2>2, <2>3, <2>4 DEF EditText
    <2>5. CASE ToJsonTab \/ Loaded
        <3>1. CASE OpenEditor /\ o' = o
            BY <3>1 DEF OpenEditor, Editor, EditorAgrees
        <3>2. CASE tab' = "form"
            BY <3>2 DEF EditorAgrees
        <3> QED BY <2>5, <3>1, <3>2 DEF ToJsonTab, Loaded
    <2>6. CASE \E i \in {0} \union DOMAIN parsed : Show(i)
        BY <2>6 DEF Show, EditorAgrees
    <2>7. CASE Cancel \/ Ok \/ (\E i \in DOMAIN parsed : DeleteOutbound(i) \/ SetFirstOutbound(i))
        BY <2>7 DEF Cancel, Ok, DeleteOutbound, SetFirstOutbound, Use, EditorAgrees
    <2>8. CASE ToFormTab \/ LoadFails \/ UNCHANGED vars
        BY <2>8 DEF ToFormTab, LoadFails, vars, modal, EditorAgrees
    <2> QED BY <2>1, <2>4, <2>5, <2>6, <2>7, <2>8 DEF Next
<1> QED BY <1>1, <1>2, PTL DEF Spec

-----------------------------------------------------------------------------
(***************************************************************************)
(* The list and its parsed copy                                            *)
(***************************************************************************)
\* Two lists whose entries agree but for what the form holds by reference.
Alike(l, m) == /\ Len(l) = Len(m) /\ DOMAIN l = DOMAIN m
               /\ \A i \in DOMAIN l : l[i].tag = m[i].tag /\ Strip(l[i]) = Strip(m[i])

Moves == \E i \in DOMAIN parsed : DeleteOutbound(i) \/ SetFirstOutbound(i)

LEMMA PageStep ==
    ASSUME FormType, [Next]_vars
    PROVE  \/ Ok \/ Moves
           \/ list' = list /\ Alike(parsed', parsed)
<1> SUFFICES ASSUME ~Ok, ~Moves PROVE list' = list /\ Alike(parsed', parsed)
    OBVIOUS
<1>1. parsed' = parsed => Alike(parsed', parsed)
    BY DEF Alike
<1>2. CASE EditForm
    <2>1. list' = list
        BY <1>2 DEF EditForm, SetTag, SetProtocol, SetNetwork, SetSecurity, SetMux, SetField, Change
    <2>2. ASSUME NEW part \in {"settings", "stream"}, NEW f, NEW v \in Inputs(f), SetField(part, f, v)
          PROVE  Alike(parsed', parsed)
        <3>1. CASE parsed' = Leaked(part, f, v) /\ f \in alias.fields
            <4>1. v # Undef
                BY <2>2, <3>1, SetFieldIs DEF FormType, Shown, AliasType
            <4>2. /\ DOMAIN Leaked(part, f, v) = DOMAIN parsed
                  /\ Len(Leaked(part, f, v)) = Len(parsed)
                  /\ \A i \in DOMAIN parsed : /\ Leaked(part, f, v)[i].tag = parsed[i].tag
                                              /\ Strip(Leaked(part, f, v)[i]) = Strip(parsed[i])
                BY <4>1, LeakedIs DEF FormType
            <4> QED BY <3>1, <4>2 DEF Alike
        <3>2. CASE parsed' = Leaked(part, f, v) /\ f \notin alias.fields
            BY <1>1, <3>2 DEF Leaked
        <3> QED BY <1>1, <2>2, <3>1, <3>2 DEF SetField
    <2>3. (\E part \in {"settings", "stream"} : \E f \in DOMAIN o[part] : \E v \in Inputs(f) : SetField(part, f, v))
              \/ parsed' = parsed
        BY <1>2 DEF EditForm, SetTag, SetProtocol, SetNetwork, SetSecurity, SetMux
    <2> QED BY <1>1, <2>1, <2>2, <2>3
<1>3. CASE EditText
    <2>1. list' = list /\ parsed' = parsed
        BY <1>3 DEF EditText, Type, ConvertLink, page
    <2> QED BY <1>1, <2>1
<1>4. CASE ~EditForm /\ ~EditText
    <2>1. list' = list /\ parsed' = parsed
        BY <1>4 DEF Moves, Next, Show, Cancel, ToJsonTab, ToFormTab, Loaded, LoadFails, page, vars
    <2> QED BY <1>1, <2>1
<1> QED BY <1>2, <1>3, <1>4

LEMMA AlikeStep ==
    ASSUME FormType, Alike(list, parsed), [Next]_vars
    PROVE  Alike(list, parsed)'
<1>1. CASE Ok \/ Moves
    BY <1>1, OkType, MoveType DEF Alike, Moves
<1>2. CASE list' = list /\ Alike(parsed', parsed)
    BY <1>2 DEF Alike
<1> QED BY <1>1, <1>2, PageStep

\* A change of the list writes the outbound of the form to the entry it was opened for;
\* every other entry is one of the entries before, but for the fields held by reference.
THEOREM OnlyItsEntry == Spec => OthersKept
<1>1. Init => FormType /\ Alike(list, parsed)
    BY TypeInit DEF Init, Alike
<1>2. FormType /\ Alike(list, parsed) /\ [Next]_vars => (FormType /\ Alike(list, parsed))'
    BY TypeStep, AlikeStep
<1>3. FormType /\ Alike(list, parsed) /\ [Next]_vars => [WritesItsEntry]_vars
    <2> SUFFICES ASSUME FormType, Alike(list, parsed), [Next]_vars PROVE WritesItsEntry
        OBVIOUS
    <2>1. CASE list' = list
        BY <2>1 DEF WritesItsEntry
    <2>2. CASE Ok
        <3> DEFINE l == Saved(parsed, ToJson(o))
        <3>1. list' = l /\ visible /\ index \in 0..Len(parsed) /\ IsList(parsed) /\ IsJson(ToJson(o))
            BY <2>2, OkType, ToJsonIs DEF Ok, FormType, ModalType, ListType, Shown
        <3>2. /\ l[Place(l)] = ToJson(o)
              /\ \A i \in DOMAIN l : i # Place(l) => i \in DOMAIN parsed /\ l[i] = parsed[i]
            BY <3>1, SavedIs
        <3> HIDE DEF l
        <3>3. ASSUME NEW i \in DOMAIN l, i # Place(l)
              PROVE  i \in DOMAIN list /\ Strip(list[i]) = Strip(l[i])
            BY <3>2, <3>3 DEF Alike
        <3> QED BY <3>1, <3>2, <3>3 DEF WritesItsEntry, Place
    <2>3. CASE Moves
        <3>1. Drawn(list', parsed)
            BY <2>3, MoveType DEF Moves
        <3>2. PICK h \in [DOMAIN list' -> DOMAIN parsed] : \A i \in DOMAIN list' : list'[i] = parsed[h[i]]
            BY <3>1 DEF Drawn
        <3>3. ASSUME NEW i \in DOMAIN list'
              PROVE  h[i] \in DOMAIN list /\ Strip(list[h[i]]) = Strip(list'[i])
            BY <3>2 DEF Alike
        <3> QED BY <3>3 DEF WritesItsEntry
    <2> QED BY <2>1, <2>2, <2>3, PageStep
<1> QED BY <1>1, <1>2, <1>3, PTL DEF Spec, OthersKept

-----------------------------------------------------------------------------
(***************************************************************************)
(* Tags                                                                    *)
(***************************************************************************)
Apart(l) == \A i, k \in DOMAIN l : i # k => l[i].tag # l[k].tag

\* While the modal is open its tags are those of the other entries and its verdict is
\* that of the tag it shows.
TagInv == ~kept => /\ Apart(parsed)
                   /\ visible => /\ tags = {parsed[k].tag : k \in DOMAIN parsed \ {index}}
                                 /\ isValid = (o.tag # "" /\ o.tag \notin tags)

LEMMA SavedApart ==
    ASSUME FormType, TagInv, Ok, ~kept
    PROVE  Apart(Saved(parsed, ToJson(o)))
<1> DEFINE x == ToJson(o)
           l == Saved(parsed, x)
<1>1. /\ visible /\ isValid /\ index \in 0..Len(parsed) /\ IsList(parsed) /\ IsJson(x) /\ x.tag = o.tag
    BY ToJsonIs DEF Ok, FormType, ModalType, ListType, Shown, ToJson
<1>2. \A k \in DOMAIN parsed \ {index} : parsed[k].tag # x.tag
    BY <1>1 DEF TagInv
<1>3. /\ l[Place(l)] = x
      /\ \A i \in DOMAIN l : i # Place(l) => i \in DOMAIN parsed \ {index} /\ l[i] = parsed[i]
    BY <1>1, SavedIs
<1>4. Apart(parsed)
    BY DEF TagInv
<1> HIDE DEF l, x
<1>5. ASSUME NEW i \in DOMAIN l, NEW k \in DOMAIN l, i # k
      PROVE  l[i].tag # l[k].tag
    BY <1>2, <1>3, <1>4, <1>5 DEF Apart
<1> QED BY <1>5 DEF Apart, l, x

LEMMA DrawnApart ==
    ASSUME NEW l, NEW m, Drawn(m, l), Apart(l)
    PROVE  Apart(m)
<1>1. PICK h \in [DOMAIN m -> DOMAIN l] :
        /\ \A i, k \in DOMAIN m : i # k => h[i] # h[k]
        /\ \A i \in DOMAIN m : m[i] = l[h[i]]
    BY DEF Drawn
<1>2. ASSUME NEW i \in DOMAIN m, NEW k \in DOMAIN m, i # k
      PROVE  m[i].tag # m[k].tag
    <2>1. h[i] \in DOMAIN l /\ h[k] \in DOMAIN l /\ h[i] # h[k]
        BY <1>1, <1>2
    <2> QED BY <1>1, <2>1 DEF Apart
<1> QED BY <1>2 DEF Apart

\* A step that keeps the tags there are, and the verdict with the tag it is about.
LEMMA SameTags ==
    ASSUME TagInv, Alike(parsed', parsed), kept' = kept, index' = index, tags' = tags,
           visible' => visible,
           (o'.tag = o.tag /\ isValid' = isValid) \/ isValid' = (o'.tag # "" /\ o'.tag \notin tags)
    PROVE  TagInv'
<1>1. {parsed'[k].tag : k \in DOMAIN parsed' \ {index}} = {parsed[k].tag : k \in DOMAIN parsed \ {index}}
    BY DEF Alike
<1>2. Apart(parsed) => Apart(parsed')
    BY DEF Apart, Alike
<1> QED BY <1>1, <1>2 DEF TagInv

LEMMA FormStepTags ==
    ASSUME FormType, TagInv, EditForm
    PROVE  TagInv'
<1>1. Alike(parsed', parsed)
    <2>1. visible = TRUE /\ visible' = visible
        BY Zenon DEF EditForm, SetTag, SetProtocol, SetNetwork, SetSecurity, SetMux, SetField, Change, Edit,
                     modal, FormType, ModalType
    <2>2. ~Ok
        BY <2>1, Zenon DEF Ok
    <2>3. ~Moves
        BY <2>1, Zenon DEF Moves, DeleteOutbound, SetFirstOutbound, Use
    <2> QED BY <2>2, <2>3, PageStep DEF Next
<1>2. kept' = kept /\ index' = index /\ tags' = tags /\ visible' = visible
    BY DEF EditForm, SetTag, SetProtocol, SetNetwork, SetSecurity, SetMux, SetField, Change, modal
<1>3. Outbound(o) /\ IsObject(o)
    BY DEF FormType, Shown, IsObject
<1>4. ASSUME NEW b, NEW a, IsObject(b), Change(b, a)
      PROVE  o'.tag = b.tag
    BY <1>4, RenderIs DEF Change
<1> DEFINE Verdict == \/ o'.tag = o.tag /\ isValid' = isValid
                      \/ isValid' = (o'.tag # "" /\ o'.tag \notin tags)
<1>5. ASSUME NEW t, SetTag(t) PROVE Verdict
    BY <1>5 DEF SetTag, Check
<1>6. ASSUME NEW p, SetProtocol(p) PROVE Verdict
    <2> DEFINE b == [o EXCEPT !.protocol = p, !.settings = SettingsDefault(p), !.stream = StreamDefault]
    <2>1. o'.tag = b.tag
        BY <1>6 DEF SetProtocol, Change, Render
    <2>2. b.tag = o.tag
        BY <1>3 DEF Outbound
    <2> HIDE DEF b
    <2> QED BY <1>6, <2>1, <2>2 DEF SetProtocol
<1>7. ASSUME NEW n \in Transports, SetNetwork(n) PROVE Verdict
    BY <1>3, <1>7 DEF SetNetwork, Change, Render, Outbound
<1>8. ASSUME NEW s, SetSecurity(s) PROVE Verdict
    BY <1>3, <1>8 DEF SetSecurity, Change, Render, Outbound
<1>9. ASSUME SetMux PROVE Verdict
    <2> DEFINE b == [o EXCEPT !.mux = ~@]
    <2>1. o' = Render(b) /\ isValid' = isValid
        BY <1>9 DEF SetMux, Change
    <2>2. b.tag = o.tag /\ DOMAIN b = DOMAIN o /\ "tag" \in DOMAIN o
        BY <1>3 DEF Outbound
    <2> HIDE DEF b
    <2> QED BY <2>1, <2>2 DEF Render
<1>10. ASSUME NEW part \in {"settings", "stream"}, NEW f, NEW v, SetField(part, f, v) PROVE Verdict
    <2> DEFINE b == [o EXCEPT ![part][f] = v]
    <2>1. o' = Render(b) /\ isValid' = isValid
        BY <1>10 DEF SetField, Change
    <2>2. b.tag = o.tag /\ DOMAIN b = DOMAIN o /\ "tag" \in DOMAIN o
        BY <1>3 DEF Outbound
    <2> HIDE DEF b
    <2> QED BY <2>1, <2>2 DEF Render
<1>11. Verdict
    <2> HIDE DEF Verdict
    <2> QED BY <1>5, <1>6, <1>7, <1>8, <1>9, <1>10, Zenon DEF EditForm
<1> QED BY <1>1, <1>2, <1>11, SameTags

LEMMA TagStep ==
    ASSUME FormType, TagInv, [Next]_vars
    PROVE  TagInv'
<1>1. CASE Ok
    <2>1. visible' = FALSE /\ kept' = kept /\ parsed' = Saved(parsed, ToJson(o))
        BY <1>1, OkType DEF Ok
    <2> QED BY <1>1, <2>1, SavedApart DEF TagInv
<1>2. CASE Moves
    <2>1. visible' = FALSE /\ kept' = kept
        BY <1>2 DEF Moves, DeleteOutbound, SetFirstOutbound, Use, FormType, ModalType
    <2>2. Drawn(parsed', parsed)
        BY <1>2, MoveType DEF Moves
    <2> QED BY <2>1, <2>2, DrawnApart DEF TagInv
<1>3. ASSUME NEW i \in {0} \union DOMAIN parsed, Show(i)
      PROVE  TagInv'
    <2>1. CASE i > 0 /\ ~Readable(parsed[i])
        BY <1>3, <2>1 DEF Show, TagInv
    <2>2. CASE ~(i > 0 /\ ~Readable(parsed[i]))
        <3>1. /\ index' = i /\ parsed' = parsed /\ kept' = kept
              /\ tags' = {parsed[k].tag : k \in {n \in DOMAIN parsed : n # i}}
              /\ isValid' = (o'.tag # "" /\ o'.tag \notin tags')
            <4>1. index' = i /\ parsed' = parsed
                BY <1>3 DEF Show, page
            <4>2. /\ kept' = kept
                  /\ tags' = {parsed[k].tag : k \in {n \in DOMAIN parsed : n # i}}
                BY <1>3, <2>2, Zenon DEF Show
            <4>3. \E b : o' = b /\ Check(b, tags')
                BY <1>3, <2>2, Zenon DEF Show
            <4> QED BY <4>1, <4>2, <4>3 DEF Check
        <3>2. {n \in DOMAIN parsed : n # i} = DOMAIN parsed \ {i}
            OBVIOUS
        <3> QED BY <3>1, <3>2 DEF TagInv
    <2> QED BY <2>1, <2>2
<1>4. ASSUME list' = list, Alike(parsed', parsed), ~Ok, ~Moves,
             ~\E i \in {0} \union DOMAIN parsed : Show(i)
      PROVE  TagInv'
    <2>1. CASE EditForm
        BY <2>1, FormStepTags
    <2>2. ASSUME NEW text, Type(text)
          PROVE  \/ o' = o /\ isValid' = isValid
                 \/ isValid' = (o'.tag # "" /\ o'.tag \notin tags)
        BY <2>2 DEF Type, Check
    <2>3. CASE EditText
        <3>1. kept' = kept /\ index' = index /\ tags' = tags /\ visible' = visible
            BY <2>3 DEF EditText, Type, ConvertLink, modal
        <3>2. \/ o' = o /\ isValid' = isValid
              \/ isValid' = (o'.tag # "" /\ o'.tag \notin tags)
            BY <2>2, <2>3 DEF EditText, ConvertLink, Check
        <3> QED BY <1>4, <3>1, <3>2, SameTags
    <2>4. CASE Cancel \/ ToJsonTab \/ ToFormTab \/ Loaded \/ LoadFails \/ UNCHANGED vars
        <3>1. /\ kept' = kept /\ index' = index /\ tags' = tags /\ (visible' => visible)
              /\ o' = o /\ isValid' = isValid
            BY <2>4 DEF Cancel, ToJsonTab, ToFormTab, Loaded, LoadFails, modal, vars
        <3> QED BY <1>4, <3>1, SameTags
    <2> QED BY <1>4, <2>1, <2>3, <2>4 DEF Next, Moves
<1> QED BY <1>1, <1>2, <1>3, <1>4, PageStep

\* Two outbounds of the list never have one tag, unless the modal was once opened with
\* an entry that could not be read.
THEOREM TagsApart == Spec => []TagsDiffer
<1> DEFINE Inv == FormType /\ Alike(list, parsed) /\ TagInv
<1>1. Init => Inv
    <2> SUFFICES ASSUME Init PROVE TagInv /\ Alike(list, parsed)
        BY TypeInit
    <2>1. Apart(parsed)
        BY ListsAssumption DEF Init, Apart
    <2> QED BY <2>1 DEF Init, TagInv, Alike
<1>2. Inv /\ [Next]_vars => Inv'
    BY TypeStep, AlikeStep, TagStep
<1>3. Inv => TagsDiffer
    BY DEF TagInv, Alike, Apart, TagsDiffer
<1> QED BY <1>1, <1>2, <1>3, PTL DEF Spec
=============================================================================
