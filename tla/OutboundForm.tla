------------------------------ MODULE OutboundForm ------------------------------
(***************************************************************************)
(* The outbound editor of the panel's Xray page: the classes that read and *)
(* write an outbound (panel/web/assets/js/model/outbound.js), the modal    *)
(* with its form, JSON tab and link import                                 *)
(* (panel/web/html/modals/xray_outbound_modal.html, form/outbound.html)    *)
(* and the list it edits (panel/web/html/xray.html).                       *)
(*                                                                         *)
(* Every class is a table: its fields with what its constructor gives them *)
(* (SettingsDefault, StreamDefault), what fromJson does beyond filling in  *)
(* absent fields (FromSettings, FromStream), and which fields toJson       *)
(* leaves out (ToSettings, ToStream).  Fields that are read and written    *)
(* alike are one field here.  A value is Undef, "empty" ('', [], {}, a     *)
(* cleared number), "def" (a constructor's default), "given" (found in the *)
(* list), "user" (typed into the form), or "loose": typed too, but not     *)
(* what the class reads back (the custom tables of a Sudoku mask, an array *)
(* in the class, as text; a cleared number of a mask; reserved bytes that  *)
(* are no numbers).                                                        *)
(*                                                                         *)
(* The list is the text xraySetting.  templateSettings is a computed       *)
(* property: its parsed copy is kept until the text changes.  fromJson     *)
(* copies most of an outbound, but some objects (the xmux of XHTTP, the    *)
(* Vision seed of VLESS, a peer's allowedIPs, the items of a UDP or a TCP  *)
(* mask) go into the form by reference and are edited in place, so the     *)
(* edit is in the parsed copy too, whether or not the form is confirmed.   *)
(***************************************************************************)
EXTENDS Naturals, FiniteSets, SequencesExt

CONSTANTS Protocols,   \* the protocols the administrator picks from
          Lists,       \* the outbound lists the page may load
          Texts,       \* what the administrator types into the JSON tab
          Links,       \* what fromLink makes of the links that are imported
          Tags,        \* the tags typed into the form
          MaxEdits,    \* bound: changes made in the modal
          MaxUses      \* bound: openings of the modal, deletions and moves

VARIABLES list,      \* xraySetting: the outbounds in the text
          parsed,    \* templateSettings: the parsed copy of the text
          visible,   \* outModal.visible
          index,     \* the entry OK replaces, 0 when it adds one (outModal.confirm)
          tags,      \* outModal.tags
          isValid,   \* outModal.isValid
          o,         \* outModal.outbound
          alias,     \* entry of parsed and fields of it that o holds by reference
          tab,       \* outModal.activeKey
          cm,        \* outModal.cm: no editor, or its text
          loader,    \* CodeMirrorLoader
          waiting,   \* whether a toggleJson(true) awaits the loader
          kept,      \* history: whether the modal was opened with an earlier outbound
          last,      \* history: the outbounds saved last, at most one
          edits, uses

vars == <<list, parsed, visible, index, tags, isValid, o, alias, tab, cm,
          loader, waiting, kept, last, edits, uses>>
modal == <<visible, index, tags, kept, uses>>
page == <<list, parsed, last>>

Undef == "undef"
Set(v) == v \notin {Undef, "empty"}
Value(j, f) == IF f \in DOMAIN j THEN j[f] ELSE Undef
\* Parameters of a constructor take their defaults where an argument is undefined.
Filled(d, j) == [f \in DOMAIN d |-> IF f \in DOMAIN j THEN j[f] ELSE d[f]]
\* Reading "loose" input leaves something that reads back as itself.
Tidy(v) == IF v = "loose" THEN "given" ELSE v
Present(s, dropped) ==
    Restrict(s, {f \in DOMAIN s : s[f] # Undef} \ dropped)
NoFields == [f \in {} |-> Undef]

\* An outbound as the text has it: what is absent has no field.
Given(s) == s = [f \in DOMAIN s |-> s[f]] /\ \A f \in DOMAIN s : s[f] # Undef
Outbound(j) == /\ j = [tag |-> j.tag, protocol |-> j.protocol, settings |-> j.settings,
                       stream |-> j.stream, mux |-> j.mux]
               /\ j.mux \in BOOLEAN
IsJson(j) == Outbound(j) /\ Given(j.settings) /\ Given(j.stream)

\* Xray refuses two outbounds of one tag and the form an empty tag, so the page loads neither.
ASSUME ListsAssumption ==
    \A l \in Lists : /\ l \in Seq(ToSet(l))
                     /\ \A i \in DOMAIN l : IsJson(l[i])
                     /\ \A i, k \in DOMAIN l : i # k => l[i].tag # l[k].tag
ASSUME TextsAssumption == \A j \in Texts : IsJson(j)

---------------------------------------------------------------------------
(* Settings of the protocols *)

\* The field server stands for address and port; "empty" where toJson writes an
\* array with a server that has neither.
SettingsDefault(p) ==
    CASE p = "freedom"   -> [params |-> "empty", fragment |-> "empty", noises |-> "empty"]
      [] p = "blackhole" -> [type |-> Undef]
      [] p = "dns"       -> [server |-> "def", rules |-> "empty"]
      [] p = "vmess"     -> [server |-> "empty", id |-> Undef]
      [] p = "vless"     -> [server |-> Undef, id |-> Undef, flow |-> Undef,
                             testpre |-> "empty", testseed |-> "def"]
      [] p \in {"trojan", "shadowsocks"} -> [server |-> "empty"]
      [] p \in {"socks", "http"} -> [server |-> "empty", user |-> Undef, pass |-> Undef]
      \* numbers: mtu and workers, keepAlive of the peers
      [] p = "wireguard" -> [params |-> "def", numbers |-> "def", domainStrategy |-> "empty",
                             reserved |-> "empty", peers |-> "def", psk |-> "empty",
                             allowedIPs |-> "def"]
      [] OTHER           -> [server |-> "def"]

\* fromJson indexes vnext, servers and peers without asking whether they are there
\* (ObjectUtil.isArrEmpty of undefined is false), and throws when they are not.
NeedsArray == {"vmess", "trojan", "shadowsocks", "socks", "http", "wireguard"}

\* It throws as well on a server without users ("userless") and on an HTTP header of TCP
\* whose request has no Host or no path ("bareRequest").
Readable(j) ==
    /\ j.protocol \in NeedsArray =>
           (IF j.protocol = "wireguard" THEN "peers" ELSE "server") \in DOMAIN j.settings
    /\ j.protocol \in {"vmess", "socks", "http"} => "userless" \notin DOMAIN j.settings
    /\ "bareRequest" \notin DOMAIN j.stream

\* getDNSRulesFromJson: the former nonIPQuery and blockTypes become rules.
DnsRules(j) == CASE Set(Value(j, "rules")) -> j.rules
                 [] "legacy" \in DOMAIN j -> "def"
                 [] OTHER -> "empty"

FromSettings(p, j) ==
    LET s == Filled(SettingsDefault(p), j) IN
    CASE p = "vless" /\ ~Set(s.server) -> SettingsDefault(p)
      [] p \in {"socks", "http"} /\ "user" \notin DOMAIN j ->
            [s EXCEPT !.user = "empty", !.pass = "empty"]
      [] p = "dns" -> [s EXCEPT !.rules = DnsRules(j)]
      [] p = "wireguard" -> [s EXCEPT !.reserved = Tidy(@)]
      [] OTHER -> s

\* The fields toJson leaves out.
Dropped(p, s) ==
    LET Empty(F) == {f \in F : ~Set(s[f])} IN
    CASE p \in {"freedom", "blackhole"} -> Empty(DOMAIN s)
      [] p = "dns" -> Empty({"rules"})
      [] p = "vless" -> IF Set(s.flow) THEN Empty({"testpre"}) ELSE {"testpre", "testseed"}
      [] p \in {"socks", "http"} -> IF Set(s.user) THEN {} ELSE {"user", "pass"}
      [] p = "wireguard" -> Empty({"numbers", "domainStrategy", "reserved", "psk"})
      [] OTHER -> {}
ToSettings(p, s) == Present(s, Dropped(p, s))

---------------------------------------------------------------------------
(* Stream settings *)

\* The field of a transport's class bears the transport's name.
Transports == {"tcp", "kcp", "ws", "grpc", "httpupgrade", "xhttp", "hysteria"}
StreamDefault ==
    [network |-> "tcp", security |-> "none", tls |-> "def", reality |-> "def",
     tcp |-> "none", tcpHost |-> Undef, kcp |-> "def", ws |-> "def", grpc |-> "def",
     httpupgrade |-> "def", xhttp |-> "def", xmux |-> "def", hysteria |-> "def",
     udphopPort |-> "empty", udphopInterval |-> "def", tcpMasks |-> "empty",
     udpMasks |-> "empty", quicParams |-> Undef, sockopt |-> Undef]

\* Mutant: only the former interval is read, not intervalMin and intervalMax.
FromStream_OldInterval(j) ==
    LET s == Filled(StreamDefault, j) IN
    [s EXCEPT !.tcpHost = IF "tcp" \in DOMAIN j /\ s.tcp # "http" THEN "empty" ELSE @,
              !.tcpMasks = Tidy(@),
              !.udpMasks = Tidy(@),
              !.udphopInterval = IF "interval" \in DOMAIN j THEN j.interval ELSE "def"]

\* The interval of a port hop is read under its former name too; one that was cleared
\* is read as the default, unless it bears the former name.
FromStream(j) ==
    LET s == Filled(StreamDefault, j) IN
    [s EXCEPT !.tcpHost = IF "tcp" \in DOMAIN j /\ s.tcp # "http" THEN "empty" ELSE @,
              !.tcpMasks = Tidy(@),
              !.udpMasks = Tidy(@),
              !.udphopInterval = CASE "interval" \in DOMAIN j -> j.interval
                                   [] Set(@) -> @
                                   [] OTHER -> "def"]

\* Only what belongs to the transport and the security that are chosen is written.
Own(s) ==
    ({s.network} \intersect Transports) \union ({s.security} \intersect {"tls", "reality"})
       \union (IF s.network = "tcp" /\ s.tcp = "http" THEN {"tcpHost"} ELSE {})
       \union (IF s.network = "xhttp" THEN {"xmux"} ELSE {})
       \union (IF s.network = "hysteria" /\ Set(s.udphopPort)
               THEN {"udphopPort", "udphopInterval"} ELSE {})
       \union {f \in {"tcpMasks", "udpMasks", "quicParams", "sockopt"} : Set(s[f])}
ToStream(s) == Present(s, DOMAIN s \ ({"network", "security"} \union Own(s)))

---------------------------------------------------------------------------
(* Outbounds *)

CanEnableStream(b) == b.protocol \in {"vmess", "vless", "trojan", "shadowsocks", "hysteria"}
CanEnableTls(b) ==
    \/ b.protocol = "hysteria"
    \/ /\ CanEnableStream(b)
       /\ b.stream.network \in {"tcp", "ws", "grpc", "httpupgrade", "xhttp"}
CanEnableReality(b) ==
    b.protocol \in {"vless", "trojan"} /\ b.stream.network \in {"tcp", "grpc", "xhttp"}
CanEnableTlsFlow(b) ==
    b.stream.security # "none" /\ b.stream.network = "tcp" /\ b.protocol = "vless"
NoMux(b) == Set(Value(b.settings, "flow")) \/ b.stream.network = "xhttp"
CanEnableMux(b) ==
    ~NoMux(b) /\ b.protocol \in {"vmess", "vless", "trojan", "shadowsocks", "http", "socks"}

\* Mutant: canEnableMux only answers.
Render_Only(b) == b

\* The form is rendered after every change, before the next event; canEnableMux,
\* asked while rendering, switches mux off.
Render(b) == IF NoMux(b) THEN [b EXCEPT !.mux = FALSE] ELSE b

NewOutbound(p) == [tag |-> "", protocol |-> p, settings |-> SettingsDefault(p),
                   stream |-> StreamDefault, mux |-> FALSE]

FromJson(j) == [tag |-> j.tag, protocol |-> j.protocol, settings |-> FromSettings(j.protocol, j.settings),
                stream |-> FromStream(j.stream), mux |-> j.mux]

\* An outbound as an object of the classes: every field is there, and undefined only
\* if its constructor leaves it so.
Complete(s, d) == /\ s = [f \in DOMAIN d |-> s[f]]
                  /\ \A f \in DOMAIN d : s[f] = Undef => d[f] = Undef
IsObject(b) == /\ Outbound(b)
               /\ Complete(b.settings, SettingsDefault(b.protocol))
               /\ Complete(b.stream, StreamDefault)

\* fromLink calls the constructors.
ASSUME LinksAssumption == \A b \in Links : IsObject(b)

ToJson(b) ==
    [tag |-> b.tag, protocol |-> b.protocol, settings |-> ToSettings(b.protocol, b.settings),
     stream |-> IF CanEnableStream(b) THEN ToStream(b.stream)
                ELSE Restrict(b.stream, {f \in {"sockopt"} : Set(b.stream[f])}),
     mux |-> b.mux]

\* What pressing OK right after opening j saves.
Reopened(j) == ToJson(Render(FromJson(j)))

---------------------------------------------------------------------------
(* The modal *)

NoAlias == [entry |-> 0, fields |-> {}]
SharedFields == {"testseed", "xmux", "allowedIPs", "tcpMasks", "udpMasks"}
\* Mutant: fromJson keeps the settings it is given.
AliasOf_Settings(i) ==
    [entry |-> i, fields |-> DOMAIN parsed[i].settings \union SharedFields]

\* What fromJson took from entry i by reference.
AliasOf(i) ==
    LET j == parsed[i]
        b == FromJson(j) IN
    [entry |-> i,
     fields |-> {f \in SharedFields \intersect (DOMAIN j.settings \union DOMAIN j.stream) :
                    ~(f = "testseed" /\ ~Set(b.settings.server))}]

\* check()
Check(b, ts) == isValid' = (b.tag # "" /\ b.tag \notin ts)

NoEditor == [open |-> FALSE, text |-> {}]
Editor(b) == [open |-> TRUE, text |-> {ToJson(b)}]   \* the text is {} when it is no JSON

Init == /\ list \in Lists
        /\ parsed = list
        /\ visible = FALSE /\ index = 0 /\ tags = {} /\ isValid = TRUE
        /\ o = NewOutbound("vless")
        /\ alias = NoAlias
        /\ tab = "form" /\ cm = NoEditor /\ loader = "idle" /\ waiting = FALSE
        /\ kept = FALSE /\ last = {} /\ edits = 0 /\ uses = 0

\* Counts a change against the bound MaxEdits.
Edit == /\ visible
        /\ edits < MaxEdits
        /\ edits' = edits + 1

\* Counts a use of the page, with the modal closed, against the bound MaxUses.
Use == /\ ~visible
       /\ uses < MaxUses
       /\ uses' = uses + 1

\* Mutant: the tab stays as the last use of the modal left it.
Show_KeepsTab(i) ==
    LET b == IF i = 0 THEN NewOutbound("vless") ELSE Render(FromJson(parsed[i])) IN
    /\ Use
    /\ visible' = TRUE
    /\ index' = i
    /\ IF i > 0 /\ ~Readable(parsed[i])
       THEN kept' = TRUE /\ UNCHANGED <<o, tags, isValid, alias>>
       ELSE /\ o' = b
            /\ tags' = {parsed[k].tag : k \in DOMAIN parsed \ {i}}
            /\ Check(b, tags')
            /\ alias' = IF i = 0 THEN NoAlias ELSE AliasOf(i)
            /\ UNCHANGED kept
    /\ UNCHANGED <<page, tab, cm, loader, waiting, edits>>

\* show(): a fromJson that throws leaves outbound, tags and isValid as they were,
\* when title, confirm, tab and visible are the new entry's already.
Show(i) ==
    LET others == {k \in DOMAIN parsed : k # i}
        b == IF i = 0 THEN NewOutbound("vless") ELSE Render(FromJson(parsed[i])) IN
    /\ Use
    /\ visible' = TRUE
    /\ index' = i
    /\ tab' = "form"
    /\ IF i > 0 /\ ~Readable(parsed[i])
       THEN kept' = TRUE /\ UNCHANGED <<o, tags, isValid, alias>>
       ELSE /\ o' = b
            /\ tags' = {parsed[k].tag : k \in others}
            /\ Check(b, tags')
            /\ alias' = IF i = 0 THEN NoAlias ELSE AliasOf(i)
            /\ UNCHANGED kept
    /\ UNCHANGED <<page, cm, loader, waiting, edits>>

Cancel == /\ visible
          /\ visible' = FALSE
          /\ UNCHANGED <<page, index, tags, isValid, o, alias, tab, cm, loader, waiting, kept,
                         edits, uses>>

\* A new text is parsed anew, so nothing of the form is in the copy any more.
Store(l) == /\ list' = l
            /\ parsed' = l
            /\ alias' = NoAlias

Ok == /\ visible /\ isValid
      /\ Store(IF index = 0 THEN Append(parsed, ToJson(o)) ELSE [parsed EXCEPT ![index] = ToJson(o)])
      /\ last' = {ToJson(o)}
      /\ visible' = FALSE
      /\ UNCHANGED <<index, tags, isValid, o, tab, cm, loader, waiting, kept, edits, uses>>

DeleteOutbound(i) ==
    /\ Use
    /\ Store(RemoveAt(parsed, i))
    /\ UNCHANGED <<visible, index, tags, kept, last, isValid, o, tab, cm, loader, waiting, edits>>

SetFirstOutbound(i) ==
    /\ i > 1 /\ Use
    /\ Store(<<parsed[i]>> \o RemoveAt(parsed, i))
    /\ UNCHANGED <<visible, index, tags, kept, last, isValid, o, tab, cm, loader, waiting, edits>>

---------------------------------------------------------------------------
(* The form *)

\* A change of the form; b is the outbound it makes, a what that still shares.
Change(b, a) == /\ tab = "form" /\ Edit
                /\ o' = Render(b)
                /\ alias' = a
                /\ UNCHANGED <<list, last, modal, tab, cm, loader, waiting>>

SetTag(t) == /\ t # o.tag
             /\ Change([o EXCEPT !.tag = t], alias)
             /\ Check(o', tags)
             /\ UNCHANGED parsed

\* The setter of protocol: settings and stream are made anew, mux stays.
SetProtocol(p) ==
    /\ p # o.protocol
    /\ Change([o EXCEPT !.protocol = p, !.settings = SettingsDefault(p), !.stream = StreamDefault],
              NoAlias)
    /\ UNCHANGED <<parsed, isValid>>

\* streamNetworkChange drops the flow of VLESS.
SetNetwork(n) ==
    LET b == [o EXCEPT !.stream.network = n] IN
    /\ CanEnableStream(o) /\ n # o.stream.network
    /\ n = "hysteria" => o.protocol = "hysteria"
    /\ Change(IF o.protocol = "vless" /\ ~CanEnableTlsFlow(b)
              THEN [b EXCEPT !.settings.flow = Undef] ELSE b, alias)
    /\ UNCHANGED <<parsed, isValid>>

SetSecurity(s) ==
    /\ CanEnableTls(o) /\ s # o.stream.security
    /\ s = "reality" => CanEnableReality(o)
    /\ Change([o EXCEPT !.stream.security = s], alias)
    /\ UNCHANGED <<parsed, isValid>>

SetMux == /\ CanEnableMux(o)
          /\ Change([o EXCEPT !.mux = ~@], alias)
          /\ UNCHANGED <<parsed, isValid>>

\* The fields the form shows.
SettingsShown(b) ==
    DOMAIN b.settings
        \ ((IF CanEnableTlsFlow(b) THEN {} ELSE {"flow", "testpre", "testseed"})
           \union (IF Set(Value(b.settings, "flow")) THEN {} ELSE {"testpre", "testseed"}))
StreamShown(b) ==
    {"sockopt"} \union
    (IF ~CanEnableStream(b) THEN {}
     ELSE ({b.stream.network} \intersect Transports)
          \union {f \in {"tcpMasks", "udpMasks"} : Set(b.stream[f])}
          \union (IF b.stream.network = "tcp" /\ b.stream.tcp = "http" THEN {"tcpHost"} ELSE {})
          \union (IF b.stream.network \in {"tcp", "ws", "grpc", "httpupgrade", "xhttp"}
                  THEN {"tcpMasks"} ELSE {})
          \union (IF b.stream.network = "xhttp" THEN {"xmux"} ELSE {})
          \union (IF b.stream.network = "hysteria" THEN {"udphopPort"} ELSE {})
          \union (IF b.stream.network = "hysteria" /\ Set(b.stream.udphopPort)
                  THEN {"udphopInterval"} ELSE {})
          \union (IF b.stream.network = "kcp" \/ b.protocol = "hysteria" THEN {"udpMasks"} ELSE {})
          \union (IF b.stream.network = "xhttp" \/ b.protocol = "hysteria"
                  THEN {"quicParams"} ELSE {})
          \union (IF CanEnableTls(b) THEN {b.stream.security} \intersect {"tls", "reality"} ELSE {}))

\* What a field can be set to.  A number that was cleared is "empty" where a class treats
\* it apart, and elsewhere a value as any other.
Inputs(f) ==
    CASE f = "tcp" -> {"none", "http"}
      [] f \in {"quicParams", "sockopt"} -> {Undef, "user"}
      [] f \in {"server", "flow", "user", "fragment", "rules", "numbers", "udphopPort",
                "udphopInterval"} -> {"empty", "user"}
      [] f \in {"reserved", "tcpMasks", "udpMasks"} -> {"empty", "user", "loose"}
      [] OTHER -> {"user"}

\* In the parsed copy, field f of entry alias.entry becomes v.
Leaked(part, f, v) ==
    IF f \in alias.fields
    THEN [parsed EXCEPT ![alias.entry][part][f] = v]
    ELSE parsed

\* Items of a mask are shared; the array that holds the masks, and what may be "loose" in
\* one, are not: an edit of the masks is either.
SetField(part, f, v) ==
    /\ f \in IF part = "settings" THEN SettingsShown(o) ELSE StreamShown(o)
    /\ v # o[part][f]
    /\ Change([o EXCEPT ![part][f] = v], alias)
    /\ \/ /\ f \in {"tcpMasks", "udpMasks"} => v = "user"
          /\ parsed' = Leaked(part, f, v)
       \/ /\ f \in {"tcpMasks", "udpMasks"}
          /\ UNCHANGED parsed
    /\ UNCHANGED isValid

EditForm ==
    \/ \E t \in Tags : SetTag(t)
    \/ \E p \in Protocols : SetProtocol(p)
    \/ \E n \in Transports : SetNetwork(n)
    \/ \E s \in {"none", "tls", "reality"} : SetSecurity(s)
    \/ SetMux
    \/ \E part \in {"settings", "stream"} : \E f \in DOMAIN o[part] : \E v \in Inputs(f) :
            SetField(part, f, v)

---------------------------------------------------------------------------
(* The JSON tab *)

OpenEditor == /\ cm' = Editor(o)
              /\ tab' = "json"

\* toggleJson(true): the editor is made after the loader is done, for whatever
\* outbound is in the modal by then.
ToJsonTab ==
    /\ visible /\ tab = "form"
    /\ \/ loader = "ready" /\ OpenEditor /\ UNCHANGED <<loader, waiting>>
       \/ /\ loader \in {"idle", "loading"} /\ ~waiting
          /\ loader' = "loading"
          /\ waiting' = TRUE
          /\ UNCHANGED <<cm, tab>>
    /\ UNCHANGED <<page, modal, isValid, o, alias, edits>>

Loaded == /\ loader = "loading"
          /\ loader' = "ready"
          /\ waiting' = FALSE
          /\ OpenEditor
          /\ UNCHANGED <<page, modal, isValid, o, alias, edits>>

\* The promise of a failed load is kept: the tab does not open any more.
LoadFails == /\ loader = "loading"
             /\ loader' = "failed"
             /\ waiting' = FALSE
             /\ UNCHANGED <<page, modal, isValid, o, alias, tab, cm, edits>>

ToFormTab == /\ visible /\ tab = "json"
             /\ tab' = "form"
             /\ cm' = NoEditor
             /\ UNCHANGED <<page, modal, isValid, o, alias, loader, waiting, edits>>

\* The change handler of the editor: text that is no JSON, or that fromJson throws
\* on, leaves the outbound as it is.
Type(text) ==
    /\ tab = "json" /\ cm.open /\ Edit
    /\ cm.text # text
    /\ cm' = [cm EXCEPT !.text = text]
    /\ IF \E j \in text : Readable(j)
       THEN /\ \E j \in text : o' = Render(FromJson(j))
            /\ alias' = NoAlias
            /\ Check(o', tags)
       ELSE UNCHANGED <<o, alias, isValid>>
    /\ UNCHANGED <<page, modal, tab, loader, waiting>>

\* Mutant: an imported tag is not checked.
ConvertLink_NoCheck(b) ==
    /\ tab = "json" /\ loader = "ready" /\ Edit
    /\ o' = Render(b)
    /\ alias' = NoAlias
    /\ cm' = Editor(o')
    /\ UNCHANGED <<page, modal, isValid, tab, loader, waiting>>

\* convertLink(), from the field above the editor.
ConvertLink(b) ==
    /\ tab = "json" /\ loader = "ready" /\ Edit
    /\ o' = Render(b)
    /\ alias' = NoAlias
    /\ cm' = Editor(o')
    /\ Check(o', tags)
    /\ UNCHANGED <<page, modal, tab, loader, waiting>>

EditText ==
    \/ Type({})
    \/ \E j \in Texts : Type({j})
    \/ \E j \in cm.text, t \in Tags : Type({[j EXCEPT !.tag = t]})
    \/ \E b \in Links : ConvertLink(b)

Next ==
    \/ \E i \in {0} \union DOMAIN parsed : Show(i)
    \/ Cancel
    \/ Ok
    \/ \E i \in DOMAIN parsed : DeleteOutbound(i) \/ SetFirstOutbound(i)
    \/ EditForm
    \/ ToJsonTab
    \/ ToFormTab
    \/ Loaded
    \/ LoadFails
    \/ EditText

Spec == Init /\ [][Next]_vars

---------------------------------------------------------------------------
(* Properties *)

\* What saving j again, untouched, makes of it: a VLESS outbound without address or port
\* is blank, WireGuard numbers that were cleared are the defaults, a cleared hop interval
\* likewise, and "loose" input is tidied.
BlankVless(j) == j.protocol = "vless" /\ ~Set(Value(j.settings, "server"))
SettledSettings(p, s) ==
    [f \in DOMAIN s \union (IF p = "wireguard" THEN {"numbers"} ELSE {}) |->
        CASE f \notin DOMAIN s -> "def"
          [] f = "reserved" -> Tidy(s[f])
          [] OTHER -> s[f]]
SettledStream(s) ==
    [f \in DOMAIN s |->
        CASE f = "udphopInterval" /\ ~Set(s[f]) -> "def"
          [] f \in {"tcpMasks", "udpMasks"} -> Tidy(s[f])
          [] OTHER -> s[f]]
Settled(j) ==
    [j EXCEPT !.settings = IF BlankVless(j) THEN NoFields ELSE SettledSettings(j.protocol, @),
              !.stream = SettledStream(@)]

\* Writing and reading are inverse where it matters: an outbound the form saved can
\* be opened again, and saving it untouched changes nothing but what Settled names,
\* whatever changes of protocol, transport, security and text it went through.
ReopenKeeps ==
    \A j \in last : Readable(j) /\ Reopened(j) = Settled(j)

\* No outbound is saved with mux together with a flow or with XHTTP, however it came
\* into the form: by hand in either order, by a link, as text or from the list
\* (the comments of canEnableMux).  The form has no handler for it; the rendering does it.
NoMuxWithFlow ==
    \A j \in last : j.mux => ~Set(Value(j.settings, "flow")) /\ Value(j.stream, "network") # "xhttp"

\* While the JSON tab is in front, OK saves what its text says, or what is left of it
\* when it is read.  Editors of earlier uses of the modal live on and the loader may
\* finish when another outbound is open; neither text is ever in front of another outbound.
EditorAgrees ==
    visible /\ tab = "json" =>
        cm.open /\ \A j \in cm.text : Readable(j) => ToJson(o) \in {j, Reopened(j)}

Strip(j) == [j EXCEPT !.settings = Restrict(@, DOMAIN @ \ SharedFields),
                      !.stream = Restrict(@, DOMAIN @ \ SharedFields)]

\* A change of the list writes the form's outbound to the entry it was opened for and
\* nothing else: an edit that was given up reaches the text later only through the
\* fields the form holds by reference (SharedFields), never through others.
WritesItsEntry ==
    \A i \in DOMAIN list' :
        \/ \E k \in DOMAIN list : Strip(list[k]) = Strip(list'[i])
        \/ visible /\ i = (IF index = 0 THEN Len(list') ELSE index) /\ list'[i] = ToJson(o)
OthersKept == [][WritesItsEntry]_vars

\* Two outbounds of the list never have one tag: isValid, computed when the tag was last
\* looked at, is up to date whenever OK is pressed.  After an entry that could not be read
\* the modal still holds the outbound, the tags and the verdict of its last use.
TagsDiffer ==
    ~kept => \A i, k \in DOMAIN list : i # k => list[i].tag # list[k].tag
=============================================================================
