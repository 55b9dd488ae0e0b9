SPECIFICATION Spec
CONSTANTS
    Protocols = {"freedom", "blackhole", "dns", "vmess", "vless", "trojan", "shadowsocks", "socks", "http", "wireguard", "hysteria"}
    Lists <- MCLists
    Texts <- MCTexts
    Links <- MCLinks
    Tags = {"", "b", "c"}
    MaxEdits = 2
    MaxUses = 2
INVARIANTS
    ReopenKeeps
    NoMuxWithFlow
    EditorAgrees
    TagsDiffer
PROPERTIES
    OthersKept
CHECK_DEADLOCK FALSE
